------------------------ MODULE NetworkClientProofs ------------------------
(***************************************************************************)
(* Facts about the steps of NetworkClient, for any number of texts typed   *)
(* and any server: the order and the memory of overlapping writes, and     *)
(* what the window shows.  ClientServerProofs makes theorems of them.      *)
(***************************************************************************)
EXTENDS NetworkClient, SequenceTheorems, TLAPS

\* All the client does.
AnyStep ==
    \/ \E resolved \in BOOLEAN : construct(resolved)
    \/ \E errorCode \in BOOLEAN : afterConnect(errorCode)
    \/ \E errorCode \in BOOLEAN : afterHandshake(errorCode)
    \/ \E errorCode \in BOOLEAN : afterRead(errorCode)
    \/ \E errorCode \in BOOLEAN : afterWrite(errorCode)
    \/ afterRefusedWrite
    \/ executeJoinLobby

\* Of sequences of numbers: s is n + 1, ..., m; its numbers increase; its i-th
\* number is at least n + i; all its numbers are smaller than those of t.
Contiguous(s, n, m) == Len(s) = m - n /\ \A i \in DOMAIN s : s[i] = n + i
Increasing(s) == \A i, j \in DOMAIN s : i < j => s[i] < s[j]
Above(s, n) == \A i \in DOMAIN s : n + i <= s[i]
Before(s, t) == \A i \in DOMAIN s, j \in DOMAIN t : s[i] < t[j]

\* The buffer holds the numbers from n + 1 to the last one typed, where n texts
\* have been written: a write that fails, or is overwritten, leaves its text behind,
\* so that pop_front drops an older one than the one just written.
BufferIsContiguous == Contiguous(writeBuffer, Len(outbound), typed)

\* The pending writes, after the completed ones, are in the order of typing, and
\* none of them is of a text that pop_front has dropped.
WritesInOrder ==
    /\ Len(outbound) + Len(writing) <= typed
    /\ Above(writing, Len(outbound))
    /\ Increasing(writing)
    /\ Before(outbound, writing)
    /\ Increasing(outbound)

\* The inductive invariant of the writes.
IInv == TypeOK /\ BufferIsContiguous /\ WritesInOrder

\* The window has shown, and incomingMessage holds, what has been read.
ShownIsTaken == displayed \o incomingMessage = SubSeq(inbound, 1, taken)

-----------------------------------------------------------------------------
(***************************************************************************)
(* Sequences of numbers.                                                   *)
(***************************************************************************)

\* The elements of a sequence of numbers are numbers.
LEMMA Elements ==
    ASSUME NEW m \in Nat, NEW s \in Seq(1 .. m)
    PROVE  /\ Len(s) \in Nat /\ DOMAIN s = 1 .. Len(s)
           /\ \A i \in DOMAIN s : i \in Nat /\ 1 <= i /\ i <= Len(s) /\ s[i] \in Nat /\ 1 <= s[i] /\ s[i] <= m
  <1>1. Len(s) \in Nat /\ DOMAIN s = 1 .. Len(s) /\ s \in [1 .. Len(s) -> 1 .. m]
    BY LenProperties
  <1> QED
    BY <1>1

\* One number more, at the end.
LEMMA OneMore ==
    ASSUME NEW S, NEW s \in Seq(S), NEW x \in S
    PROVE  /\ Append(s, x) \in Seq(S) /\ Len(Append(s, x)) = Len(s) + 1
           /\ DOMAIN Append(s, x) = 1 .. (Len(s) + 1)
           /\ \A i \in 1 .. Len(s) : Append(s, x)[i] = s[i]
           /\ Append(s, x)[Len(s) + 1] = x
  BY AppendProperties

\* A sequence of numbers up to m is one of numbers up to m + 1.
LEMMA SeqOfMore == ASSUME NEW m \in Nat, NEW s \in Seq(1 .. m) PROVE s \in Seq(1 .. (m + 1))
  OBVIOUS

\* Which number follows a sequence decides whether it remains increasing.
LEMMA AppendOrder ==
    ASSUME NEW m \in Nat, NEW n \in Nat, NEW s \in Seq(1 .. m), NEW x \in 1 .. m
    PROVE  LET w == Append(s, x) IN
           /\ w \in Seq(1 .. m) /\ Len(w) = Len(s) + 1
           /\ Above(s, n) /\ n + Len(s) + 1 <= x => Above(w, n)
           /\ Contiguous(s, n, x - 1) => Contiguous(w, n, x)
           /\ \A i \in DOMAIN w : (i \in DOMAIN s /\ w[i] = s[i]) \/ (i = Len(s) + 1 /\ w[i] = x)
           /\ Increasing(s) /\ (\A i \in DOMAIN s : s[i] < x) => Increasing(w)
  <1> DEFINE w == Append(s, x)
  <1>1. /\ Len(s) \in Nat /\ DOMAIN s = 1 .. Len(s)
        /\ \A i \in DOMAIN s : i \in Nat /\ 1 <= i /\ i <= Len(s) /\ s[i] \in Nat
    BY Elements
  <1>2. /\ w \in Seq(1 .. m) /\ Len(w) = Len(s) + 1
        /\ DOMAIN w = 1 .. (Len(s) + 1)
        /\ \A i \in 1 .. Len(s) : w[i] = s[i]
        /\ w[Len(s) + 1] = x
    BY OneMore
  <1> HIDE DEF w
  <1>3. \A i \in DOMAIN w : (i \in DOMAIN s /\ w[i] = s[i]) \/ (i = Len(s) + 1 /\ w[i] = x)
    BY <1>1, <1>2
  <1>4. ASSUME Above(s, n), n + Len(s) + 1 <= x PROVE Above(w, n)
    BY <1>1, <1>3, <1>4 DEF Above
  <1>5. ASSUME Contiguous(s, n, x - 1) PROVE Contiguous(w, n, x)
    <2>1. Len(s) = x - 1 - n /\ Len(w) = x - n
      BY <1>1, <1>2, <1>5 DEF Contiguous
    <2> QED
      BY <1>1, <1>3, <1>5, <2>1 DEF Contiguous
  <1>6. ASSUME Increasing(s), \A i \in DOMAIN s : s[i] < x PROVE Increasing(w)
    <2> SUFFICES ASSUME NEW i \in DOMAIN w, NEW j \in DOMAIN w, i < j PROVE w[i] < w[j]
      BY DEF Increasing
    <2>1. i \in DOMAIN s /\ w[i] = s[i]
      BY <1>1, <1>2, <1>3
    <2>2. CASE j \in DOMAIN s /\ w[j] = s[j]
      BY <1>6, <2>1, <2>2 DEF Increasing
    <2>3. CASE w[j] = x
      BY <1>6, <2>1, <2>3
    <2> QED
      BY <1>3, <2>2, <2>3
  <1> QED
    BY <1>2, <1>3, <1>4, <1>5, <1>6 DEF w

\* Dropping the first number.
LEMMA TailOrder ==
    ASSUME NEW m \in Nat, NEW n \in Nat, NEW s \in Seq(1 .. m), s # <<>>
    PROVE  LET w == Tail(s) IN
           /\ w \in Seq(1 .. m) /\ Len(w) = Len(s) - 1 /\ Len(s) >= 1
           /\ Head(s) = s[1] /\ Head(s) \in 1 .. m /\ 1 \in DOMAIN s
           /\ \A i \in DOMAIN w : i \in Nat /\ 1 <= i /\ i + 1 \in DOMAIN s /\ w[i] = s[i + 1]
           /\ Above(s, n) => Above(w, n + 1) /\ Above(w, n)
           /\ Contiguous(s, n, m) => Contiguous(w, n + 1, m)
           /\ Increasing(s) => Increasing(w) /\ \A i \in DOMAIN w : Head(s) < w[i]
  <1> DEFINE w == Tail(s)
  <1>1. /\ Len(s) \in Nat /\ DOMAIN s = 1 .. Len(s)
        /\ \A i \in DOMAIN s : i \in Nat /\ 1 <= i /\ i <= Len(s) /\ s[i] \in Nat
    BY Elements
  <1>2. Len(s) >= 1 /\ 1 \in DOMAIN s /\ Head(s) = s[1]
    BY <1>1
  <1>3. Head(s) \in 1 .. m /\ w \in Seq(1 .. m) /\ Len(w) = Len(s) - 1
    BY HeadTailProperties
  <1>4. DOMAIN w = 1 .. (Len(s) - 1) /\ \A i \in 1 .. (Len(s) - 1) : w[i] = s[i + 1]
    BY <1>3, HeadTailProperties
  <1> HIDE DEF w
  <1>5. \A i \in DOMAIN w : i \in Nat /\ 1 <= i /\ i + 1 \in DOMAIN s /\ w[i] = s[i + 1]
    BY <1>1, <1>2, <1>4
  <1>6. ASSUME Above(s, n) PROVE Above(w, n + 1) /\ Above(w, n)
    BY <1>1, <1>5, <1>6 DEF Above
  <1>7. ASSUME Contiguous(s, n, m) PROVE Contiguous(w, n + 1, m)
    <2>1. Len(w) = m - (n + 1)
      BY <1>1, <1>3, <1>7 DEF Contiguous
    <2> QED
      BY <1>5, <1>7, <2>1 DEF Contiguous
  <1>8. ASSUME Increasing(s) PROVE Increasing(w) /\ \A i \in DOMAIN w : Head(s) < w[i]
    BY <1>2, <1>5, <1>8 DEF Increasing
  <1> QED
    BY <1>2, <1>3, <1>5, <1>6, <1>7, <1>8 DEF w

\* Replacing the second number by a larger one.
LEMMA ReplaceOrder ==
    ASSUME NEW m \in Nat, NEW n \in Nat, NEW s \in Seq(1 .. m), Len(s) = 2, NEW x \in 1 .. m
    PROVE  LET w == <<Head(s), x>> IN
           /\ w \in Seq(1 .. m) /\ Len(w) = 2
           /\ \A i \in DOMAIN w : (i = 1 /\ i \in DOMAIN s /\ w[i] = s[i]) \/ (i = 2 /\ w[i] = x)
           /\ Above(s, n) /\ n + 2 <= x => Above(w, n)
           /\ (\A i \in DOMAIN s : s[i] < x) => Increasing(w)
  <1> DEFINE w == <<Head(s), x>>
  <1>1. 1 \in DOMAIN s /\ s[1] \in 1 .. m
    BY Elements
  <1>2. Head(s) = s[1]
    OBVIOUS
  <1>3. Head(s) \in 1 .. m
    BY <1>1, <1>2
  <1>4. w \in Seq(1 .. m) /\ Len(w) = 2 /\ DOMAIN w = {1, 2} /\ w[1] = Head(s) /\ w[2] = x
    <2> DEFINE S == 1 .. m
               h == Head(s)
    <2>1. x \in S /\ h \in S
      BY <1>3
    <2> HIDE DEF S, h
    <2>2. /\ <<h, x>> \in Seq(S) /\ Len(<<h, x>>) = 2 /\ DOMAIN <<h, x>> = {1, 2}
          /\ <<h, x>>[1] = h /\ <<h, x>>[2] = x
      BY <2>1
    <2> QED
      BY <2>2 DEF S, h
  <1> HIDE DEF w
  <1>5. \A i \in DOMAIN w : (i = 1 /\ i \in DOMAIN s /\ w[i] = s[i]) \/ (i = 2 /\ w[i] = x)
    BY <1>1, <1>2, <1>4
  <1>6. ASSUME Above(s, n), n + 2 <= x PROVE Above(w, n)
    BY <1>1, <1>5, <1>6 DEF Above
  <1>7. ASSUME \A i \in DOMAIN s : s[i] < x PROVE Increasing(w)
    BY <1>1, <1>5, <1>7 DEF Increasing
  <1> QED
    BY <1>4, <1>5, <1>6, <1>7 DEF w

-----------------------------------------------------------------------------
(***************************************************************************)
(* Writing.                                                                *)
(***************************************************************************)

\* The types of the variables the writes are about.
LEMMA Types ==
    ASSUME TypeOK, MaxTyped \in Nat
    PROVE  /\ typed \in Nat
           /\ writeBuffer \in Seq(1 .. typed) /\ writing \in Seq(1 .. typed) /\ outbound \in Seq(1 .. typed)
           /\ Len(writing) <= 2 /\ Len(writing) \in Nat /\ Len(outbound) \in Nat
  <1>1. typed \in Nat
    BY DEF TypeOK
  <1>2. writeBuffer \in Seq(1 .. typed) /\ writing \in Seq(1 .. typed) /\ outbound \in Seq(1 .. typed)
    BY DEF TypeOK
  <1>3. Len(writing) \in Nat /\ Len(outbound) \in Nat
    BY <1>2, LenProperties
  <1>4. Len(writing) <= 2
    BY DEF TypeOK
  <1> QED
    BY <1>1, <1>2, <1>3, <1>4

\* The invariant holds initially.
LEMMA InitIInv == ASSUME MaxTyped \in Nat, inbound \in Seq(Frame), Init PROVE IInv
  <1>1. /\ writeBuffer = <<>> /\ writing = <<>> /\ outbound = <<>> /\ displayed = <<>> /\ incomingMessage = <<>>
        /\ typed = 0 /\ taken = 0 /\ refused = 0
    BY DEF Init
  <1>2. \A S : <<>> \in Seq(S)
    OBVIOUS
  <1>3. Len(<<>>) = 0 /\ DOMAIN <<>> = {} /\ Len(<<>>) <= 2
    OBVIOUS
  <1>4. typed \in 0 .. MaxTyped /\ taken \in 0 .. Len(inbound) /\ refused \in 0 .. typed
    BY <1>1
  <1>5. TypeOK
    BY <1>1, <1>2, <1>3, <1>4, Zenon DEF Init, TypeOK
  <1>6. BufferIsContiguous
    <2>1. 0 = 0 - 0
      OBVIOUS
    <2> QED
      BY <1>1, <1>3, <2>1, Zenon DEF BufferIsContiguous, Contiguous
  <1>7. WritesInOrder
    <2>1. Len(outbound) + Len(writing) <= typed
      BY <1>1
    <2> QED
      BY <1>1, <1>3, <2>1, Zenon DEF WritesInOrder, Above, Increasing, Before
  <1> QED
    BY <1>5, <1>6, <1>7 DEF IInv

\* The handler of a write keeps it.
LEMMA AfterWriteIInv ==
    ASSUME MaxTyped \in Nat, IInv, NEW errorCode \in BOOLEAN, afterWrite(errorCode), UNCHANGED inbound
    PROVE  IInv'
  <1> DEFINE n == Len(outbound)
  <1>1. /\ typed \in Nat
        /\ writeBuffer \in Seq(1 .. typed) /\ writing \in Seq(1 .. typed) /\ outbound \in Seq(1 .. typed)
        /\ Len(writing) <= 2 /\ Len(writing) \in Nat /\ n \in Nat
    BY Types DEF IInv
  <1>2. /\ writing # <<>> /\ writing' = Tail(writing)
        /\ UNCHANGED <<incomingMessage, stage, reading, refused, pc, displayed, typed, taken>>
    BY DEF afterWrite
  <1>3. /\ n + Len(writing) <= typed /\ Above(writing, n) /\ Increasing(writing)
        /\ Before(outbound, writing) /\ Increasing(outbound)
        /\ Contiguous(writeBuffer, n, typed)
    BY DEF IInv, WritesInOrder, BufferIsContiguous
  <1>4. /\ writing' \in Seq(1 .. typed) /\ Len(writing') = Len(writing) - 1 /\ Len(writing) >= 1
        /\ Head(writing) = writing[1] /\ Head(writing) \in 1 .. typed /\ 1 \in DOMAIN writing
        /\ \A i \in DOMAIN writing' : i + 1 \in DOMAIN writing /\ writing'[i] = writing[i + 1]
        /\ Above(writing', n + 1) /\ Above(writing', n)
        /\ Increasing(writing') /\ \A i \in DOMAIN writing' : Head(writing) < writing'[i]
    BY <1>1, <1>2, <1>3, TailOrder
  <1>5. Before(outbound, writing')
    BY <1>3, <1>4 DEF Before
  <1>6. Len(writing') <= 2 /\ n + Len(writing') <= typed /\ n + 1 + Len(writing') <= typed
    BY <1>1, <1>3, <1>4
  <1>7. CASE errorCode
    <2>1. UNCHANGED <<writeBuffer, outbound>> /\ isClosed' = TRUE
      BY <1>7 DEF afterWrite, disconnect
    <2>2. TypeOK'
      BY <1>2, <1>4, <1>6, <2>1 DEF IInv, TypeOK
    <2>3. BufferIsContiguous'
      BY <1>2, <1>3, <2>1 DEF BufferIsContiguous, Contiguous
    <2>4. WritesInOrder'
      BY <1>2, <1>3, <1>4, <1>5, <1>6, <2>1 DEF WritesInOrder, Above, Increasing, Before
    <2> QED
      BY <2>2, <2>3, <2>4 DEF IInv
  <1>8. CASE ~errorCode
    <2>1. /\ outbound' = Append(outbound, Head(writing)) /\ writeBuffer' = Tail(writeBuffer)
          /\ UNCHANGED isClosed
      BY <1>8 DEF afterWrite, pop_front
    <2>2. writeBuffer # <<>>
      <3>1. Len(writeBuffer) = typed - n
        BY <1>3 DEF Contiguous
      <3>2. Len(writeBuffer) # 0
        BY <1>1, <1>3, <1>4, <3>1
      <3> QED
        BY <3>2
    <2>3. writeBuffer' \in Seq(1 .. typed) /\ Contiguous(writeBuffer', n + 1, typed)
      BY <1>1, <1>3, <2>1, <2>2, TailOrder
    <2>4. \A i \in DOMAIN outbound : outbound[i] < Head(writing)
      BY <1>3, <1>4 DEF Before
    <2>5. /\ outbound' \in Seq(1 .. typed) /\ Len(outbound') = n + 1 /\ Increasing(outbound')
          /\ \A i \in DOMAIN outbound' : (i \in DOMAIN outbound /\ outbound'[i] = outbound[i])
                                            \/ outbound'[i] = Head(writing)
      BY <1>1, <1>3, <1>4, <2>1, <2>4, AppendOrder
    <2>6. Before(outbound', writing')
      BY <1>4, <1>5, <2>5 DEF Before
    <2>7. TypeOK'
      BY <1>2, <1>4, <1>6, <2>1, <2>3, <2>5 DEF IInv, TypeOK
    <2>8. BufferIsContiguous'
      BY <1>2, <2>3, <2>5 DEF BufferIsContiguous, Contiguous
    <2>9. WritesInOrder'
      BY <1>2, <1>4, <1>6, <2>5, <2>6 DEF WritesInOrder, Above, Increasing, Before
    <2> QED
      BY <2>7, <2>8, <2>9 DEF IInv
  <1> QED
    BY <1>7, <1>8

\* So does Client::send, whatever becomes of the write it starts.
LEMMA SendIInv ==
    ASSUME MaxTyped \in Nat, IInv, send, UNCHANGED inbound
    PROVE  IInv'
  <1> DEFINE n == Len(outbound)
             m == typed + 1
  <1>1. /\ typed \in Nat
        /\ writeBuffer \in Seq(1 .. typed) /\ writing \in Seq(1 .. typed) /\ outbound \in Seq(1 .. typed)
        /\ Len(writing) <= 2 /\ Len(writing) \in Nat /\ n \in Nat
    BY Types DEF IInv
  <1>2. /\ n + Len(writing) <= typed /\ Above(writing, n) /\ Increasing(writing)
        /\ Before(outbound, writing) /\ Increasing(outbound)
        /\ Contiguous(writeBuffer, n, typed)
    BY DEF IInv, WritesInOrder, BufferIsContiguous
  <1>3. m \in Nat /\ m \in 1 .. m /\ n + Len(writing) + 1 <= m /\ m - 1 = typed
    BY <1>1, <1>2
  <1>4. writeBuffer \in Seq(1 .. m) /\ writing \in Seq(1 .. m) /\ outbound \in Seq(1 .. m)
    BY <1>1, SeqOfMore
  <1>5. (\A i \in DOMAIN writing : writing[i] < m) /\ (\A i \in DOMAIN outbound : outbound[i] < m)
    BY <1>1, Elements
  <1>6. /\ typed' = m /\ writeBuffer' = Append(writeBuffer, m)
        /\ UNCHANGED <<isClosed, incomingMessage, stage, reading, displayed, taken, outbound>>
        /\ writing' = writing \/ writing' = written(m)
        /\ refused' = refused \/ refused' = refused + 1
        /\ pc' \in {"start", "update", "window", "ended", "aborted"}
        /\ typed < MaxTyped
    BY DEF send, continued
  <1> HIDE DEF m
  <1>7. writeBuffer' \in Seq(1 .. m) /\ Contiguous(writeBuffer', n, m)
    BY <1>1, <1>2, <1>3, <1>4, <1>6, AppendOrder
  <1>8. /\ writing' \in Seq(1 .. m) /\ Len(writing') <= 2 /\ n + Len(writing') <= m
        /\ Above(writing', n) /\ Increasing(writing') /\ Before(outbound, writing')
    <2>1. CASE writing' = writing
      BY <1>1, <1>2, <1>3, <1>4, <2>1
    <2>2. CASE writing' = written(m) /\ Len(writing) = 2
      <3>1. writing' = <<Head(writing), m>>
        BY <2>2 DEF written
      <3>2. n + 2 <= m
        BY <1>1, <1>3, <2>2
      <3>3. /\ writing' \in Seq(1 .. m) /\ Len(writing') = 2
            /\ Above(writing', n) /\ Increasing(writing')
            /\ \A i \in DOMAIN writing' : (i \in DOMAIN writing /\ writing'[i] = writing[i]) \/ writing'[i] = m
        BY <1>1, <1>2, <1>3, <1>4, <1>5, <2>2, <3>1, <3>2, ReplaceOrder
      <3>4. Before(outbound, writing')
        BY <1>2, <1>5, <3>3 DEF Before
      <3> QED
        BY <3>2, <3>3, <3>4
    <2>3. CASE writing' = written(m) /\ Len(writing) # 2
      <3>1. writing' = Append(writing, m)
        BY <2>3 DEF written
      <3>2. /\ writing' \in Seq(1 .. m) /\ Len(writing') = Len(writing) + 1
            /\ Above(writing', n) /\ Increasing(writing')
            /\ \A i \in DOMAIN writing' : (i \in DOMAIN writing /\ writing'[i] = writing[i]) \/ writing'[i] = m
        BY <1>1, <1>2, <1>3, <1>4, <1>5, <3>1, AppendOrder
      <3>3. Before(outbound, writing')
        BY <1>2, <1>5, <3>2 DEF Before
      <3>4. Len(writing') <= 2 /\ n + Len(writing') <= m
        <4>1. Len(writing) <= 1
          <5>1. \A k \in Nat : k <= 2 /\ k # 2 => k <= 1
            OBVIOUS
          <5> QED
            BY <1>1, <2>3, <5>1, Zenon
        <4>2. Len(writing') <= 2
          BY <1>1, <3>2, <4>1
        <4>3. n + Len(writing') <= m
          BY <1>1, <1>3, <3>2
        <4> QED
          BY <4>2, <4>3
      <3> QED
        BY <3>2, <3>3, <3>4
    <2> QED
      BY <1>6, <2>1, <2>2, <2>3
  <1>9. TypeOK'
    <2>1. refused' \in 0 .. m /\ typed' \in 0 .. MaxTyped
      BY <1>1, <1>6 DEF IInv, TypeOK, m
    <2> QED
      BY <1>4, <1>6, <1>7, <1>8, <2>1 DEF IInv, TypeOK
  <1>10. BufferIsContiguous'
    BY <1>6, <1>7 DEF BufferIsContiguous, Contiguous
  <1>11. WritesInOrder'
    BY <1>2, <1>6, <1>8 DEF WritesInOrder, Above, Increasing, Before
  <1> QED
    BY <1>9, <1>10, <1>11 DEF IInv

\* Every step of the client keeps the invariant of the writes.
LEMMA StepIInv ==
    ASSUME MaxTyped \in Nat, Empty \in Frame, inbound \in Seq(Frame), IInv, AnyStep, UNCHANGED inbound
    PROVE  IInv'
  <1>1. ASSUME TypeOK', UNCHANGED <<typed, writeBuffer, writing, outbound>> PROVE IInv'
    BY <1>1 DEF IInv, BufferIsContiguous, WritesInOrder, Contiguous, Above, Increasing, Before
  <1>2. ASSUME NEW resolved \in BOOLEAN, construct(resolved) PROVE IInv'
    BY <1>1, <1>2 DEF construct, IInv, TypeOK, implVars, opVars, histVars
  <1>3. ASSUME NEW errorCode \in BOOLEAN, afterConnect(errorCode) PROVE IInv'
    BY <1>1, <1>3 DEF afterConnect, IInv, TypeOK, implVars, histVars
  <1>4. ASSUME NEW errorCode \in BOOLEAN, afterHandshake(errorCode) PROVE IInv'
    BY <1>1, <1>4 DEF afterHandshake, IInv, TypeOK, implVars, histVars
  <1>5. ASSUME NEW errorCode \in BOOLEAN, afterRead(errorCode) PROVE IInv'
    <2>1. taken' \in 0 .. Len(inbound) /\ incomingMessage' \in Seq(Frame)
      <3>1. CASE errorCode
        BY <1>5, <3>1 DEF afterRead, IInv, TypeOK
      <3>2. CASE ~errorCode
        <4>1. /\ taken < Len(inbound) /\ taken' = taken + 1 /\ taken \in Nat /\ Len(inbound) \in Nat
              /\ incomingMessage' = collected(inbound[taken + 1])
              /\ incomingMessage \in Seq(Frame)
          BY <1>5, <3>2 DEF afterRead, IInv, TypeOK
        <4>2. inbound[taken + 1] \in Frame
          BY <4>1
        <4> QED
          BY <4>1, <4>2 DEF collected
      <3> QED
        BY <3>1, <3>2
    <2>2. isClosed' \in BOOLEAN /\ reading' \in BOOLEAN
      BY <1>5 DEF afterRead, disconnect, IInv, TypeOK
    <2>3. UNCHANGED <<writeBuffer, stage, writing, refused, pc, displayed, typed, outbound>>
      BY <1>5 DEF afterRead
    <2>4. TypeOK'
      BY <2>1, <2>2, <2>3 DEF IInv, TypeOK
    <2> QED
      BY <1>1, <2>3, <2>4
  <1>6. ASSUME NEW errorCode \in BOOLEAN, afterWrite(errorCode) PROVE IInv'
    BY <1>6, AfterWriteIInv
  <1>7. CASE afterRefusedWrite
    <2>1. refused' \in 0 .. typed /\ typed' = typed /\ isClosed' = TRUE
      BY <1>7, Types DEF afterRefusedWrite, disconnect, IInv, TypeOK, histVars
    <2>2. TypeOK'
      BY <1>7, <2>1 DEF afterRefusedWrite, IInv, TypeOK, histVars
    <2> QED
      BY <1>1, <1>7, <2>2 DEF afterRefusedWrite, histVars
  <1>8. CASE updateReturns
    <2>1. displayed' \in Seq(Frame) /\ incomingMessage' \in Seq(Frame)
      BY <1>8, ConcatProperties DEF updateReturns, receive, IInv, TypeOK
    <2>2. TypeOK'
      BY <1>8, <2>1 DEF updateReturns, IInv, TypeOK, opVars, histVars
    <2> QED
      BY <1>1, <1>8, <2>2 DEF updateReturns, opVars, histVars
  <1>9. CASE updateThrows
    BY <1>1, <1>9 DEF updateThrows, IInv, TypeOK, implVars, opVars, histVars
  <1>10. CASE nothingTyped
    BY <1>1, <1>10 DEF nothingTyped, continued, IInv, TypeOK, implVars, opVars, histVars
  <1>11. CASE exitTyped
    BY <1>1, <1>11 DEF exitTyped, IInv, TypeOK, implVars, opVars, histVars
  <1>12. CASE send
    BY <1>12, SendIInv
  <1> QED
    BY <1>2, <1>3, <1>4, <1>5, <1>6, <1>7, <1>8, <1>9, <1>10, <1>11, <1>12 DEF AnyStep, executeJoinLobby

\* What the client has written only grows.
LEMMA OutboundGrows ==
    ASSUME MaxTyped \in Nat, TypeOK, AnyStep
    PROVE  Len(outbound) \in Nat /\ Len(outbound') \in Nat /\ Len(outbound) <= Len(outbound')
  <1>1. outbound \in Seq(1 .. typed) /\ writing \in Seq(1 .. typed) /\ Len(outbound) \in Nat
    BY Types
  <1>2. CASE UNCHANGED outbound
    BY <1>1, <1>2
  <1>3. ASSUME NEW errorCode \in BOOLEAN, afterWrite(errorCode)
        PROVE  UNCHANGED outbound \/ Len(outbound') = Len(outbound) + 1
    <2>1. writing # <<>> /\ (UNCHANGED outbound \/ outbound' = Append(outbound, Head(writing)))
      BY <1>3 DEF afterWrite
    <2>2. Head(writing) \in 1 .. typed
      BY <1>1, <2>1, HeadTailProperties
    <2> QED
      BY <1>1, <2>1, <2>2, OneMore
  <1>4. CASE Len(outbound') = Len(outbound) + 1
    BY <1>1, <1>4
  <1> QED
    BY <1>2, <1>3, <1>4 DEF AnyStep, executeJoinLobby, construct, afterConnect, afterHandshake, afterRead,
       afterRefusedWrite, updateReturns, updateThrows, nothingTyped, exitTyped, send, histVars

\* Since the buffer holds all numbers from n + 1 on, it holds those of the pending
\* writes: pop_front has freed none of them.
LEMMA Pinned ==
    ASSUME MaxTyped \in Nat, IInv
    PROVE  PendingWritesPinned
  <1> DEFINE n == Len(outbound)
  <1>1. /\ typed \in Nat /\ writeBuffer \in Seq(1 .. typed) /\ writing \in Seq(1 .. typed) /\ n \in Nat
    BY Types DEF IInv
  <1>2. Above(writing, n) /\ Contiguous(writeBuffer, n, typed)
    BY DEF IInv, BufferIsContiguous, WritesInOrder
  <1> SUFFICES ASSUME NEW i \in DOMAIN writing
               PROVE  \E j \in DOMAIN writeBuffer : writeBuffer[j] = writing[i]
    BY DEF PendingWritesPinned
  <1>3. i \in Nat /\ 1 <= i /\ writing[i] \in Nat /\ writing[i] <= typed
    BY <1>1, Elements
  <1>4. n + i <= writing[i]
    BY <1>2 DEF Above
  <1>5. DOMAIN writeBuffer = 1 .. (typed - n)
    BY <1>1, <1>2, Elements DEF Contiguous
  <1>6. writing[i] - n \in DOMAIN writeBuffer
    BY <1>1, <1>3, <1>4, <1>5
  <1>7. writeBuffer[writing[i] - n] = writing[i]
    BY <1>1, <1>2, <1>3, <1>6 DEF Contiguous
  <1> QED
    BY <1>6, <1>7

-----------------------------------------------------------------------------
(***************************************************************************)
(* Reading.                                                                *)
(***************************************************************************)

\* The first k + 1 elements are the first k followed by the next one; and they do not
\* depend on what comes later.
LEMMA Beginnings ==
    ASSUME NEW S, NEW s \in Seq(S), NEW k \in 0 .. Len(s)
    PROVE  /\ SubSeq(s, 1, k) \in Seq(S)
           /\ k < Len(s) => SubSeq(s, 1, k + 1) = Append(SubSeq(s, 1, k), s[k + 1])
           /\ \A x \in S : SubSeq(Append(s, x), 1, k) = SubSeq(s, 1, k)
  <1>1. SubSeq(s, 1, k) \in Seq(S)
    OBVIOUS
  <1>2. ASSUME k < Len(s) PROVE SubSeq(s, 1, k + 1) = Append(SubSeq(s, 1, k), s[k + 1])
    BY <1>2
  <1>3. ASSUME NEW x \in S PROVE SubSeq(Append(s, x), 1, k) = SubSeq(s, 1, k)
    BY <1>3
  <1> QED
    BY <1>1, <1>2, <1>3

\* A text appended to the second of two sequences is appended to their concatenation.
LEMMA AppendConcat ==
    ASSUME NEW S, NEW s \in Seq(S), NEW t \in Seq(S), NEW x \in S
    PROVE  s \o Append(t, x) = Append(s \o t, x)
  OBVIOUS

\* Every step of the client keeps what is shown, and not yet shown, what was read, as
\* long as no frame is empty.
LEMMA StepShown ==
    ASSUME TypeOK, inbound \in Seq(Frame), \A i \in DOMAIN inbound : inbound[i] # Empty,
           ShownIsTaken, AnyStep, UNCHANGED inbound
    PROVE  ShownIsTaken'
  <1>1. displayed \in Seq(Frame) /\ incomingMessage \in Seq(Frame) /\ taken \in 0 .. Len(inbound)
    BY DEF TypeOK
  <1>2. CASE UNCHANGED <<displayed, incomingMessage, taken>>
    BY <1>2 DEF ShownIsTaken
  <1>3. ASSUME NEW errorCode \in BOOLEAN, afterRead(errorCode) PROVE ShownIsTaken'
    <2>1. CASE errorCode
      BY <1>2, <1>3, <2>1 DEF afterRead
    <2>2. CASE ~errorCode
      <3> DEFINE x == inbound[taken + 1]
      <3>1. /\ taken < Len(inbound) /\ taken' = taken + 1 /\ displayed' = displayed
            /\ incomingMessage' = collected(x)
        BY <1>3, <2>2 DEF afterRead
      <3>2. x \in Frame /\ x # Empty
        BY <1>1, <3>1
      <3>3. incomingMessage' = Append(incomingMessage, x)
        BY <3>1, <3>2 DEF collected
      <3>4. SubSeq(inbound, 1, taken + 1) = Append(SubSeq(inbound, 1, taken), x)
        BY <1>1, <3>1, Beginnings
      <3> HIDE DEF x
      <3>5. displayed \o Append(incomingMessage, x) = Append(displayed \o incomingMessage, x)
        BY <1>1, <3>2, AppendConcat
      <3> QED
        BY <3>1, <3>3, <3>4, <3>5, Zenon DEF ShownIsTaken
    <2> QED
      BY <2>1, <2>2
  <1>4. CASE updateReturns
    <2>1. /\ displayed' = displayed \o incomingMessage /\ incomingMessage' = <<>>
          /\ UNCHANGED taken
      BY <1>4 DEF updateReturns, receive, histVars
    <2>2. (displayed \o incomingMessage) \o <<>> = displayed \o incomingMessage
      BY <1>1, ConcatProperties, ConcatEmptySeq
    <2> QED
      BY <2>1, <2>2, Zenon DEF ShownIsTaken
  <1> QED
    BY <1>2, <1>3, <1>4 DEF AnyStep, executeJoinLobby, construct, afterConnect, afterHandshake, afterWrite,
       afterRefusedWrite, updateThrows, nothingTyped, exitTyped, send, implVars, histVars
=============================================================================

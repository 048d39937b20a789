------------------------- MODULE HttpSessionProofs -------------------------
(***************************************************************************)
(* Proofs about HttpSession for any set of sessions, any requests and any  *)
(* bound.  What concerns one request and its response is proved for        *)
(* servers that are asked only what they support: handleRequest does not   *)
(* return after a refusal, and for other requests it is false.             *)
(***************************************************************************)
EXTENDS HttpSession, SequenceTheorems, TLAPS
LOCAL INSTANCE SequencesExt

\* Peers ask for a websocket, or by GET or HEAD for the page (Server.cpp:222, 270-290).
Supported ==
    \A r \in Request : r.upgrade \/ (r.index /\ r.method \in {"get", "head"})

\* The one response that a supported request for the page gets.
answer(r) ==
    [status |-> IF r.method = "head" THEN "header" ELSE "page", keepAlive |-> r.keepAlive]

-----------------------------------------------------------------------------
(***************************************************************************)
(* For any requests.                                                       *)
(***************************************************************************)

\* A pending write that completes leaves the other ones in their order.
LEMMA RemoveAtSeq ==
    ASSUME NEW S, NEW s \in Seq(S), NEW i \in DOMAIN s
    PROVE  /\ RemoveAt(s, i) \in Seq(S)
           /\ Len(s) = 1 => RemoveAt(s, i) = <<>>
  <1>1. i \in 1 .. Len(s) /\ Len(s) \in Nat
    BY LenProperties
  <1>2. SubSeq(s, 1, i - 1) \in Seq(S) /\ SubSeq(s, i + 1, Len(s)) \in Seq(S)
    BY <1>1
  <1>3. RemoveAt(s, i) \in Seq(S)
    BY <1>2, ConcatProperties DEF RemoveAt
  <1>4. ASSUME Len(s) = 1 PROVE RemoveAt(s, i) = <<>>
    <2>1. SubSeq(s, 1, i - 1) = <<>> /\ SubSeq(s, i + 1, Len(s)) = <<>>
      BY <1>1, <1>4
    <2> QED
      BY <2>1 DEF RemoveAt
  <1> QED
    BY <1>3, <1>4

\* One response makes a sequence of responses.
LEMMA Singleton == ASSUME NEW S, NEW x \in S PROVE <<x>> \in Seq(S)
  OBVIOUS

\* handleRequest makes responses, and exactly one if the request is supported.
LEMMA HandleRequestResponses ==
    ASSUME NEW r \in Request
    PROVE  /\ handleRequest(r) \in Seq(Response)
           /\ r.index /\ r.method \in {"get", "head"} =>
                 handleRequest(r) = <<answer(r)>>
  <1>1. r.keepAlive \in BOOLEAN
    BY HttpAssumption
  <1> DEFINE response(status) == [status |-> status, keepAlive |-> r.keepAlive]
             a == IF r.method \notin {"get", "head"} THEN <<response("bad request")>> ELSE <<>>
             b == IF ~r.index THEN <<response("bad request")>> ELSE <<>>
             p == <<response(IF r.method = "head" THEN "header" ELSE "page")>>
  <1>2. handleRequest(r) = a \o b \o p
    BY DEF handleRequest
  <1>3. a \in Seq(Response) /\ b \in Seq(Response) /\ p \in Seq(Response)
    <2>1. \A status \in Status : response(status) \in Response
      BY <1>1 DEF Response
    <2>2. (IF r.method = "head" THEN "header" ELSE "page") \in Status /\ "bad request" \in Status
      BY DEF Status
    <2>3. \A status \in Status : <<response(status)>> \in Seq(Response)
      BY <2>1, Singleton
    <2>4. <<>> \in Seq(Response)
      OBVIOUS
    <2> QED
      BY <2>2, <2>3, <2>4, Zenon
  <1>4. ASSUME r.index, r.method \in {"get", "head"} PROVE a = <<>> /\ b = <<>>
    BY <1>4
  <1>5. p = <<answer(r)>>
    BY DEF answer
  <1> HIDE DEF a, b, p
  <1>6. a \o b \o p \in Seq(Response)
    BY <1>3, ConcatProperties
  <1>7. <<>> \o <<>> \o p = p
    BY <1>3, ConcatEmptySeq
  <1> QED
    BY <1>2, <1>4, <1>5, <1>6, <1>7

\* The variables start with their types.
LEMMA InitTypeOK == Init => TypeOK
  <1> SUFFICES ASSUME Init PROVE TypeOK
    OBVIOUS
  <1>1. /\ reading \in [Session -> Nat]
        /\ asked \in [Session -> 0 .. MaxRequests]
    BY HttpAssumption DEF Init
  <1>2. /\ request \in [Session -> Request \cup {NoRequest}]
        /\ responses \in [Session -> Seq(Response)]
        /\ answers \in [Session -> Seq(Status)]
    BY DEF Init
  <1>3. upgraded \in SUBSET Session /\ threw \in BOOLEAN
    BY DEF Init
  <1> QED
    BY <1>1, <1>2, <1>3 DEF Init, TypeOK

\* The variables keep their types in every step.
LEMMA StepTypeOK == TypeOK /\ [Next]_vars => TypeOK'
  <1> SUFFICES ASSUME TypeOK, [Next]_vars PROVE TypeOK'
    OBVIOUS
  <1>1. MaxRequests \in Nat
    BY HttpAssumption
  <1>2. reading \in [Session -> Nat]
    BY DEF TypeOK
  <1>3. asked \in [Session -> 0 .. MaxRequests] /\ request \in [Session -> Request \cup {NoRequest}]
    BY DEF TypeOK
  <1>4. responses \in [Session -> Seq(Response)] /\ answers \in [Session -> Seq(Status)]
    BY DEF TypeOK
  <1>5. ASSUME NEW s \in Session, NEW errorCode \in BOOLEAN, accept(s, errorCode) PROVE TypeOK'
    <2>1. reading' \in [Session -> Nat]
      BY <1>2, <1>5 DEF accept
    <2>2. listening' \subseteq made' /\ made' \in SUBSET Session
      BY <1>5 DEF accept, listenForConnections, TypeOK
    <2> QED
      BY <1>5, <2>1, <2>2 DEF accept, TypeOK
  <1>6. ASSUME NEW s \in Session, NEW errorCode \in BOOLEAN, NEW r \in Request, afterRead(s, errorCode, r)
        PROVE  TypeOK'
    <2>1. reading' \in [Session -> Nat]
      BY <1>2, <1>6 DEF afterRead
    <2>2. asked' \in [Session -> 0 .. MaxRequests]
      <3>1. asked' = asked \/ (asked[s] < MaxRequests /\ asked' = [asked EXCEPT ![s] = @ + 1])
        BY <1>6 DEF afterRead
      <3> QED
        BY <1>1, <1>3, <3>1
    <2>3. request' \in [Session -> Request \cup {NoRequest}]
      BY <1>3, <1>6 DEF afterRead
    <2>4. responses' \in [Session -> Seq(Response)]
      <3>1. responses[s] \o handleRequest(r) \in Seq(Response)
        BY <1>4, HandleRequestResponses, ConcatProperties
      <3> QED
        BY <1>4, <1>6, <3>1 DEF afterRead
    <2>5. answers' \in [Session -> Seq(Status)]
      <3>1. answers' = answers \/ answers' = [answers EXCEPT ![s] = <<>>]
        BY <1>6 DEF afterRead
      <3>2. <<>> \in Seq(Status)
        OBVIOUS
      <3> QED
        BY <1>4, <3>1, <3>2
    <2>6. upgraded' \in SUBSET Session
      BY <1>6 DEF afterRead, TypeOK
    <2> QED
      BY <1>6, <2>1, <2>2, <2>3, <2>4, <2>5, <2>6 DEF afterRead, TypeOK
  <1>7. ASSUME NEW s \in Session, NEW errorCode \in BOOLEAN, NEW i \in DOMAIN responses[s],
               afterWrite(s, i, errorCode)
        PROVE  TypeOK'
    <2>1. RemoveAt(responses[s], i) \in Seq(Response)
      BY <1>4, RemoveAtSeq
    <2>2. Append(answers[s], responses[s][i].status) \in Seq(Status)
      <3>1. responses[s][i] \in Response
        BY <1>4
      <3> QED
        BY <1>4, <3>1 DEF Response
    <2>3. responses' \in [Session -> Seq(Response)] /\ answers' \in [Session -> Seq(Status)]
      BY <1>4, <1>7, <2>1, <2>2 DEF afterWrite
    <2>4. reading' \in [Session -> Nat]
      BY <1>2, <1>7 DEF afterWrite
    <2>5. threw' \in BOOLEAN
      BY <1>7 DEF afterWrite, TypeOK
    <2> QED
      BY <1>7, <2>3, <2>4, <2>5 DEF afterWrite, TypeOK
  <1>8. CASE UNCHANGED vars
    BY <1>8 DEF vars, TypeOK
  <1> QED
    BY <1>5, <1>6, <1>7, <1>8 DEF Next

\* Every variable keeps its type, whatever is asked.
THEOREM TypeCorrect == Spec => []TypeOK
  BY InitTypeOK, StepTypeOK, PTL DEF Spec

\* The server never stops listening, whatever an accept comes to
\* (ServerImpl::listenForConnections, Server.cpp:329-342).
THEOREM ListensOn == Spec => []AlwaysListening
  <1>1. Init => AlwaysListening
    BY DEF Init, AlwaysListening
  <1>2. AlwaysListening /\ [Next]_vars => AlwaysListening'
    BY DEF AlwaysListening, Next, vars, accept, listenForConnections, afterRead, afterWrite
  <1> QED
    BY <1>1, <1>2, PTL DEF Spec

-----------------------------------------------------------------------------
(***************************************************************************)
(* For supported requests.                                                 *)
(***************************************************************************)

\* A session that is still being listened for, or not made yet, has done nothing.
FreshUntilAccepted ==
    \A s \in Session : s \in listening \/ s \notin made =>
        reading[s] = 0 /\ responses[s] = <<>> /\ s \notin upgraded /\ asked[s] = 0

\* The exchange of one request for one response: the answer is not there yet (or
\* is lost with its connection, or is an upgrade), or being written, or written.
OneExchange ==
    \A s \in Session :
        /\ asked[s] = 0 => responses[s] = <<>>
        /\ asked[s] > 0 =>
              /\ request[s] \in Request
              /\ \/ responses[s] = <<>> /\ answers[s] = <<>>
                 \/ ~request[s].upgrade /\ responses[s] = <<answer(request[s])>> /\ answers[s] = <<>>
                 \/ ~request[s].upgrade /\ responses[s] = <<>> /\ answers[s] = <<answer(request[s]).status>>

\* A session whose last request ends the connection does not read.
NoReadAfterClose ==
    \A s \in Session : asked[s] > 0 /\ ~request[s].keepAlive => reading[s] = 0

\* The inductive invariant.
IInv == TypeOK /\ OneOperation /\ FreshUntilAccepted /\ OneExchange /\ NoReadAfterClose

\* It holds initially.
LEMMA InitIInv == Init => IInv
  <1> SUFFICES ASSUME Init PROVE IInv
    OBVIOUS
  <1>1. TypeOK
    BY InitTypeOK
  <1>2. OneOperation
    <2>1. Len(<<>>) = 0
      OBVIOUS
    <2> QED
      BY <2>1 DEF Init, OneOperation
  <1>3. FreshUntilAccepted /\ OneExchange /\ NoReadAfterClose
    BY DEF Init, FreshUntilAccepted, OneExchange, NoReadAfterClose
  <1> QED
    BY <1>1, <1>2, <1>3 DEF IInv

\* A session with a read under way has nothing else under way, and one with a
\* response under way has just that one.
LEMMA Exclusive ==
    ASSUME IInv, NEW s \in Session
    PROVE  /\ reading[s] > 0 => reading[s] = 1 /\ responses[s] = <<>> /\ s \notin upgraded
           /\ responses[s] # <<>> => /\ reading[s] = 0 /\ s \notin upgraded /\ asked[s] > 0
                                     /\ ~request[s].upgrade /\ answers[s] = <<>>
                                     /\ responses[s] = <<answer(request[s])>>
  <1>1. /\ reading[s] \in Nat
        /\ responses[s] \in Seq(Response) /\ Len(responses[s]) \in Nat
        /\ asked[s] \in Nat
    BY HttpAssumption DEF IInv, TypeOK
  <1>2. reading[s] + Len(responses[s]) <= IF s \in upgraded THEN 0 ELSE 1
    BY DEF IInv, OneOperation
  <1>3. responses[s] = <<>> <=> Len(responses[s]) = 0
    BY <1>1
  <1>4. ASSUME responses[s] # <<>> 
        PROVE  /\ asked[s] > 0 /\ ~request[s].upgrade /\ answers[s] = <<>>
               /\ responses[s] = <<answer(request[s])>>
    BY <1>1, <1>4 DEF IInv, OneExchange
  <1> QED
    BY <1>1, <1>2, <1>3, <1>4

\* Every step preserves it.
LEMMA StepIInv == ASSUME Supported PROVE IInv /\ [Next]_vars => IInv'
  <1> SUFFICES ASSUME IInv, [Next]_vars PROVE IInv'
    OBVIOUS
  <1>1. TypeOK'
    BY StepTypeOK DEF IInv
  <1>2. /\ TypeOK
        /\ reading \in [Session -> Nat]
        /\ asked \in [Session -> Nat]
        /\ responses \in [Session -> Seq(Response)]
        /\ answers \in [Session -> Seq(Status)]
        /\ request \in [Session -> Request \cup {NoRequest}]
    BY HttpAssumption DEF IInv, TypeOK
  \* What every session but k keeps, it keeps; so only k needs to be looked at.
  <1>3. ASSUME NEW k \in Session,
               \A s \in Session \ {k} :
                  /\ reading'[s] = reading[s] /\ asked'[s] = asked[s] /\ request'[s] = request[s]
                  /\ responses'[s] = responses[s] /\ answers'[s] = answers[s]
                  /\ s \in upgraded' <=> s \in upgraded,
               UNCHANGED <<made, listening>>,
               k \in made \ listening,
               reading'[k] + Len(responses'[k]) <= IF k \in upgraded' THEN 0 ELSE 1,
               asked'[k] = 0 => responses'[k] = <<>>,
               asked'[k] > 0 => 
                  /\ request'[k] \in Request
                  /\ \/ responses'[k] = <<>> /\ answers'[k] = <<>>
                     \/ ~request'[k].upgrade /\ responses'[k] = <<answer(request'[k])>> /\ answers'[k] = <<>>
                     \/ ~request'[k].upgrade /\ responses'[k] = <<>> /\ answers'[k] = <<answer(request'[k]).status>>,
               asked'[k] > 0 /\ ~request'[k].keepAlive => reading'[k] = 0
        PROVE  IInv'
    <2>1. OneOperation'
      BY <1>3 DEF IInv, OneOperation
    <2>2. FreshUntilAccepted'
      BY <1>3 DEF IInv, FreshUntilAccepted
    <2>3. OneExchange'
      BY <1>3 DEF IInv, OneExchange
    <2>4. NoReadAfterClose'
      BY <1>3 DEF IInv, NoReadAfterClose
    <2> QED
      BY <1>1, <2>1, <2>2, <2>3, <2>4 DEF IInv
  <1>4. ASSUME NEW s \in Session, NEW errorCode \in BOOLEAN, accept(s, errorCode) PROVE IInv'
    <2>1. reading[s] = 0 /\ responses[s] = <<>> /\ s \notin upgraded /\ asked[s] = 0
      BY <1>4 DEF accept, IInv, FreshUntilAccepted
    <2>2. /\ \A k \in Session \ {s} : reading'[k] = reading[k]
          /\ reading'[s] \in {0, 1}
      BY <1>2, <1>4, <2>1 DEF accept
    <2>3. UNCHANGED <<request, responses, upgraded, asked, answers>>
      BY <1>4 DEF accept
    <2>4. OneOperation'
      <3>1. Len(responses[s]) = 0
        BY <2>1
      <3> QED
        BY <2>1, <2>2, <2>3, <3>1 DEF IInv, OneOperation
    <2>5. FreshUntilAccepted'
      <3>1. s \in made' \ listening'
        BY <1>4 DEF accept, listenForConnections, IInv, TypeOK
      <3>2. \A k \in Session : k \in listening' \/ k \notin made' => k \in listening \/ k \notin made
        BY <1>4 DEF accept, listenForConnections
      <3> QED
        BY <2>2, <2>3, <3>1, <3>2 DEF IInv, FreshUntilAccepted
    <2>6. OneExchange' /\ NoReadAfterClose'
      BY <2>1, <2>2, <2>3 DEF IInv, OneExchange, NoReadAfterClose
    <2> QED
      BY <1>1, <2>4, <2>5, <2>6 DEF IInv
  <1>5. ASSUME NEW s \in Session, NEW errorCode \in BOOLEAN, NEW r \in Request, afterRead(s, errorCode, r)
        PROVE  IInv'
    <2>1. reading[s] = 1 /\ responses[s] = <<>> /\ s \notin upgraded
      BY <1>5, Exclusive DEF afterRead
    <2>2. s \in made \ listening
      BY <2>1 DEF IInv, FreshUntilAccepted
    <2>3. UNCHANGED <<made, listening>> /\ reading' = [reading EXCEPT ![s] = 0]
      BY <1>2, <1>5, <2>1 DEF afterRead
    <2>4. CASE errorCode
      <3>1. UNCHANGED <<request, responses, upgraded, asked, answers>>
        BY <1>5, <2>4 DEF afterRead
      <3>2. reading'[s] = 0 /\ Len(responses'[s]) = 0
        BY <1>2, <2>1, <2>3, <3>1
      <3>3. \A k \in Session \ {s} : reading'[k] = reading[k]
        BY <1>2, <2>3
      <3> QED
        BY <1>3, <2>1, <2>2, <2>3, <3>1, <3>2, <3>3 DEF IInv, OneExchange
    <2>5. CASE ~errorCode
      <3>1. /\ asked' = [asked EXCEPT ![s] = @ + 1]
            /\ request' = [request EXCEPT ![s] = r]
            /\ answers' = [answers EXCEPT ![s] = <<>>]
        BY <1>5, <2>5 DEF afterRead
      <3>2. CASE r.upgrade
        <4>1. upgraded' = upgraded \cup {s} /\ UNCHANGED responses
          BY <1>5, <2>5, <3>2 DEF afterRead
        <4>2. /\ reading'[s] = 0 /\ responses'[s] = <<>> /\ Len(responses'[s]) = 0
              /\ asked'[s] > 0 /\ request'[s] = r /\ answers'[s] = <<>>
          BY <1>2, <2>1, <2>3, <3>1, <4>1
        <4>3. \A k \in Session \ {s} :
                 /\ reading'[k] = reading[k] /\ asked'[k] = asked[k] /\ request'[k] = request[k]
                 /\ responses'[k] = responses[k] /\ answers'[k] = answers[k]
                 /\ k \in upgraded' <=> k \in upgraded
          BY <1>2, <2>3, <3>1, <4>1
        <4> QED
          BY <1>3, <2>2, <2>3, <4>2, <4>3
      <3>3. CASE ~r.upgrade
        <4>1. handleRequest(r) = <<answer(r)>> /\ <<>> \o <<answer(r)>> = <<answer(r)>>
          BY <3>3, HandleRequestResponses DEF Supported
        <4>2. responses' = [responses EXCEPT ![s] = <<answer(r)>>] /\ UNCHANGED upgraded
          BY <1>5, <2>1, <2>5, <3>3, <4>1 DEF afterRead
        <4>3. /\ reading'[s] = 0 /\ responses'[s] = <<answer(r)>> /\ Len(responses'[s]) = 1
              /\ asked'[s] > 0 /\ request'[s] = r /\ answers'[s] = <<>> /\ s \notin upgraded'
          BY <1>2, <2>1, <2>3, <3>1, <4>2
        <4>4. \A k \in Session \ {s} :
                 /\ reading'[k] = reading[k] /\ asked'[k] = asked[k] /\ request'[k] = request[k]
                 /\ responses'[k] = responses[k] /\ answers'[k] = answers[k]
                 /\ k \in upgraded' <=> k \in upgraded
          BY <1>2, <2>3, <3>1, <4>2
        <4>5. reading'[s] + Len(responses'[s]) <= IF s \in upgraded' THEN 0 ELSE 1
          BY <4>3
        <4>6. asked'[s] # 0 /\ request'[s] \in Request /\ ~request'[s].upgrade
          BY <3>3, <4>3
        <4> QED
          BY <1>3, <2>2, <2>3, <4>3, <4>4, <4>5, <4>6
      <3> QED
        BY <3>2, <3>3
    <2> QED
      BY <2>4, <2>5
  <1>6. ASSUME NEW s \in Session, NEW errorCode \in BOOLEAN, NEW i \in DOMAIN responses[s],
               afterWrite(s, i, errorCode)
        PROVE  IInv'
    <2>1. responses[s] # <<>>
      BY <1>2
    <2>2. /\ reading[s] = 0 /\ s \notin upgraded /\ asked[s] > 0
          /\ ~request[s].upgrade /\ answers[s] = <<>>
          /\ responses[s] = <<answer(request[s])>>
      BY <2>1, Exclusive
    <2>3. s \in made \ listening
      BY <2>1 DEF IInv, FreshUntilAccepted
    <2>4. responses[s][i] = answer(request[s]) /\ RemoveAt(responses[s], i) = <<>>
      <3>1. Len(responses[s]) = 1 /\ responses[s] \in Seq(Response)
        BY <1>2, <2>2
      <3>2. RemoveAt(responses[s], i) = <<>>
        BY <3>1, RemoveAtSeq
      <3>3. i = 1
        BY <3>1
      <3> QED
        BY <2>2, <3>2, <3>3
    <2>5. responses' = [responses EXCEPT ![s] = <<>>] /\ UNCHANGED <<made, listening, request, upgraded, asked>>
      BY <1>6, <2>4 DEF afterWrite
    <2>6. request[s] \in Request
      BY <2>2 DEF IInv, OneExchange
    <2>7. CASE errorCode
      <3>1. UNCHANGED <<reading, answers>>
        BY <1>6, <2>7 DEF afterWrite
      <3> QED
        BY <1>2, <1>3, <2>2, <2>3, <2>5, <2>6, <3>1
    <2>8. CASE ~errorCode
      <3>1. /\ answers' = [answers EXCEPT ![s] = <<answer(request[s]).status>>]
            /\ reading' = IF request[s].keepAlive THEN [reading EXCEPT ![s] = 1] ELSE reading
        BY <1>2, <1>6, <2>2, <2>4, <2>8 DEF afterWrite, answer
      <3>2. /\ reading'[s] = (IF request[s].keepAlive THEN 1 ELSE 0)
            /\ responses'[s] = <<>> /\ Len(responses'[s]) = 0
            /\ asked'[s] > 0 /\ request'[s] = request[s] /\ answers'[s] = <<answer(request[s]).status>>
            /\ s \notin upgraded'
        BY <1>2, <2>2, <2>5, <3>1
      <3>3. \A k \in Session \ {s} :
               /\ reading'[k] = reading[k] /\ asked'[k] = asked[k] /\ request'[k] = request[k]
               /\ responses'[k] = responses[k] /\ answers'[k] = answers[k]
               /\ k \in upgraded' <=> k \in upgraded
        BY <1>2, <2>5, <3>1
      <3> QED
        BY <1>3, <2>2, <2>3, <2>5, <2>6, <3>2, <3>3
    <2> QED
      BY <2>7, <2>8
  <1>7. CASE UNCHANGED vars
    BY <1>1, <1>7 DEF vars, IInv, OneOperation, FreshUntilAccepted, OneExchange, NoReadAfterClose
  <1> QED
    BY <1>4, <1>5, <1>6, <1>7 DEF Next

\* The inductive invariant holds of every state a supported request leads to.
THEOREM Invariance == Supported => (Spec => []IInv)
  <1> SUFFICES ASSUME Supported PROVE Spec => []IInv
    OBVIOUS
  <1>1. IInv /\ [Next]_vars => IInv'
    BY StepIInv
  <1> QED
    BY <1>1, InitIInv, PTL DEF Spec

\* A session never has two operations under way on its socket, its buffer and its
\* request object (HTTPSession::start and handleRequest, Server.cpp:210-320).
THEOREM OneOperationAtATime == Supported => (Spec => []OneOperation)
  <1>1. IInv => OneOperation
    BY DEF IInv
  <1> QED
    BY <1>1, Invariance, PTL

\* A request is answered once, by what it asked for (HTTPSession::handleRequest,
\* Server.cpp:233-320).
THEOREM EachAnsweredOnce == Supported => (Spec => []AnsweredOnce)
  <1>1. IInv => AnsweredOnce
    <2> SUFFICES ASSUME IInv, NEW s \in Session, asked[s] > 0
                 PROVE  LET r == request[s]
                            all == answers[s] \o [i \in DOMAIN responses[s] |-> responses[s][i].status]
                        IN  IF r.upgrade THEN all = <<>>
                            ELSE Len(all) <= 1 /\ ToSet(all) \subseteq {IF r.method = "head" THEN "header" ELSE "page"}
      BY DEF AnsweredOnce
    <2> DEFINE r == request[s]
               pending == [i \in DOMAIN responses[s] |-> responses[s][i].status]
               x == IF r.method = "head" THEN "header" ELSE "page"
    <2>1. answer(r).status = x
      BY DEF answer
    <2>2. \/ responses[s] = <<>> /\ answers[s] = <<>>
          \/ ~r.upgrade /\ responses[s] = <<answer(r)>> /\ answers[s] = <<>>
          \/ ~r.upgrade /\ responses[s] = <<>> /\ answers[s] = <<x>>
      BY <2>1 DEF IInv, OneExchange
    <2>3. responses[s] = <<>> => pending = <<>>
      OBVIOUS
    <2>4. responses[s] = <<answer(r)>> => pending = <<x>>
      BY <2>1
    <2>5. \/ answers[s] \o pending = <<>>
          \/ ~r.upgrade /\ answers[s] \o pending = <<x>>
      <3> HIDE DEF r, pending, x
      <3>1. <<>> \o <<>> = <<>> /\ <<x>> \o <<>> = <<x>> /\ <<>> \o <<x>> = <<x>>
        OBVIOUS
      <3> QED
        BY <2>2, <2>3, <2>4, <3>1
    <2> HIDE DEF pending, x
    <2>6. /\ Len(<<>>) = 0 /\ ToSet(<<>>) = {}
          /\ Len(<<x>>) = 1 /\ ToSet(<<x>>) = {x}
      BY DEF ToSet
    <2> DEFINE all == answers[s] \o pending
    <2>7. r.upgrade => all = <<>>
      BY <2>5, Zenon
    <2>8. Len(all) <= 1 /\ ToSet(all) \subseteq {x}
      <3>1. all = <<>> \/ all = <<x>>
        BY <2>5
      <3> HIDE DEF all
      <3>2. Len(all) = 0 \/ Len(all) = 1
        BY <2>6, <3>1, Zenon
      <3>3. ToSet(all) = {} \/ ToSet(all) = {x}
        BY <2>6, <3>1, Zenon
      <3>4. \A n : n = 0 \/ n = 1 => n <= 1
        OBVIOUS
      <3> QED
        BY <3>2, <3>3, <3>4, Zenon
    <2> QED
      BY <2>7, <2>8, Zenon DEF pending, x
  <1> QED
    BY <1>1, Invariance, PTL

\* After a request that ends the connection a session never reads another one
\* (the branch for need_eof, Server.cpp:245-251).
THEOREM CloseHonoured == Supported => (Spec => CloseIsHonoured)
  <1>1. IInv /\ [Next]_vars =>
           [\A s \in Session : (asked[s] > 0 /\ asked'[s] > asked[s]) => request[s].keepAlive]_vars
    <2> SUFFICES ASSUME IInv, Next, NEW s \in Session, asked[s] > 0, asked'[s] > asked[s]
                 PROVE  request[s].keepAlive
      OBVIOUS
    <2>1. asked \in [Session -> Nat]
      BY HttpAssumption DEF IInv, TypeOK
    <2>2. asked' # asked
      BY <2>1
    <2>3. PICK k \in Session, errorCode \in BOOLEAN, r \in Request : afterRead(k, errorCode, r)
      BY <2>2 DEF Next, accept, afterWrite
    <2>4. asked' = [asked EXCEPT ![k] = @ + 1]
      BY <2>2, <2>3 DEF afterRead
    <2>5. k = s
      BY <2>1, <2>4
    <2>6. reading[s] # 0
      BY <2>3, <2>5 DEF afterRead, IInv, TypeOK
    <2> QED
      BY <2>6 DEF IInv, NoReadAfterClose
  <1> QED
    BY <1>1, Invariance, PTL DEF Spec, CloseIsHonoured
=============================================================================

---------------------------- MODULE HttpSession ----------------------------
(***************************************************************************)
(* The HTTP side of lib/networking/src/Server.cpp: the accepting loop      *)
(* (ServerImpl::listenForConnections) and the HTTPSession objects, up to   *)
(* the point where a session becomes a websocket Channel (NetworkServer).  *)
(*                                                                         *)
(* A request is a record of what the handler looks at:                     *)
(*    upgrade    it asks for a websocket                                   *)
(*    method     "get", "head" or "other"                                  *)
(*    index      its target is "/" or ends in "/index.html"                *)
(*    keepAlive  the connection is to stay open after the response         *)
(***************************************************************************)
EXTENDS Naturals, Sequences
LOCAL INSTANCE SequencesExt

CONSTANTS
    Session,        \* HTTPSession objects
    Request,        \* the requests peers make
    NoRequest,      \* what a session holds before its first one
    MaxRequests     \* bound: requests per session

ASSUME HttpAssumption ==
    /\ \A r \in Request : /\ r.method \in {"get", "head", "other"}
                          /\ {r.upgrade, r.index, r.keepAlive} \subseteq BOOLEAN
    /\ NoRequest \notin Request
    /\ Session # {} /\ MaxRequests \in Nat

Status == {"bad request", "page", "header"}
Response == [status : Status, keepAlive : BOOLEAN]

VARIABLES
    made,           \* the sessions made so far
    listening,      \* the sessions the acceptor waits on (at most one)
    reading,        \* per session, its pending http::async_read's
    request,        \* HTTPSession::request
    responses,      \* per session, its pending http::async_write's
    upgraded,       \* the sessions whose socket has moved to a Channel
    threw,          \* an exception has left Server::update
    \* History variables:
    asked,          \* per session, how many requests it has read
    answers         \* per session, what its latest request was answered with

vars == <<made, listening, reading, request, responses, upgraded, threw, asked, answers>>

Init ==
    /\ \E s \in Session : made = {s} /\ listening = {s}
    /\ reading = [s \in Session |-> 0]
    /\ request = [s \in Session |-> NoRequest]
    /\ responses = [s \in Session |-> <<>>]
    /\ upgraded = {}
    /\ threw = FALSE
    /\ asked = [s \in Session |-> 0]
    /\ answers = [s \in Session |-> <<>>]

-----------------------------------------------------------------------------
(***************************************************************************)
(* An operator named f_Something is f with a plausible slip in it; it is   *)
(* not part of the specification and serves to show which property would   *)
(* notice the slip.                                                        *)
(***************************************************************************)

\* The handler of acceptor.async_accept: the session starts to read, unless
\* there was an error, and a new session is listened for in any case.  (The
\* model has finitely many sessions; out of them, it stops accepting.)
listenForConnections ==
    \/ \E new \in Session \ made : made' = made \cup {new} /\ listening' = {new}
    \/ made = Session /\ listening' = {} /\ UNCHANGED made

accept_StopsOnError(s, errorCode) ==
    /\ ~threw
    /\ s \in listening
    /\ IF errorCode
       THEN listening' = {} /\ UNCHANGED <<made, reading>>
       ELSE listenForConnections /\ reading' = [reading EXCEPT ![s] = @ + 1]
    /\ UNCHANGED <<request, responses, upgraded, threw, asked, answers>>

accept(s, errorCode) ==
    /\ ~threw
    /\ s \in listening
    /\ reading' = IF errorCode THEN reading ELSE [reading EXCEPT ![s] = @ + 1]
    /\ listenForConnections
    /\ UNCHANGED <<request, responses, upgraded, threw, asked, answers>>

\* HTTPSession::handleRequest: the responses it sends, one async_write each.
\* Neither refusal returns, so the page is sent in any case.
handleRequest_KeepAliveUnset(r) ==
    <<[status |-> IF r.method = "head" THEN "header" ELSE "page"]>>

handleRequest_RefusesHead(r) ==
    LET response(status) == [status |-> status, keepAlive |-> r.keepAlive]
    IN  (IF r.method # "get" THEN <<response("bad request")>> ELSE <<>>)
        \o (IF ~r.index THEN <<response("bad request")>> ELSE <<>>)
        \o <<response(IF r.method = "head" THEN "header" ELSE "page")>>

handleRequest(r) ==
    LET response(status) == [status |-> status, keepAlive |-> r.keepAlive]
    IN  (IF r.method \notin {"get", "head"} THEN <<response("bad request")>> ELSE <<>>)
        \o (IF ~r.index THEN <<response("bad request")>> ELSE <<>>)
        \o <<response(IF r.method = "head" THEN "header" ELSE "page")>>

\* The handler of http::async_read, in HTTPSession::start.
afterRead(s, errorCode, r) ==
    /\ ~threw
    /\ reading[s] > 0
    /\ reading' = [reading EXCEPT ![s] = @ - 1]
    /\ IF errorCode
       THEN UNCHANGED <<request, responses, upgraded, asked, answers>>
       ELSE /\ asked[s] < MaxRequests
            /\ asked' = [asked EXCEPT ![s] = @ + 1]
            /\ request' = [request EXCEPT ![s] = r]
            /\ answers' = [answers EXCEPT ![s] = <<>>]
            /\ IF r.upgrade
               THEN upgraded' = upgraded \cup {s} /\ UNCHANGED responses
               ELSE /\ responses' = [responses EXCEPT ![s] = @ \o handleRequest(r)]
                    /\ UNCHANGED upgraded
    /\ UNCHANGED <<made, listening, threw>>

\* The handler of http::async_write, in HTTPSession::handleRequest: after an
\* error, the shutdown of the socket throws if the peer is already gone; after a
\* response that ends the connection it does not; otherwise the session reads on.
afterWrite_AlwaysReads(s, i, errorCode) ==
    /\ ~threw
    /\ i \in DOMAIN responses[s]
    /\ responses' = [responses EXCEPT ![s] = RemoveAt(@, i)]
    /\ answers' = [answers EXCEPT ![s] = Append(@, responses[s][i].status)]
    /\ reading' = [reading EXCEPT ![s] = @ + 1]
    /\ UNCHANGED <<made, listening, request, upgraded, asked, threw>>

afterWrite(s, i, errorCode) ==
    /\ ~threw
    /\ i \in DOMAIN responses[s]
    /\ responses' = [responses EXCEPT ![s] = RemoveAt(@, i)]
    /\ IF errorCode
       THEN threw' \in BOOLEAN /\ UNCHANGED <<reading, answers>>
       ELSE /\ answers' = [answers EXCEPT ![s] = Append(@, responses[s][i].status)]
            /\ reading' = IF responses[s][i].keepAlive THEN [reading EXCEPT ![s] = @ + 1] ELSE reading
            /\ UNCHANGED threw
    /\ UNCHANGED <<made, listening, request, upgraded, asked>>

-----------------------------------------------------------------------------
Next ==
    \/ \E s \in Session, errorCode \in BOOLEAN : accept(s, errorCode)
    \/ \E s \in Session, errorCode \in BOOLEAN, r \in Request : afterRead(s, errorCode, r)
    \/ \E s \in Session, errorCode \in BOOLEAN : \E i \in DOMAIN responses[s] : afterWrite(s, i, errorCode)

Spec == Init /\ [][Next]_vars

-----------------------------------------------------------------------------
\* The types of the variables; a session reads, and answers, at most as often
\* as MaxRequests allows.
TypeOK ==
    /\ listening \subseteq made /\ made \in SUBSET Session
    /\ reading \in [Session -> Nat]
    /\ request \in [Session -> Request \cup {NoRequest}]
    /\ responses \in [Session -> Seq(Response)]
    /\ upgraded \in SUBSET Session
    /\ threw \in BOOLEAN
    /\ asked \in [Session -> 0 .. MaxRequests]
    /\ answers \in [Session -> Seq(Status)]

\* A session never has two operations pending on its one socket, buffer and
\* request object: it reads the next request only after the response to the
\* last one has been written, and none once its socket has moved to a Channel
\* (HTTPSession::start and handleRequest, for the requests it supports).
OneOperation ==
    \A s \in Session : reading[s] + Len(responses[s]) <= IF s \in upgraded THEN 0 ELSE 1

\* The server goes on listening, whatever an accept comes to
\* (ServerImpl::listenForConnections): it stops only when the instance is out of
\* sessions.
AlwaysListening ==
    listening = {} => made = Session

\* After a request that ends the connection a session never reads another one
\* (the branch for need_eof in handleRequest).
CloseIsHonoured ==
    [][\A s \in Session :
          (asked[s] > 0 /\ asked'[s] > asked[s]) => request[s].keepAlive]_vars

\* A request is answered once, a HEAD with a header and a GET with the page, and
\* one that upgrades the connection not at all.
AnsweredOnce ==
    \A s \in Session : asked[s] > 0 =>
        LET r == request[s]
            all == answers[s] \o [i \in DOMAIN responses[s] |-> responses[s][i].status]
        IN  IF r.upgrade THEN all = <<>>
            ELSE Len(all) <= 1 /\ ToSet(all) \subseteq {IF r.method = "head" THEN "header" ELSE "page"}

\* Server.cpp:278: "We only support index.html and /."  So the page is sent only
\* in response to a request for one of them.
PageOnlyForIndex ==
    \A s \in Session : \A i \in DOMAIN responses[s] :
        responses[s][i].status \in {"page", "header"} => request[s].index
=============================================================================

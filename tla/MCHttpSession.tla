--------------------------- MODULE MCHttpSession ---------------------------
(***************************************************************************)
(* Instances of HttpSession for TLC.                                       *)
(***************************************************************************)
EXTENDS HttpSession, TLC

CONSTANTS s1, s2, none

TwoSessions == {s1, s2}
OneSession == {s1}

page(method, index, keepAlive) ==
    [upgrade |-> FALSE, method |-> method, index |-> index, keepAlive |-> keepAlive]

\* What the page of the server and its clients ask for.
SupportedRequests ==
    { page(method, TRUE, keepAlive) : method \in {"get", "head"}, keepAlive \in BOOLEAN }
    \cup { [page("get", TRUE, TRUE) EXCEPT !.upgrade = TRUE] }

\* Together with requests for something else.
AnyTarget == SupportedRequests \cup { page("get", FALSE, TRUE) }
=============================================================================

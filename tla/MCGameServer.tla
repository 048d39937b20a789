---------------------------- MODULE MCGameServer ----------------------------
(***************************************************************************)
(* Instances of GameServer for TLC.                                        *)
(***************************************************************************)
EXTENDS GameServer, TLC

CONSTANTS c1, c2

OneConnection == {c1}
TwoConnections == {c1, c2}
NoConnection == {}
SecondConnection == {c2}

text(kind, arg) == [kind |-> kind, arg |-> arg]

\* One text per branch of processMessages; "/nickname" without a name makes
\* the text itself the name, and with a blank after it, nothing.
AllTexts ==
    { text("quit", <<>>), text("shutdown", <<>>), text("empty", <<>>),
      text("nickname", <<"bob">>), text("nickname", <<"/nickname">>),
      text("execute", <<>>), text("unknown", <<>>), text("chat", <<"hi">>) }

LoopTexts ==
    { text("quit", <<>>), text("shutdown", <<>>), text("execute", <<>>), text("chat", <<"hi">>) }

StopTexts == { text("quit", <<>>), text("shutdown", <<>>) }

Symmetry == Permutations(TwoConnections)
=============================================================================

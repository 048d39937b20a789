-------------------------- MODULE MCNetworkServer --------------------------
(***************************************************************************)
(* The instance of NetworkServer for TLC.                                  *)
(***************************************************************************)
EXTENDS NetworkServer

CONSTANTS c1, c2, t1, t2, empty

MCConnection == {c1, c2}
MCInText == {"hello"}
MCOutText == {t1, t2, empty}
MCStalled == {c2}
=============================================================================

--------------------------- MODULE MCClientServer ---------------------------
(***************************************************************************)
(* The instance of ClientServer for TLC.                                   *)
(***************************************************************************)
EXTENDS ClientServer

CONSTANTS c1, t1, t2, empty

MCOutText == {t1, t2, empty}
=============================================================================

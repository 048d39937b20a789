---------------------------- MODULE ServerConfig ----------------------------
(***************************************************************************)
(* The configuration of a lobby: class ServerConfig (src/ServerConfig),    *)
(* its part of JsonParser, and the invite code, which the host's program   *)
(* makes of the port and the player's program (src/main.cpp) makes the     *)
(* port of again.                                                          *)
(*                                                                         *)
(* A configuration file is a record: whether it opens, whether it is JSON, *)
(* the types of its root elements by name, and the port.  The methods of   *)
(* the class are operators on a record of its members port and valid.      *)
(* A string of decimal digits is the sequence of the digits.               *)
(***************************************************************************)
EXTENDS Naturals, Sequences
LOCAL INSTANCE SequencesExt

\* The values of an unsigned short.
Port == 0 .. 65535

\* A member that no constructor sets.
Uninitialized == "uninitialized"

SC_ROOT_ELEMS == [port |-> "number_unsigned", serverhtml |-> "string"]

parseJsonFile_serverConfig(file) == file.readable /\ file.root = SC_ROOT_ELEMS

\* The port is narrowed to an unsigned short.
configure(file) == [port |-> file.port % 65536, valid |-> TRUE]

\* The constructor.
constructed(file) ==
    IF file.opens /\ parseJsonFile_serverConfig(file)
    THEN configure(file)
    ELSE [port |-> Uninitialized, valid |-> FALSE]

gameFilepaths == {"Test"}

\* parseGamefile, but for the parsing (see GameSpecParser).
parseGamefile_Unnoticed(config, gameName) == config
parseGamefile(config, gameName) ==
    IF gameName \in gameFilepaths THEN config ELSE [config EXCEPT !.valid = FALSE]

-----------------------------------------------------------------------------
\* std::to_string of an unsigned short, and the number that a string of at most
\* five digits stands for.
Power == <<1, 10, 100, 1000, 10000>>
digits(n) == IF n < 10 THEN 1 ELSE IF n < 100 THEN 2 ELSE IF n < 1000 THEN 3 ELSE IF n < 10000 THEN 4 ELSE 5
to_string(n) == [i \in 1 .. digits(n) |-> (n \div Power[digits(n) - i + 1]) % 10]
number(s) ==
    LET digit(k) == IF k <= Len(s) THEN Power[k] * s[Len(s) - k + 1] ELSE 0
    IN  digit(1) + digit(2) + digit(3) + digit(4) + digit(5)

\* Written as a number, a code that begins with zeros loses them.
generateInviteCode_AsNumber(port) == to_string(number(Reverse(to_string(port))))
generateInviteCode(port) == Reverse(to_string(port))

parseInviteCode(inviteCode) == Reverse(inviteCode)
=============================================================================

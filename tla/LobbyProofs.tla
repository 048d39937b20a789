---------------------------- MODULE LobbyProofs ----------------------------
(***************************************************************************)
(* Proofs about Lobby, for any files, any port and any port the system     *)
(* assigns.                                                                *)
(***************************************************************************)
EXTENDS Lobby, GameSpecParserProofs
LOCAL INSTANCE SequencesExt

-----------------------------------------------------------------------------
(***************************************************************************)
(* The loading of the game is the parser's.                                *)
(***************************************************************************)

\* The lobby starts where the parser does.
LEMMA StartsAsParser == LobbyInit => Init
  <1> SUFFICES ASSUME LobbyInit PROVE Init
    OBVIOUS
  <1>1. PICK host \in Hosts : jsonObject = host.gameFile
    BY Zenon DEF LobbyInit
  <1>2. jsonObject \in GameSpecs
    BY <1>1, HostsAssumption
  <1> QED
    BY <1>2, Zenon DEF LobbyInit, Init

\* No other step of the lobby touches what the parser works on.
LEMMA StepsAsParser == [LobbyNext]_lobbyVars => [Next]_vars
  <1> SUFFICES ASSUME [LobbyNext]_lobbyVars PROVE [Next]_vars
    OBVIOUS
  <1>1. CASE loadGame
    BY <1>1, Zenon DEF loadGame, Next
  <1>2. CASE UNCHANGED parserVars
    BY <1>2, Zenon DEF parserVars, vars, maps
  <1>3. ASSUME NEW command, main(command) PROVE UNCHANGED parserVars
    BY <1>3, Zenon DEF main
  <1>4. CASE setupConfig
    BY <1>4, <1>2, Zenon DEF setupConfig
  <1>5. CASE gameLoaded
    BY <1>5, <1>2, Zenon DEF gameLoaded
  <1>6. CASE isValid
    BY <1>6, <1>2, Zenon DEF isValid
  <1>7. ASSUME NEW bound, run(bound) PROVE UNCHANGED parserVars
    BY <1>7, Zenon DEF run
  <1>8. ASSUME NEW players, execute(players) PROVE UNCHANGED parserVars
    BY <1>8, Zenon DEF execute
  <1>9. CASE executeRule
    BY <1>9, <1>2, Zenon DEF executeRule
  <1>10. CASE executed
    BY <1>10, <1>2, Zenon DEF executed
  <1>11. CASE UNCHANGED lobbyVars
    BY <1>11, <1>2, Zenon DEF lobbyVars
  <1> QED
    BY <1>1, <1>2, <1>3, <1>4, <1>5, <1>6, <1>7, <1>8, <1>9, <1>10, <1>11, Zenon DEF LobbyNext

\* Whatever the host's program does before, after and instead of loading a game,
\* what it loads is what the parser on its own makes of the file: the composition
\* implements the parser's specification (ServerConfig::parseGamefile).
THEOREM LoadsAsParser == LobbySpec => Spec
  BY StartsAsParser, StepsAsParser, PTL DEF LobbySpec, Spec

\* So a host with a well-formed game file gets the game its text describes.
THEOREM HostsTheGameDescribed == LobbySpec => []ParsesFaithfully
  BY LoadsAsParser, WellFormedAreParsed, PTL

-----------------------------------------------------------------------------
(***************************************************************************)
(* The port.                                                               *)
(***************************************************************************)

UnsignedPort == configFile.root = SC_ROOT_ELEMS => configFile.port \in Nat

\* A valid configuration is that of a usable file and an existing game.
Configured ==
    /\ configFile.opens /\ configFile.readable /\ configFile.root = SC_ROOT_ELEMS
    /\ gameName \in gameFilepaths
    /\ config.port = configFile.port % 65536

\* setupConfig has come to its end, and the server was, or will be, started with
\* its results.
Hosting ==
    /\ config.valid
    /\ port = config.port
    /\ inviteCode = generateInviteCode(config.port)
    /\ listening # 0 => listening = IF port = 0 THEN Ephemeral ELSE port

\* The inductive invariant.
HostInv ==
    /\ UnsignedPort
    /\ config.valid => Configured
    /\ phase \in {"main", "setupConfig", "parseGamefile", "isValid"} => listening = 0
    /\ phase \in {"run", "execute"} \/ listening # 0 => Hosting

\* It holds at the start of the program.
LEMMA InitHostInv == LobbyInit => HostInv
  <1> SUFFICES ASSUME LobbyInit PROVE HostInv
    OBVIOUS
  <1>1. PICK host \in Hosts : configFile = host.configFile
    BY Zenon DEF LobbyInit
  <1>2. UnsignedPort
    BY <1>1, HostsAssumption DEF UnsignedPort
  <1>3. ~config.valid /\ phase = "main" /\ listening = 0
    BY DEF LobbyInit
  <1> QED
    BY <1>2, <1>3 DEF HostInv

\* What setupConfig makes of the file.
LEMMA ValidIsUsable ==
    ASSUME NEW file, NEW name, parseGamefile(constructed(file), name).valid
    PROVE  /\ file.opens /\ file.readable /\ file.root = SC_ROOT_ELEMS
           /\ name \in gameFilepaths
           /\ parseGamefile(constructed(file), name).port = file.port % 65536
  <1>1. name \in gameFilepaths
    <2>1. ~[constructed(file) EXCEPT !.valid = FALSE].valid
      BY DEF constructed, configure
    <2> QED
      BY <2>1 DEF parseGamefile
  <1>2. parseGamefile(constructed(file), name) = constructed(file)
    BY <1>1 DEF parseGamefile
  <1>3. file.opens /\ parseJsonFile_serverConfig(file)
    BY <1>2 DEF constructed
  <1> QED
    BY <1>1, <1>2, <1>3 DEF constructed, configure, parseJsonFile_serverConfig

\* Every step keeps it.
LEMMA StepHostInv == HostInv /\ [LobbyNext]_lobbyVars => HostInv'
  <1> SUFFICES ASSUME HostInv, [LobbyNext]_lobbyVars PROVE HostInv'
    OBVIOUS
  <1> USE DEF HostInv
  <1>1. ASSUME NEW command, main(command) PROVE HostInv'
    BY <1>1 DEF main, UnsignedPort, Configured, Hosting
  <1>2. CASE setupConfig
    <2>1. UNCHANGED <<configFile, gameName, listening>> /\ listening = 0
          /\ config' = parseGamefile(constructed(configFile), gameName)
          /\ phase' \in {"parseGamefile", "isValid"}
      BY <1>2 DEF setupConfig
    <2>2. config'.valid => Configured'
      <3> SUFFICES ASSUME config'.valid PROVE Configured'
        OBVIOUS
      <3>1. parseGamefile(constructed(configFile), gameName).valid
        BY <2>1, Zenon
      <3>2. /\ configFile.opens /\ configFile.readable /\ configFile.root = SC_ROOT_ELEMS
            /\ gameName \in gameFilepaths
            /\ parseGamefile(constructed(configFile), gameName).port = configFile.port % 65536
        BY <3>1, ValidIsUsable
      <3>3. config'.port = parseGamefile(constructed(configFile), gameName).port
        BY <2>1, Zenon
      <3>4. configFile' = configFile /\ gameName' = gameName
        BY <2>1
      <3> QED
        BY <3>2, <3>3, <3>4 DEF Configured
    <2> QED
      BY <2>1, <2>2 DEF UnsignedPort
  <1>3. CASE loadGame
    BY <1>3 DEF loadGame, hostVars, UnsignedPort, Configured, Hosting
  <1>4. CASE gameLoaded
    BY <1>4 DEF gameLoaded, UnsignedPort, Configured, Hosting
  <1>5. CASE isValid
    BY <1>5 DEF isValid, UnsignedPort, Configured, Hosting
  <1>6. ASSUME NEW bound \in BOOLEAN, run(bound) PROVE HostInv'
    BY <1>6 DEF run, UnsignedPort, Configured, Hosting
  <1>7. ASSUME NEW players, execute(players) PROVE HostInv'
    BY <1>7 DEF execute, UnsignedPort, Configured, Hosting
  <1>8. CASE executeRule
    BY <1>8 DEF executeRule, hostVars, UnsignedPort, Configured, Hosting
  <1>9. CASE executed
    BY <1>9 DEF executed, UnsignedPort, Configured, Hosting
  <1>10. CASE UNCHANGED lobbyVars
    BY <1>10 DEF lobbyVars, hostVars, UnsignedPort, Configured, Hosting
  <1> QED
    BY <1>1, <1>2, <1>3, <1>4, <1>5, <1>6, <1>7, <1>8, <1>9, <1>10, Zenon DEF LobbyNext

\* It holds in every reachable state.
THEOREM HostInvariance == LobbySpec => []HostInv
  BY InitHostInv, StepHostInv, PTL DEF LobbySpec

\* Nothing listens on a port that was not configured: not with a file that could
\* not be read, nor for a game that does not exist (setupConfig, isValid).
THEOREM OnlyConfiguredListens == LobbySpec => []ListensAsConfigured
  <1>1. HostInv => ListensAsConfigured
    BY DEF HostInv, Hosting, Configured, ListensAsConfigured
  <1> QED
    BY <1>1, HostInvariance, PTL

-----------------------------------------------------------------------------
(***************************************************************************)
(* The invite code.                                                        *)
(***************************************************************************)

\* The digit of n at the j-th position from the right.
digitAt(n, j) == (n \div Power[j]) % 10
DigitSum(n) ==
    digitAt(n, 1) + 10 * digitAt(n, 2) + 100 * digitAt(n, 3) + 1000 * digitAt(n, 4)
    + 10000 * digitAt(n, 5)

\* A port is a number of 16 bits.
LEMMA PortRange ==
    \A n : n \in Port <=> n \in Nat /\ n <= 65535
  <1> DEFINE last == 65535
  <1>1. Port = 0 .. last
    BY SMT DEF Port
  <1>2. last \in Nat
    BY SMT
  <1> HIDE DEF last
  <1>3. \A n : n \in Port <=> n \in Nat /\ n <= last
    BY <1>1, <1>2, SMT
  <1> QED
    BY <1>3, SMT DEF last

\* A port is the sum of its digits, and those beyond its length are 0.
LEMMA Decimal ==
    ASSUME NEW n \in Port
    PROVE  /\ \A j \in 1 .. 5 : digitAt(n, j) \in 0 .. 9
           /\ n = DigitSum(n)
           /\ digits(n) \in 1 .. 5
           /\ \A j \in 1 .. 5 : j > digits(n) => digitAt(n, j) = 0
  <1> DEFINE a == n % 10
             b == (n \div 10) % 10
             c == (n \div 100) % 10
             d == (n \div 1000) % 10
             e == (n \div 10000) % 10
  <1>0. n \in Nat /\ n < 100000
    BY PortRange, SMT
  <1>1. a \in 0 .. 9 /\ b \in 0 .. 9 /\ c \in 0 .. 9 /\ d \in 0 .. 9 /\ e \in 0 .. 9
    <2>1. \A i \in Nat : i % 10 \in 0 .. 9
      OBVIOUS
    <2>2. n \div 10 \in Nat /\ n \div 100 \in Nat /\ n \div 1000 \in Nat /\ n \div 10000 \in Nat
      BY <1>0
    <2> QED
      BY <1>0, <2>1, <2>2
  <1>2. n = 10 * (n \div 10) + a
    BY <1>0
  <1>3. n \div 10 = 10 * (n \div 100) + b
    BY <1>0
  <1>4. n \div 100 = 10 * (n \div 1000) + c
    BY <1>0
  <1>5. n \div 1000 = 10 * (n \div 10000) + d
    BY <1>0
  <1>6. n \div 10000 = e
    BY <1>0
  <1>7. n = a + 10 * b + 100 * c + 1000 * d + 10000 * e
    BY <1>0, <1>1, <1>2, <1>3, <1>4, <1>5, <1>6
  <1>8. digitAt(n, 1) = a
    <2>1. n \div 1 = n
      BY <1>0
    <2> QED
      BY <2>1 DEF digitAt, Power
  <1>9. digitAt(n, 2) = b /\ digitAt(n, 3) = c /\ digitAt(n, 4) = d /\ digitAt(n, 5) = e
    BY DEF digitAt, Power
  <1>10. digits(n) \in 1 .. 5
    BY <1>0 DEF digits
  <1>11. n < 10 => b = 0 /\ c = 0 /\ d = 0 /\ e = 0
    BY <1>0
  <1>12. n < 100 => c = 0 /\ d = 0 /\ e = 0
    BY <1>0
  <1>13. n < 1000 => d = 0 /\ e = 0
    BY <1>0
  <1>14. n < 10000 => e = 0
    BY <1>0
  <1> HIDE DEF a, b, c, d, e
  <1>15. \A j \in 1 .. 5 : j = 1 \/ j = 2 \/ j = 3 \/ j = 4 \/ j = 5
    OBVIOUS
  <1>16. \A j \in 1 .. 5 : digitAt(n, j) \in 0 .. 9
    BY <1>1, <1>8, <1>9, <1>15, Zenon
  <1>17. \A j \in 1 .. 5 : j > digits(n) => digitAt(n, j) = 0
    BY <1>0, <1>9, <1>11, <1>12, <1>13, <1>14 DEF digits
  <1>18. n = DigitSum(n)
    BY <1>7, <1>8, <1>9 DEF DigitSum
  <1> QED
    BY <1>10, <1>16, <1>17, <1>18, Zenon

\* Reading the decimal digits of a port gives the port.
LEMMA NumberOfString ==
    ASSUME NEW n \in Port
    PROVE  number(to_string(n)) = n /\ to_string(n) \in Seq(Int)
  <1> DEFINE s == to_string(n)
             k == digits(n)
  <1>0. k \in 1 .. 5 /\ \A j \in 1 .. 5 : digitAt(n, j) \in 0 .. 9
    BY Decimal
  <1>1. s = [i \in 1 .. k |-> digitAt(n, k - i + 1)]
    BY Zenon DEF to_string, digitAt
  <1>2. \A j \in 1 .. 5 : j > k => digitAt(n, j) = 0
    BY Decimal
  <1> HIDE DEF s, k
  <1>3. s \in Seq(Int) /\ Len(s) = k
    BY <1>0, <1>1
  <1>4. \A j \in 1 .. k : s[Len(s) - j + 1] = digitAt(n, j)
    BY <1>0, <1>1, <1>3
  <1> DEFINE read(j) == IF j <= Len(s) THEN Power[j] * s[Len(s) - j + 1] ELSE 0
  <1>5. \A j \in 1 .. 5 : read(j) = Power[j] * digitAt(n, j)
    <2> SUFFICES ASSUME NEW j \in 1 .. 5 PROVE read(j) = Power[j] * digitAt(n, j)
      OBVIOUS
    <2>1. CASE j <= k
      BY <2>1, <1>0, <1>3, <1>4
    <2>2. CASE j > k
      BY <2>2, <1>0, <1>2, <1>3 DEF Power
    <2> QED
      BY <2>1, <2>2, <1>0
  <1>6. number(s) = read(1) + read(2) + read(3) + read(4) + read(5)
    BY Zenon DEF number
  <1> HIDE DEF read
  <1>7. number(s) = DigitSum(n)
    BY <1>0, <1>5, <1>6 DEF Power, DigitSum
  <1> QED
    BY <1>3, <1>7, Decimal DEF s

\* Narrowing gives a port.
LEMMA Narrowed ==
    ASSUME NEW n \in Nat
    PROVE  n % 65536 \in Port
  <1>1. n % 65536 \in Nat /\ n % 65536 <= 65535
    BY SMT
  <1> QED
    BY <1>1, PortRange, SMT

\* Turning a string round twice.
LEMMA ReverseTwice ==
    ASSUME NEW S, NEW s \in Seq(S)
    PROVE  Reverse(Reverse(s)) = s
  <1> DEFINE r == Reverse(s)
  <1>1. r \in Seq(S) /\ Len(r) = Len(s) /\ \A i \in 1 .. Len(s) : r[i] = s[(Len(s) - i) + 1]
    BY DEF Reverse
  <1> HIDE DEF r
  <1>2. Reverse(r) = [i \in 1 .. Len(s) |-> r[(Len(s) - i) + 1]]
    BY <1>1 DEF Reverse
  <1>3. \A i \in 1 .. Len(s) : r[(Len(s) - i) + 1] = s[i]
    BY <1>1
  <1>4. Reverse(r) = [i \in 1 .. Len(s) |-> s[i]]
    BY <1>2, <1>3
  <1> QED
    BY <1>4 DEF r

\* The invite code leads to the server, whatever the digits of its port, for exactly
\* the configured ports that are not 0 as an unsigned short
\* (generateInviteCode, parseInviteCode).
THEOREM InvitesLeadToServers == LobbySpec => []InviteLeadsToServer
  <1>1. ASSUME HostInv PROVE InviteLeadsToServer
    <2> SUFFICES ASSUME listening # 0
                 PROVE  number(parseInviteCode(inviteCode)) = listening <=> configFile.port % 65536 # 0
      BY DEF InviteLeadsToServer
    <2>1. Hosting /\ Configured /\ UnsignedPort
      BY <1>1 DEF HostInv, Hosting
    <2>2. port = configFile.port % 65536 /\ configFile.port \in Nat
      BY <2>1 DEF Hosting, Configured, UnsignedPort
    <2>3. port \in Port
      BY <2>2, Narrowed
    <2>4. /\ inviteCode = Reverse(to_string(port))
          /\ listening = IF port = 0 THEN Ephemeral ELSE port
      BY <2>1 DEF Hosting, generateInviteCode
    <2>5. to_string(port) \in Seq(Int) /\ number(to_string(port)) = port
      BY <2>3, NumberOfString
    <2>6. Reverse(inviteCode) = to_string(port)
      BY <2>4, <2>5, ReverseTwice
    <2>7. number(parseInviteCode(inviteCode)) = port
      BY <2>5, <2>6, Zenon DEF parseInviteCode
    <2>8. Ephemeral # 0
      BY HostsAssumption, Zenon
    <2>9. port # 0 <=> configFile.port % 65536 # 0
      BY <2>2
    <2>10. CASE port = 0
      BY <2>4, <2>7, <2>8, <2>9, <2>10
    <2>11. CASE port # 0
      BY <2>4, <2>7, <2>9, <2>11
    <2> QED
      BY <2>10, <2>11
  <1> QED
    BY <1>1, HostInvariance, PTL
=============================================================================

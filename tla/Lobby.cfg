SPECIFICATION LobbySpec
CONSTANTS
    Players <- TwoPlayers
    Hosts <- MCHosts
    GameSpecs <- MCGameSpecs
    SpecLists <- MCSpecLists
    WellFormed <- MCWellFormed
    Expected <- MCExpected
    Ephemeral = 49152
    Width = 8
    WithPlayers <- MCWithPlayers
    scopedElement <- MCscopedElement
    stoul <- MCstoul
INVARIANTS
    AliasesNeverLeak
    AcceptedWhole
    ParsesFaithfully
    ListensAsConfigured
    InviteLeadsToServer
    OnlyUnusableNamesThrow
    DoesWhatTheFileSays
\* The program ends, or waits for players after the one execution.
CHECK_DEADLOCK FALSE

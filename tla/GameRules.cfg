SPECIFICATION FairSpec
CONSTANTS
    Players <- ThreePlayers
    Games <- AllGames
    Rule <- AllRules
    Lists <- AllLists
    Loopless <- LooplessLists
    WellScoped <- MCWellScoped
    Added <- MCAdded
    WithPlayers <- MCWithPlayers
    scopedElement <- MCscopedElement
    stoul <- MCstoul
    variables <- MCvariables
    perPlayer <- MCperPlayer
    Width = 5
INVARIANTS
    TypeOK
    ScopeMatchesActivations
    ResultIgnoresPlayerOrder
    OnlyBadReferencesThrow
    LoopStopsAtTen
PROPERTY Terminates

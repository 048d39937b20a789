SPECIFICATION Spec
CONSTANTS
    c1 = c1
    c2 = c2
    Connection <- TwoConnections
    Stalled <- NoConnection
    Text <- AllTexts
    Game = "finishes"
    MaxLives = 2
    MaxReads = 2
SYMMETRY Symmetry
INVARIANTS
    TypeOK
    Membership
    NobodyMissesABroadcast

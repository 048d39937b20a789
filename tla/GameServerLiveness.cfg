SPECIFICATION FairSpec
CONSTANTS
    c1 = c1
    c2 = c2
    Connection <- TwoConnections
    Stalled <- SecondConnection
    Text <- LoopTexts
    Game = "throws"
    MaxLives = 2
    MaxReads = 2
PROPERTIES
    ShutdownStops
    BroadcastDelivered

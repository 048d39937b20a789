SPECIFICATION FairSpec
CONSTANTS
    c1 = c1
    c2 = c2
    Connection <- TwoConnections
    Stalled <- SecondConnection
    Text <- StopTexts
    Game = "finishes"
    MaxLives = 1
    MaxReads = 2
PROPERTY ShutdownAlwaysStops

SPECIFICATION Spec
CONSTANTS
    c1 = c1
    c2 = c2
    Connection <- OneConnection
    Stalled <- NoConnection
    Text <- AllTexts
    Game = "finishes"
    MaxLives = 1
    MaxReads = 1
INVARIANT TypingNeverCrashes

SPECIFICATION Spec
CONSTANTS
    c1 = c1
    c2 = c2
    Connection <- OneConnection
    Stalled <- NoConnection
    Text <- AllTexts
    Game = "finishes"
    MaxLives = 2
    MaxReads = 1
PROPERTY QuitDisconnectsItsSender

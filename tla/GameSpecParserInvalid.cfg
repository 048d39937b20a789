SPECIFICATION Spec
CONSTANTS
    GameSpecs <- NestedSpecs
    SpecLists <- MCSpecLists
    WellFormed <- MCWellFormed
    Expected <- MCExpected
INVARIANTS
    InvalidIsRefused

SPECIFICATION MCSpecBothReturn
CONSTANTS
    Block <- MCBlock
    Entry = 0
    Var <- MCVar
    MaxPath = 6
INVARIANTS
    OnlyRedundantRemoved

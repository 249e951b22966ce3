SPECIFICATION MCSpecTrimmed
CONSTANTS
    Block <- MCBlock
    Entry = 0
    Null = Null
INVARIANTS
    TypeOK
    AssertionsHold
    NoDominatorLost
    IdomExact
    FrontierAndTreeExact
PROPERTIES
    IdomOnlyRises
    Terminates

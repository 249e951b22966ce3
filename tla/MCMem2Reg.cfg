SPECIFICATION MCSpec
CONSTANTS
    Block <- MCBlock
    Entry = 0
    Var <- MCVar
    MaxPath = 6
INVARIANTS
    TypeOK
    SamePathValues
    StackBalanced
    NoStaleValue
    NeverEmpty
    PhisComplete
    NoUseLeft
PROPERTIES
    RunReturns

SPECIFICATION MCSpec
CONSTANTS
    Block <- MCBlock
    Entry = 0
    Width = 4
    PureFunction <- MCPure
    MaxPath = 6
INVARIANTS
    TypeOK
    SamePathResults
    ClassesAgree
    Fixpoint
    NeverCrashes
PROPERTY Terminates

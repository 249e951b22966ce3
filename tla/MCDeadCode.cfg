SPECIFICATION MCSpec
CONSTANTS
    Function <- MCFunction
    Defined <- MCDefined
    Main = "main"
    ArrayParam = {}
    Instr <- MCInstr
    Other <- MCOther
    FunctionOf <- MCFunctionOf
    Opcode <- MCOpcode
    Addr <- MCAddr
    MaxRuns = 2
    MaxReplace = 1
INVARIANTS
    TypeOK
    NoDanglingOperand
    CachedPuritySafe
    OnlyLiveRemains
PROPERTIES
    OnlyDeadErased
    RunTerminates
    SweepIsCareful

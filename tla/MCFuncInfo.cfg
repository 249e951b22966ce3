SPECIFICATION MCSpec
CONSTANTS
    Function <- MCFunction
    Defined <- MCDefined
    Main <- MCMain
    ArrayParam <- MCArrayParam
    Instr <- MCInstr
    Other <- MCOther
    FunctionOf <- MCFunctionOf
    Opcode <- MCOpcode
    Addr <- MCAddr
INVARIANTS
    PurityExact
    PurityPartial
PROPERTIES
    FITerminates
CHECK_DEADLOCK FALSE

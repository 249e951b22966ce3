\* Programs of two statements from a menu, from syntax tree to IR.
SPECIFICATION Spec
CONSTANTS
    Width = 8
    Name <- MCName
    Val <- MCVal
    NoValue = NoValue
    Source <- MCSource
    AstOf <- Parsed
    DeclNode <- MCDeclNode
    StmtNode <- MCStmtNode
    ExprNode <- MCExprNode
    numbers <- MCNumbers
INVARIANTS
    SameMeaning
    WellTyped
    BlocksWellFormed
    RequestsServed
PROPERTY NamesResolve

SPECIFICATION JoinsSpec
CONSTANTS
    Block <- MCBlock
    Entry = 0
    Width = 4
    PureFunction <- MCPure
    MaxPath = 6
INVARIANT SamePathResults

SPECIFICATION MCSpecReturningBody
CONSTANTS
    Block <- BuilderBlock
    Entry = 0
    Null = Null
PROPERTIES
    Terminates

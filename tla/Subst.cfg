CONSTANTS
    NumVars = 3
    MaxLevel = 2
    MaxDepth = 2
SPECIFICATION Spec
INVARIANTS
    TypeOK
    RollbackExact
    NoPanic
    Acyclic
PROPERTIES
    FreshIsNew
    ImplementsCopies

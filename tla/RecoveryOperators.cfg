\* A name that is an infix operator: its uses are not references.
CONSTANTS
    Name = {x}
    Operator = {x}
    MaxStatements = 2
    MaxWithTest = 0
    MaxBody = 0
SPECIFICATION RecoverySpec
INVARIANT NoCascade
CHECK_DEADLOCK FALSE

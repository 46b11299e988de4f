CONSTANTS
    NumVars = 3
    MaxLevel = 2
    UnloweredLambdas = TRUE
SPECIFICATION Spec
INVARIANTS
    QuantifiedNotInEnv

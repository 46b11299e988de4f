CONSTANTS
    NumVars = 3
    MaxLevel = 2
    UnloweredLambdas = FALSE
SPECIFICATION Spec
INVARIANTS
    PatternQuantifiedNotInEnv

\* Rows of operators under the prelude's declarations alone.
CONSTANTS
    Running = {"operators"}
    NumVars = 1
    MaxLevel = 0
    UnloweredLambdas = FALSE
    Name = {x}
    Operator = {}
    MaxStatements = 1
    MaxWithTest = 0
    MaxBody = 0
    OperatorToken <- MCOperatorToken
    MaxOperators = 4
    Declarations <- MCPreludeOnly
    MaxArms <- MCMaxArms
    Variants <- MCVariants
    MaxWitnesses = 7
    MaxWitnessDepth = 4
    MaxElements = 2
    Programs <- MCPrograms
    MaxTurns = 1
    ExprCode <- MCExprCode
    TailCode <- MCTailCode
    Equations <- MCEquations
    RowVars = {3, 4}
    GroundTypes <- MCGroundTypes
    GroundRows <- MCGroundRows
    DictPrograms <- MCDictPrograms
    Definitions <- MCDefinitions
    Uses <- MCUses
    Impls <- MCImpls
    MaxCallDepth = 3
INIT StagesInit
NEXT StagesNext
INVARIANT HigherPrecedenceBindsTighter
CHECK_DEADLOCK FALSE

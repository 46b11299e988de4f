\* One stage of the compiler or of its tools at a time; the instances are those of
\* MCStages.
CONSTANTS
    Running = {"let polymorphism", "recovery", "unification", "operators", "patterns",
               "code generation", "dictionaries"}
    NumVars = 3
    MaxLevel = 2
    UnloweredLambdas = FALSE
    Name = {x, y}
    Operator = {}
    MaxStatements = 3
    MaxWithTest = 2
    MaxBody = 2
    OperatorToken <- MCOperatorToken
    MaxOperators = 4
    Declarations <- MCDeclarations
    MaxArms <- MCMaxArms
    Variants <- MCVariants
    MaxWitnesses = 7
    MaxWitnessDepth = 4
    MaxElements = 2
    Programs <- MCPrograms
    MaxTurns = 3
    ExprCode <- MCExprCode
    TailCode <- MCTailCode
    Equations <- MCEquations
    RowVars = {3, 4}
    GroundTypes <- MCGroundTypes
    GroundRows <- MCGroundRows
    DictPrograms <- MCDictPrograms
    Definitions <- MCDefinitions
    Uses <- MCUses
    Impls <- MCImpls
    MaxCallDepth = 3
INIT StagesInit
NEXT StagesNext
INVARIANTS
    QuantifiedNotInEnv
    NoCascade
    FaultsReported
    EnvIsExact
    UnifyIsMostGeneral
    DictionariesFitTheirValues
    ReassociationIsRight
    ExhaustivenessIsExact
    LuaMeansTheSame
CHECK_DEADLOCK FALSE

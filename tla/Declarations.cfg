SPECIFICATION DeclarationsSpec
CONSTANTS
  Declarations <- MCDeclared
  Annotations <- MCAnnotations
  Programs <- MCPrograms
  OwnVars = 2
  ImplSchemeOf <- MCImplSchemeOf
  OwnMethodsOf <- MCOwnMethodsOf
  CalleeOf <- MCCalleeOf
  DictOf <- MCDictOf
  DerivingPrograms <- MCDerivingPrograms
  SelfNesting = 2
  Priorities = {1, 2}
  Values = {x, y}
  MaxItems = 4
  Equations = {}
  RowVars = {}
  GroundTypes = {}
  GroundRows = {}
INVARIANTS
  AnnotationsMeanWhatTheySay
  PatternsTakeWhatConstructorsGive
  MethodsFit
  DerivedMethodsAreLawful
PROPERTY
  ImplementsContainers
CHECK_DEADLOCK FALSE

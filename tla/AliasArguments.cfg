SPECIFICATION DeclarationsSpec
CONSTANTS
  Declarations <- MCWorlds
  Annotations <- MCArguments
  Programs = {}
  OwnVars = 2
  ImplSchemeOf <- MCImplSchemeOf
  OwnMethodsOf <- MCOwnMethodsOf
  CalleeOf <- MCCalleeOf
  DictOf <- MCDictOf
  DerivingPrograms = {}
  SelfNesting = 2
  Priorities = {1, 2}
  Values = {x, y}
  MaxItems = 0
  Equations = {}
  RowVars = {}
  GroundTypes = {}
  GroundRows = {}
INVARIANT AnnotationsMeanWhatTheySay
CHECK_DEADLOCK FALSE

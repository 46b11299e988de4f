SPECIFICATION FrontEndSpec
CONSTANTS
  Texts <- MCTexts
  Sources <- MCSources
  Trees <- MCTrees
  StatementAt <- MCStatementAt
  TypedPrograms <- MCTypedPrograms
  Checked <- MCChecked
  RunTurns = 5
  Equations = {}
  RowVars = {}
  GroundTypes = {}
  GroundRows = {}
INVARIANTS
  ReadsWhatIsWritten
  RecoveringAgreesWithStrict
  NeighboursSurvive
  DoBlocksKeepJumps
  SpansPointAtTheirText
  HolesEndWhereTheyShould
  AcceptedProgramsRun
  OneMutableOwner
CHECK_DEADLOCK FALSE

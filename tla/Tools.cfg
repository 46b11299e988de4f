\* One tool at a time; the instances are those of MCTools.
CONSTANTS
    Running = {"server", "loading", "session", "names"}
    main = main
    lib = lib
    dep = dep
    Doc <- MCDoc
    MaxBatch = 1
    Overlays <- MCOverlays
    Files <- MCFiles
    MaxVersion = 2
    MaxWrites = 2
    Module = {a, b, c}
    Entry = a
    MaxImports = 2
    Faults = {"none", "missing", "lex", "parse", "fixity", "type"}
    Variable = {"x", "y"}
    ValueType = {"int", "string"}
    ReplFiles <- MCReplFiles
    Inputs <- MCInputs
    MaxSubmits = 3
    Documents <- MCDocuments
    NewNames <- MCNewNames
INIT ToolsInit
NEXT ToolsNext
SYMMETRY Symmetry
INVARIANTS
    ShownIsCombined
    QuietMeansFresh
    CacheHonest
    ImportsComeFirst
    LoadersAgree
    NoCascades
    ReplayIsTheSession
    RenameKeepsBindings
CHECK_DEADLOCK FALSE

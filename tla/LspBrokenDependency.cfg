CONSTANTS
    Running = {"server"}
    main = main
    lib = lib
    dep = dep
    Doc <- MCDoc
    MaxBatch = 1
    Overlays <- MCOverlays
    Files <- MCBrokenFiles
    MaxVersion = 2
    MaxWrites = 2
    Module = {a, b, c}
    Entry = a
    MaxImports = 2
    Faults = {"none", "missing", "lex", "parse", "fixity", "type"}
    Variable = {"x", "y"}
    ValueType = {"int", "string"}
    ReplFiles <- MCReplFiles
    Inputs <- MCInputs
    MaxSubmits = 3
    Documents <- MCDocuments
    NewNames <- MCNewNames
INIT ToolsInit
NEXT ToolsNext
INVARIANT QuietMeansFresh
CHECK_DEADLOCK FALSE

\* The context of one run while others change the tree.
CONSTANTS
    readme = readme
    main = main
    dir = dir
    Paths <- MCPaths
    Nodes <- MCNodes
    Requested <- MCRequested
    Hits <- MCHits
    Mentioned <- MCMentioned
    Defaults <- MCDefaults
    MaxFound = 2
    MaxContexts = {0, 3, 6}
    PerFileCap = 4
    MarkerLen = 2
    LineLen = 1
    MaxDepth = 2
    MaxEntries = 2
    MaxListing = 2
SPECIFICATION ContextSpec
INVARIANTS
    ContextTypeOK
    ContextCapped
    
    OutlineBounded
PROPERTIES
    GatherMovesOn

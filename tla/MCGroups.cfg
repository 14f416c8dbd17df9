CONSTANTS
    m1 = m1
    m2 = m2
    m3 = m3
    Middlewares <- MCMiddlewares
    Texts <- MCTexts
    Params <- MCParams
    TextPrefix <- MCTextPrefix
    Patterns <- MCPatterns
    GroupPrefixes <- MCPrefixes
    Paths <- MCPaths
    MaxGroups = 3
SYMMETRY Symmetry
SPECIFICATION Spec
INVARIANTS
    TypeOK
    ChainIsLayered
    ParentsComeFirst
    RoutesRunTheirMiddlewares

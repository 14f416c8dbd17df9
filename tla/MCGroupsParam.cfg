CONSTANTS
    m1 = m1
    m2 = m2
    m3 = m3
    Middlewares <- MCMiddlewares
    Texts <- MCTexts
    Params <- MCParams
    TextPrefix <- MCTextPrefix
    Patterns <- MCPatterns
    GroupPrefixes <- ParamPrefixes
    Paths <- ParamPaths
    MaxGroups = 2
SPECIFICATION Spec
INVARIANT RoutesRunTheirMiddlewares

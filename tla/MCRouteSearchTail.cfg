CONSTANTS
    GET = GET
    h1 = h1
    h2 = h2
    Nil = Nil
    Absent = Absent
    Texts <- AllTexts
    Methods <- MCMethods
    HandleFuncs <- MCHandleFuncs
    Segs <- MCSegs
    Uncompilable <- MCUncompilable
    Paths <- MCPaths
    MatchString <- MCMatchString
    Patterns <- MCPatterns
SYMMETRY Symmetry
SPECIFICATION Spec
INVARIANT TailStarServes

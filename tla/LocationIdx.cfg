CONSTANTS
    Methods = {GET, POST}
    MethodSets = {{}}
    Targets = {}
    Positions <- MCPositions
    Results = {}
    FailCodes = {502}
    MaxDirectives = 4
    MaxOuter = 4
    NameLen <- MCNameLen
    SizeMod = 128
    MemMax = 100
    Null = Null
    None = None
    Unset = Unset
    Texts <- MCTexts
    Sources <- MCSources
    Destinations <- MCDestinations
    MaxCodes = 2
SPECIFICATION MCSpec
SYMMETRY MethodSymmetry
INVARIANT IdxAlwaysValid

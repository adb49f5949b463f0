CONSTANTS
    Methods = {GET, POST}
    MethodSets <- MCMethodSets
    Targets <- MCTargets
    Positions = {}
    Results <- MCResults
    FailCodes = {502}
    MaxDirectives = 3
    MaxOuter = 0
    NameLen <- MCNameLen
    SizeMod = 128
    MemMax = 100
    Null = Null
    None = None
    Unset = Unset
    Texts <- MCTexts
    Sources <- MCSources
    Destinations <- MCDestinations
    MaxCodes = 2
SPECIFICATION MCSpec
SYMMETRY MethodSymmetry
INVARIANT FirstOneWins

CONSTANTS
    Methods = {GET, POST}
    MethodSets <- MCMethodSets
    Targets <- MCTargets
    Positions <- MCPositions
    Results <- MCResults
    FailCodes = {502}
    MaxDirectives = 3
    MaxOuter = 1
    NameLen <- MCNameLen
    SizeMod = 128
    MemMax = 100
    Null = Null
    None = None
    Unset = Unset
    Texts <- MCTexts
    Sources <- MCSources
    Destinations <- MCDestinations
    MaxCodes = 2
SPECIFICATION MCSpec
SYMMETRY MethodSymmetry
INVARIANT LocationTypeOK
INVARIANT TablesUnambiguous
INVARIANT QueryOfMethod
INVARIANT RewriteChosen
INVARIANT AnswerMatches
INVARIANT VariablesAreFresh
INVARIANT OutputFits
INVARIANT EscapedOrRefused
PROPERTY EscapeReadsBack

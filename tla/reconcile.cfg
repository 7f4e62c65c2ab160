SPECIFICATION Spec
CONSTANTS
    crm = crm mail = mail web = web acme = acme acne = acne r1 = r1 r2 = r2
    Uuids <- FourUuids
    GroupOf <- Groups
    NormOf <- Names
    Alike <- AlikeNames
    AlikeOneWay <- NoNames
    Runs <- TwoRuns
INVARIANT TypeOK
INVARIANT OneLinkPerPair
INVARIANT OnlyPeopleLinkSimilarNames
INVARIANT NothingMissed
PROPERTY ImplementsRegister
SYMMETRY RunsAreAlike

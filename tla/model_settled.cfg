SPECIFICATION ScrollSpec
CONSTANTS
    Activity <- MCActivity
    Resource <- ThreeResources
    Any <- MCAny
    CurrentTag <- MCCurrentTag
    MaxScore = 4
    Usable <- ThreeAndOne
    Linkable <- Nothing
    Uses = "rising"
    Queries <- OnceAndPaged
    MaxBus = 1
    Lockstep = TRUE
    Missing <- Nothing
    Forgets = TRUE
INVARIANTS
    SettledExact
    ShowsPages
    OffersMoreRows
PROPERTIES
    AllPagesArrive

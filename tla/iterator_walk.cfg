SPECIFICATION WalkSpec
CONSTANTS
    walker = walker
    other = other
    r1 = r1
    r2 = r2
    r3 = r3
    third = third
    nothing = nothing
    Iterator <- MCIterator
    Walker <- walker
    Result <- MCResult
    Nothing <- nothing
    MaxRows <- MCMaxRows
    Reach <- MCReach
INVARIANTS
    IteratorTypeOK
    ValueFollowsRow
    WalkVisitsAll
PROPERTIES
    WalkEnds

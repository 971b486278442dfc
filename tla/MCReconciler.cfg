SPECIFICATION Spec
CONSTANTS
    Configs = {c1, c2}
    Specs <- MCSpecs
    ValidSources <- MCValidSources
    Nothing = Nothing
    MaxWrites = 3
    MaxFaults = 1
    l1 = l1
    l2 = l2
    bad = bad
    t1 = t1
    t2 = t2
INVARIANT TypeOK
INVARIANT GuardedByFinalizer
INVARIANT RestsWhenDone
PROPERTY NoEditReverted
PROPERTY Converges
PROPERTY DeletionCompletes
PROPERTY ImplementsService
CHECK_DEADLOCK FALSE

SPECIFICATION Spec
CONSTANTS
    Configs = {c1, c2}
    Specs <- MCSpecs
    ValidSources <- MCValidSources
    Nothing = Nothing
    MaxWrites = 3
    MaxFaults = 0
    l1 = l1
    l2 = l2
    bad = bad
    t1 = t1
    t2 = t2
CHECK_DEADLOCK FALSE
INVARIANT DestinationsMonitored

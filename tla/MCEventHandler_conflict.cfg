SPECIFICATION Spec
CONSTANTS
    e1 = e1
    e2 = e2
    d1 = d1
    d2 = d2
    w1 = w1
    x1 = x1
    p1 = p1
    k1 = k1
    k2 = k2
    Manifest <- MCManifestOf
    NamespaceLabels <- MCNamespaceLabels
    Stamp <- MCStamp
    NoStamp = NoStamp
    None = None
    Events = {e1, e2}
    Objects = {d1, d2}
    Identifier <- SameIdentifier
    Namespace <- AnyNamespace
    DestinationLists <- OneList
    MaxUpdates = 1
    Edited = {}
    MaxEdits = 0
    Faults = FALSE
INVARIANT EventReachesAll
CHECK_DEADLOCK FALSE

SPECIFICATION Spec
CONSTANTS
    e1 = e1
    e2 = e2
    d1 = d1
    d2 = d2
    w1 = w1
    x1 = x1
    p1 = p1
    k1 = k1
    k2 = k2
    Manifest <- MCManifestOf
    NamespaceLabels <- MCNamespaceLabels
    Stamp <- MCStamp
    NoStamp = NoStamp
    None = None
    Events = {e1, e2}
    Objects = {d1, w1, x1, p1}
    Identifier <- MCIdentifier
    Namespace <- MCNamespace
    DestinationLists <- MCLists
    MaxUpdates = 2
    Edited = {w1}
    MaxEdits = 1
    Faults = TRUE
INVARIANT TypeOK
INVARIANT OnlyReferenced
INVARIANT AllAttempted
PROPERTY NoEditUndone
PROPERTY StopsAtUnfinishedRollout
PROPERTY HandlersEnd
CHECK_DEADLOCK FALSE

SPECIFICATION Spec
CONSTANTS
    Configs = {c1, c2}
    Sources <- SharedSources
    SourceLists <- SharedLists
    Suffixes <- MCSuffixes
    Addrs <- MCAddrs
    NoSuffix = NoSuffix
    None = None
    SecretKeys <- MCSecretKeys
    ServiceAccounts <- MCServiceAccounts
    Ambient = TRUE
    Faults = TRUE
    MaxLate = 1
    s1 = s1
    a1 = a1
    v1 = v1
    v2 = v2
SYMMETRY ConfigSymmetry
INVARIANT TypeOK
INVARIANT RouteOwned
INVARIANT AddressOwned
INVARIANT OnlyAccepted
INVARIANT WebhooksServed
INVARIANT StopAllClears
PROPERTY KeptUndisturbed

SPECIFICATION Spec
CONSTANTS
    Configs = {c1}
    Sources <- WatchSources
    SourceLists <- WatchLists
    Suffixes <- MCSuffixes
    Addrs <- MCAddrs
    NoSuffix = NoSuffix
    None = None
    SecretKeys <- MCSecretKeys
    ServiceAccounts <- MCServiceAccounts
    Ambient = TRUE
    Faults = FALSE
    MaxLate = 1
    s1 = s1
    a1 = a1
    v1 = v1
    v2 = v2
INVARIANT SuccessMeansListening

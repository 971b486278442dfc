SPECIFICATION Spec
CONSTANTS
    Configs = {c1}
    Sources <- SingleSources
    SourceLists <- SingleLists
    Suffixes <- MCSuffixes
    Addrs <- MCAddrs
    NoSuffix = NoSuffix
    None = None
    SecretKeys <- MCSecretKeys
    ServiceAccounts <- MCServiceAccounts
    Ambient = TRUE
    Faults = TRUE
    MaxLate = 2
    s1 = s1
    a1 = a1
    v1 = v1
    v2 = v2
INVARIANT OnlyAccepted
PROPERTY AddressGivenBack

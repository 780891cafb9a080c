\* Two issuers, every disciplined chain of three signed versions, two requests
\* in flight at the same time.
SPECIFICATION Spec
CONSTANTS
    NoSnapshot = NoSnapshot
    Issuers = {1, 2}
    Workers = {w1, w2}
    MaxVersion = 3
    SignedSets <- Chains
INVARIANTS
    TypeOK
    RegistryNotBehind
    RevokedIssuerIsRefused

\* Two issuers, any signed snapshots of three versions, two requests of which at
\* most one is administrative.
SPECIFICATION SerialSpec
CONSTANTS
    NoSnapshot = NoSnapshot
    Issuers = {1, 2}
    Workers = {w1, w2}
    MaxVersion = 3
    SignedSets <- AnythingSigned
INVARIANTS
    RegistryMatchesCurrent
    UndoneByKeyOrder
PROPERTIES
    TrustNeverRollsBack

\* The same property with two registrations in flight.
SPECIFICATION Spec
CONSTANTS
    NoSnapshot = NoSnapshot
    Issuers = {1}
    Workers = {w1, w2}
    MaxVersion = 3
    SignedSets <- Chains
PROPERTIES
    TrustNeverRollsBack

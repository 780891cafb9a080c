\* One certificate, one issuer that is active and then retired or revoked, two
\* concurrent trust requests, one status request at a time.
\* Deadlock is checked: the tables can always change.
SPECIFICATION Spec
CONSTANTS
    NoSnapshot = NoSnapshot
    Readers = {r1}
    TrustWorkers = {t1, t2}
    Issuers = {1}
    Issuer = 1
    MaxVersion = 2
    SignedSets <- Chains
    TrustExpiry <- ExpiryByVersion
    NotAfter = 1
    MaxTime = 1
SYMMETRY Symmetry
INVARIANTS
    TypeOK
    ValidOnlyIfOnceGood
    GoodIsValid

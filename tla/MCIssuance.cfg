\* One account with two keys, two contents, two requests in flight.
\* Deadlock is not checked: the bounds on the clock and the serials run out.
SPECIFICATION Spec
CONSTANTS
    None = None
    Accounts = {a1}
    Keys = {k1, k2}
    Contents = {x, y}
    SubjectKeyOf <- OneSubjectKey
    Workers = {w1, w2}
    Window = 2
    RateWindow = 1
    Retention = 2
    AccountLimit = 2
    DeveloperLimit = 2
    SubjectKeyLimit = 2
    MaxLifetime = 1
    MaxSerial = 2
    MaxTime = 2
SYMMETRY Symmetry
INVARIANTS
    TypeOK
    ClaimIsExclusive
    NoDuplicateIssue
    ReplayIsFaithful
    SerialNeverReused
    RateLimitHolds
PROPERTIES
    DeadClaimBlocksOneWindow
    ImplementsCertificateLedger
CHECK_DEADLOCK FALSE

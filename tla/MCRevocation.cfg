\* Three certificates with room for two on the list while its version has one
\* digit and for one from version 3 on, two concurrent requests.
\* Deadlock is not checked: the bounds on clock and versions run out.
SPECIFICATION Spec
CONSTANTS
    NoSnapshot = NoSnapshot
    Certificates = {c1, c2, c3}
    Workers = {w1, w2}
    Ttl = 2
    RefreshWindow = 1
    MaxBytes = 5
    EntryBytes = 2
    DigitSteps = {3}
    MaxTime = 2
    MaxVersion = 2
SYMMETRY Symmetry
INVARIANTS
    TypeOK
    ListIsComplete
    ReportedRevocationIsListed
    RenewalIsAccepted
PROPERTIES
    RevocationIsFinal
    ImplementsRevocationList
CHECK_DEADLOCK FALSE

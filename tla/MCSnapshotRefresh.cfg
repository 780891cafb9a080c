\* Two publishers besides the cron.  The unit of time is 300 seconds: the
\* deployed lifetime, window and period.  No symmetry: liveness is checked.
SPECIFICATION Spec
CONSTANTS
    Cron = cron
    Workers = {w1, w2}
    Ttl = 12
    RefreshWindow = 6
    Period = 3
    MaxLifetime = 1
    MaxFailures = 3
INVARIANTS
    TypeOK
    RenewedInTime
PROPERTIES
    ExpiryNeverMovesBack
    ListRecovers

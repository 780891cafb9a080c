\* Three tokens (one issued ahead of the clock, one signed for too long) and an
\* action id, two concurrent requests, up to three uses,
\* and a cache that evicts beyond one row.
\* Deadlock is not checked: the bounds on the clock and the uses run out.
SPECIFICATION Spec
CONSTANTS
    None = None
    Tokens = {1, 2, 3}
    ActionIds = {id1}
    Issued <- IssuedByNumber
    Expiry <- ExpiryByNumber
    MaxTokenLifetime = 2
    Skew = 1
    Workers = {w1, w2}
    ServiceTtl = 1
    Capacity = 1
    MaxUses = 3
    MaxTime = 3
SYMMETRY Symmetry
INVARIANTS
    TypeOK
    UsedOnceWhileValid
CHECK_DEADLOCK FALSE

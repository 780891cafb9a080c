\* What the documents say of the jti of an administrative token.
\* Deadlock is not checked: the bounds on the clock and the uses run out.
SPECIFICATION Spec
CONSTANTS
    None = None
    Tokens = {2}
    ActionIds = {id1}
    Issued <- IssuedByNumber
    Expiry <- ExpiryByNumber
    MaxTokenLifetime = 2
    Skew = 1
    Workers = {w1, w2}
    ServiceTtl = 1
    Capacity = 3
    MaxUses = 3
    MaxTime = 3
SYMMETRY Symmetry
INVARIANT
    TokenUsedOnce
CHECK_DEADLOCK FALSE

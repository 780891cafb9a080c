\* Three accounts, two concurrent requests.
SPECIFICATION Spec
CONSTANTS
    None = None
    Founder = founder
    Accounts = {founder, a1, a2}
    Workers = {w1, w2}
    InputRoles = {"owner", "admin"}
    InputStatuses = {"active", "removed"}
SYMMETRY Symmetry
INVARIANTS
    TypeOK
    ActiveOwnerRemains
PROPERTIES
    OwnershipComesFromOwners

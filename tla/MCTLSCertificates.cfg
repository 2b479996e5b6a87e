CONSTANTS
    Attributes = {a1, a2}
    Changing = {"attributes", "keys", "relation", "revocation", "time"}
    MaxChanges = 3
SPECIFICATION MCSpec
INVARIANTS
    TypeOK
    OneRequest
    RenewalArmed
PROPERTIES
    NoNeedlessRenewal
    Converges
CHECK_DEADLOCK FALSE

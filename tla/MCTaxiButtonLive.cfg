SPECIFICATION FairSpec
CONSTANTS
    left = left
    right = right
    Sides <- One
    Actions <- OneAction
    PermissionAge = 1
    Lifetime = 2
    Outcomes = {"flips", "refused", "ignored"}
    MaxSerial = 1
    MaxPolls = 1
    MaxHands = 1
    MaxResets = 1
INVARIANTS
    TypeOK
    OncePerRequest
PROPERTY
    RequestRetires

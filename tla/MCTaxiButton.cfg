SPECIFICATION Spec
CONSTANTS
    left = left
    right = right
    Sides <- Two
    Actions <- TwoActions
    PermissionAge = 0
    Lifetime = 1
    Outcomes = {"flips"}
    MaxSerial = 2
    MaxPolls = 1
    MaxHands = 0
    MaxResets = 0
INVARIANTS
    RetiredMeansDone
    ShortcutReverses

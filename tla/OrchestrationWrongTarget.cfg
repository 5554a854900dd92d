SPECIFICATION Spec
CONSTANTS
    Plans <- ShortPlans
    Inventories <- TwoOrThree
    Groups = {"core", "access", "pair"}
    Devices = {1, 2, 3}
    Editable = {"pair"}
    MaxEdits = 1
    Default = Default
    Nothing = Nothing
CHECK_DEADLOCK FALSE
INVARIANTS
    RollbackReachesItsTarget

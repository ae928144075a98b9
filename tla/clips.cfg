SPECIFICATION FairSpec
CONSTANTS
    Times = {2, 3, 4}
    None = None
    Cooldown = 2
    MaxRestarts = 1
INVARIANTS CooldownKept CounterAccounts SidecarsPaired PrunedRowsGone
PROPERTY EventRecorded
CHECK_DEADLOCK FALSE

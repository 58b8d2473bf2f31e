SPECIFICATION LiveSpec
CONSTANTS
    Reqs = {r1, r2, r3}
    Flags <- MCFlags
    MaxSpawns = 2
    MaxFaults = 2
INVARIANTS
    Supervised
    CallersServed
PROPERTIES
    StartsAndStops
CHECK_DEADLOCK FALSE

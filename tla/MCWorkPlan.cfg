SPECIFICATION LiveSpec
CONSTANTS
    n1 = n1
    n2 = n2
    ms = ms
    r1 = r1
    r2 = r2
    d1 = d1
    Task = {n1, n2}
    Milestone = {ms}
    Plan <- MCPlans
    Run = {r1, r2}
    Driver = {d1}
    None = None
    Events = {"limit"}
    MaxActive = 2
    MaxRetries = 1
    Cap = 2
    MaxResuming = 1
    MaxMail = 1
    Acts <- MCActs
    MaxActs = 1

    
PROPERTIES
    SkipsOnlyLost
    
CHECK_DEADLOCK FALSE

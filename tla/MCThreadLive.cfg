SPECIFICATION LiveSpec
CONSTANTS
    t1 = t1
    t2 = t2
    Task <- MCTask2
    Agent = {codex}
    Msg = {m1}
    None = None
    BudgetKind = {"unlimited", "tokens"}
    Codex = codex
    AutoSwitch = TRUE
    SwitchBack = TRUE
    ResumeEarliest = TRUE
    MaxLimit = 2
    MaxSpend = 2
    Events = {"limit"}
PROPERTIES
    TurnsStartWithinBudget
    LaunchesGetThrough
    LimitWaitEnds

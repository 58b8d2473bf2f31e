SPECIFICATION Spec
CONSTANTS
    t1 = t1
    t2 = t2
    Task <- MCTask2
    Agent = {codex, claude}
    Msg = {m1}
    None = None
    BudgetKind = {"unlimited", "weekly"}
    Codex = codex
    AutoSwitch = TRUE
    SwitchBack = TRUE
    ResumeEarliest = TRUE
    MaxLimit = 1
    MaxSpend = 1
    Events = {"limit", "network", "delete", "restart"}
INVARIANTS
    SingleSession
    MessagesSound
    
CHECK_DEADLOCK FALSE
SYMMETRY Symmetry2

SPECIFICATION LiveSpec
CONSTANTS
    Codex = "codex"
    Claude = "claude"
    System = {"sysCodex", "sysClaude"}
    Isolated = {"isoCodex", "isoClaude", "isoNew"}
    CodexAccts = {"sysCodex", "isoCodex"}
    Flaky = {"isoCodex"}
    Credits = {"isoCodex"}
    Start <- MCStart
    SignedAtFirst = {"sysCodex", "isoCodex"}
    UserOps = {"add", "toggle", "activate", "delete", "system", "switch", "token"}
    MaxOps = 1
    MaxLimits = 1
    MaxFails = 1
    MaxBusy = 2

    
PROPERTIES
    PickedUsable
    WaiterResumes
CHECK_DEADLOCK FALSE

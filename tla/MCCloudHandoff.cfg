SPECIFICATION LiveSpec
CONSTANTS
    Threads = {t1}
    Agents = {"claude", "codex"}
    Codex = "codex"
    StartAgents = {"claude"}
    Endings = {"completed"}
    Policies <- MCPolicies
    Providers <- MCProviders
    MaxRuns = 2
    MaxEvents = 2
INVARIANTS
    HandoffSound
    
PROPERTIES
    CloudLegEnds
CHECK_DEADLOCK FALSE

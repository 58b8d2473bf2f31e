--------------------------- MODULE MCAgentSession ---------------------------
(* Model constants for AgentSession. *)
EXTENDS AgentSession

Ask4(t, p, b, r, a) == [transport |-> t, mode |-> "none", perm |-> p,
                        budget |-> b, resume |-> r, approver |-> a,
                        deny |-> {"tool", "server"}]

(* A limit with the time of its reset, worded like a network failure too. *)
LimitText == [NoMessage EXCEPT !.words = TRUE, !.says = {"limit", "network"},
                               !.epoch = {300}, !.clock = {-2}]
MCTexts == {LimitText, NoMessage}

(* Every transport, budget and way to start, not their product. *)
MCSpecs == {Ask4("codex", "ReadOnly", "none", TRUE, FALSE),
            Ask4("codex", "Ask", "weekly", FALSE, TRUE),
            Ask4("docker", "ReadOnly", "none", FALSE, FALSE),
            Ask4("claude", "ReadOnly", "none", FALSE, TRUE),
            Ask4("claude", "WorkspaceWrite", "none", FALSE, FALSE)}
=============================================================================

--------------------------- MODULE MCCloudHandoff ---------------------------
(* Model constants for CloudHandoff: one policy with every trigger on, a cap
   that is clamped to one run, a priority list that names one provider, and
   manual handoffs that need approval.                                       *)
EXTENDS CloudHandoff

MCPolicies == {[enabled |-> TRUE, sleep |-> TRUE, shutdown |-> TRUE, cross |-> TRUE,
                approval |-> TRUE, cap |-> 0, priority |-> <<"codex">>]}
MCProviders == <<"claude", "codex">>
=============================================================================

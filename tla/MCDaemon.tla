------------------------------ MODULE MCDaemon ------------------------------
(* Model constants for Daemon: the gated features in startDaemon's order. *)
EXTENDS Daemon

MCFlags == <<"cloud", "local">>
=============================================================================

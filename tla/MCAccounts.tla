----------------------------- MODULE MCAccounts -----------------------------
(* Model constants for Accounts. *)
EXTENDS Accounts

MCStart == <<"sysCodex", "isoCodex", "isoClaude">>
=============================================================================

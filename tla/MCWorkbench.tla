---------------------------- MODULE MCWorkbench -----------------------------
(* The workbench controller with every kind of message and event, two of     *)
(* them (or of failed requests) in a behaviour.                              *)
EXTENDS Workbench

AllMessages == {"forward", "refresh", "policy", "activate", "delete", "signin", "diff", "submit"}
AllEvents == {"config", "folders", "limit", "signed", "files"}

=============================================================================

------------------------------ MODULE MCWorkflow ------------------------------
(* Workflow for TLC; its constants are numbers, which the cfgs write.      *)
EXTENDS Workflow

=============================================================================

------------------------------ MODULE MCMcpApps ------------------------------
(* Instances of McpApps.                                                   *)
EXTENDS McpApps, TLC
=============================================================================

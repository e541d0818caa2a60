-------------------------- MODULE MCResponsesAdapter --------------------------
(* Instances of ResponsesAdapter.                                          *)
EXTENDS ResponsesAdapter, TLC
=============================================================================

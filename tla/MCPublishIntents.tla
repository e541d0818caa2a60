--------------------------- MODULE MCPublishIntents ---------------------------
(* Instances of PublishIntents.                                            *)
EXTENDS PublishIntents, TLC

\* The candidates of an answer are interchangeable.
Symmetry == Permutations(Candidate)
=============================================================================

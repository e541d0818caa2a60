--------------------------- MODULE MCFileOperations ---------------------------
(* Instances of FileOperations.                                            *)
EXTENDS FileOperations
=============================================================================

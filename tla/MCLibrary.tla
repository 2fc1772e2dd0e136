------------------------------ MODULE MCLibrary ------------------------------
(* Small instances of Library for TLC.                                      *)
EXTENDS Library, TLC

WorkerSymmetry == Permutations(Workers)

=============================================================================

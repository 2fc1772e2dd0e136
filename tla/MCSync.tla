------------------------------- MODULE MCSync -------------------------------
(* Small instances of Sync for TLC.                                        *)
EXTENDS Sync, TLC

RotatedSymmetry == Permutations(Rotated)

=============================================================================

---------------------------- MODULE MCAlgorithms ----------------------------
(* The sizes of the inputs TLC compares.                                   *)
EXTENDS Algorithms

Small == [sql |-> 2, json |-> 3, dng |-> 9, durations |-> 4]

=============================================================================

----------------------------- MODULE MCChildren -----------------------------
(* Small instances of Children for TLC.                                    *)
EXTENDS Children, TLC

CONSTANTS f1, f2   \* two photos

=============================================================================

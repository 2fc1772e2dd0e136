------------------------------ MODULE Dispenser ------------------------------
(***************************************************************************)
(* What Store::AllocateSequence (src/db.h) promises the worker threads: a  *)
(* number is handed out once, to one of them, and never one that is taken  *)
(* already, whatever is lost or burnt on the way.  The ingest pipeline     *)
(* (Ingest) and the start over an existing library (Library) implement it. *)
(***************************************************************************)
EXTENDS Naturals

CONSTANTS
  Clients,   \* who asks for numbers
  Numbers    \* the numbers there are

VARIABLES
  taken,     \* numbers nobody may be handed any more
  hands      \* the number each client holds, 0 for none

dispenser == <<taken, hands>>

Empty == [c \in Clients |-> 0]

Init == taken \in SUBSET Numbers /\ hands = Empty

Hand(c) ==
  /\ hands[c] = 0
  /\ \E n \in Numbers \ taken :
       hands' = [hands EXCEPT ![c] = n] /\ taken' = taken \cup {n}

LetGo(c) == hands' = [hands EXCEPT ![c] = 0] /\ UNCHANGED taken

(* A number is lost without having been handed out.                        *)
Burn == \E n \in Numbers : taken' = taken \cup {n} /\ UNCHANGED hands

(* The clients are gone; meanwhile more numbers may have been taken.       *)
Restart == hands' = Empty /\ \E more \in SUBSET Numbers : taken' = taken \cup more

Next == Burn \/ Restart \/ \E c \in Clients : Hand(c) \/ LetGo(c)

Spec == Init /\ [][Next]_dispenser

=============================================================================

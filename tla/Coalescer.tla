----------------------------- MODULE Coalescer -----------------------------
(***************************************************************************)
(* What RotationManager (src/rotation.h) promises: it "coalesces spammy    *)
(* rotation intents", then "dispatches exactly one job".  A later intent   *)
(* for an image takes the place of one that waits; one intent at a time    *)
(* leaves its place, and it has its effect once or is given up.  So an     *)
(* image goes from older to newer intents, and never back.  The manager    *)
(* and the shutdown in Sync implement it together.                         *)
(***************************************************************************)
EXTENDS Naturals

CONSTANTS
  Images,
  Intents,   \* numbered in the order they are asked for; 0 is none
  Lossy      \* a job may fail

VARIABLES
  slot,      \* the intent that waits, for each image
  last,      \* the last one that was queued
  hand,      \* the image and the intent of the job, or NoHand
  result     \* the intent each image shows

coalescer == <<slot, last, hand, result>>

NoHand == [id |-> 0, intent |-> 0]
Empty  == [i \in Images |-> 0]

Init == slot = Empty /\ last = Empty /\ hand = NoHand /\ result = Empty

Put(i) ==
  /\ \E o \in Intents : o > last[i] /\ last' = [last EXCEPT ![i] = o]
                                    /\ slot' = [slot EXCEPT ![i] = o]
  /\ UNCHANGED <<hand, result>>

Take(i) ==
  /\ hand = NoHand /\ slot[i] # 0
  /\ hand' = [id |-> i, intent |-> slot[i]]
  /\ slot' = [slot EXCEPT ![i] = 0]
  /\ UNCHANGED <<last, result>>

Apply ==
  /\ hand # NoHand
  /\ result' = [result EXCEPT ![hand.id] = hand.intent]
  /\ hand' = NoHand
  /\ UNCHANGED <<slot, last>>

GiveUp == Lossy /\ hand' = NoHand /\ UNCHANGED <<slot, last, result>>

Next == Apply \/ GiveUp \/ \E i \in Images : Put(i) \/ Take(i)

Spec == Init /\ [][Next]_coalescer

=============================================================================

-------------------------- MODULE CoalescerProofs --------------------------
(***************************************************************************)
(* What the coalescing queue is good for: theorems about Coalescer, for    *)
(* any images.                                                             *)
(***************************************************************************)
EXTENDS Coalescer, TLAPS

Numbered == Intents \subseteq Nat \ {0}

(* Nothing waits for an image and nothing is in hand for it.               *)
Idle(i) == slot[i] = 0 /\ (hand = NoHand \/ hand.id # i)

Orders == Intents \cup {0}

Types ==
  /\ slot \in [Images -> Orders] /\ last \in [Images -> Orders] /\ result \in [Images -> Orders]
  /\ hand \in {NoHand} \cup [id : Images, intent : Intents]

(* The last intent waits, or else is in hand, or else shows.               *)
InOrder ==
  \A i \in Images :
    /\ slot[i] \in {0, last[i]}
    /\ result[i] <= last[i]
    /\ hand # NoHand /\ hand.id = i =>
         /\ result[i] <= hand.intent /\ hand.intent <= last[i]
         /\ slot[i] = 0 => hand.intent = last[i]
    /\ ~Lossy /\ Idle(i) => result[i] = last[i]

LEMMA Hands ==
  ASSUME Numbered
  PROVE  /\ \A o \in Orders : o \in Nat
         /\ \A h \in [id : Images, intent : Intents] :
              h # NoHand /\ h.id \in Images /\ h.intent \in Nat /\ h.intent # 0
<1>1. \A o \in Orders : o \in Nat
  BY DEF Numbered, Orders
<1>2. \A n \in Intents : n \in Nat /\ n # 0
  BY DEF Numbered
<1>3. NoHand.intent = 0
  BY DEF NoHand
<1>4. \A h \in [id : Images, intent : Intents] : h.id \in Images /\ h.intent \in Intents
  OBVIOUS
<1> QED
  BY <1>1, <1>2, <1>3, <1>4, Zenon

LEMMA InitOrdered == ASSUME Numbered, Init PROVE Types /\ InOrder
  BY DEF Init, Types, InOrder, Empty, Orders, Idle

LEMMA PutOrdered ==
  ASSUME Numbered, Types, InOrder, NEW i \in Images, Put(i)
  PROVE  Types' /\ InOrder' /\ UNCHANGED result
<1>1. PICK o \in Intents : /\ o > last[i] /\ slot' = [slot EXCEPT ![i] = o]
                           /\ last' = [last EXCEPT ![i] = o]
  BY DEF Put
<1>2. UNCHANGED <<hand, result>> /\ o \in Nat /\ o # 0
  BY Hands DEF Put, Orders, Numbered
<1>3. \A j \in Images : last[j] \in Nat /\ result[j] \in Nat
  BY Hands DEF Types
<1>4. Types'
  BY <1>1, <1>2 DEF Types, Orders
<1>5. ASSUME NEW j \in Images
      PROVE  /\ slot'[j] \in {0, last'[j]} /\ last[j] <= last'[j]
             /\ slot'[j] = 0 => j # i /\ slot[j] = 0 /\ last'[j] = last[j]
  BY <1>1, <1>2, <1>3 DEF Types, InOrder
<1>6. hand # NoHand => hand.intent \in Nat
  BY Hands DEF Types
<1>7. InOrder'
  <2> SUFFICES ASSUME NEW j \in Images
               PROVE  /\ slot'[j] \in {0, last'[j]}
                      /\ result[j] <= last'[j]
                      /\ hand # NoHand /\ hand.id = j =>
                           /\ result[j] <= hand.intent /\ hand.intent <= last'[j]
                           /\ slot'[j] = 0 => hand.intent = last'[j]
                      /\ ~Lossy /\ Idle(j)' => result[j] = last'[j]
    BY <1>2 DEF InOrder
  <2>1. last'[j] \in Nat
    BY <1>4, Hands DEF Types
  <2>2. result[j] <= last'[j]
    BY <1>3, <1>5, <2>1 DEF InOrder
  <2>3. ASSUME hand # NoHand, hand.id = j
        PROVE  /\ result[j] <= hand.intent /\ hand.intent <= last'[j]
               /\ slot'[j] = 0 => hand.intent = last'[j]
    BY <1>3, <1>5, <1>6, <2>1, <2>3 DEF InOrder
  <2>4. ASSUME ~Lossy, Idle(j)' PROVE result[j] = last'[j]
    BY <1>2, <1>5, <2>4 DEF InOrder, Idle
  <2> QED
    BY <1>5, <2>2, <2>3, <2>4
<1> QED
  BY <1>2, <1>4, <1>7

LEMMA TakeOrdered ==
  ASSUME Numbered, Types, InOrder, NEW i \in Images, Take(i)
  PROVE  Types' /\ InOrder' /\ UNCHANGED result
<1>1. /\ hand = NoHand /\ slot[i] # 0 /\ hand' = [id |-> i, intent |-> slot[i]]
      /\ slot' = [slot EXCEPT ![i] = 0] /\ UNCHANGED <<last, result>>
  BY DEF Take
<1>2. slot[i] \in Intents /\ slot[i] = last[i] /\ last[i] \in Nat /\ result[i] \in Nat
  BY <1>1, Hands DEF Types, InOrder, Orders
<1>3. Types'
  BY <1>1, <1>2 DEF Types, Orders
<1>4. hand'.id = i /\ hand'.intent = last[i] /\ hand' # NoHand
  BY <1>1, <1>2 DEF NoHand
<1>5. slot'[i] = 0 /\ \A j \in Images \ {i} : slot'[j] = slot[j]
  BY <1>1 DEF Types
<1>6. InOrder'
  BY <1>1, <1>2, <1>4, <1>5 DEF InOrder, Idle
<1> QED
  BY <1>1, <1>3, <1>6

LEMMA ApplyOrdered ==
  ASSUME Numbered, Types, InOrder, Apply
  PROVE  Types' /\ InOrder' /\ \A i \in Images : result'[i] >= result[i]
<1>1. /\ hand # NoHand /\ hand' = NoHand /\ UNCHANGED <<slot, last>>
      /\ result' = [result EXCEPT ![hand.id] = hand.intent]
  BY DEF Apply
<1>2. hand.id \in Images /\ hand.intent \in Intents /\ hand.intent \in Nat
  BY <1>1, Hands DEF Types
<1>3. Types'
  BY <1>1, <1>2 DEF Types, Orders
<1>4. /\ result'[hand.id] = hand.intent
      /\ \A j \in Images \ {hand.id} : result'[j] = result[j]
  BY <1>1, <1>2 DEF Types
<1>5. \A j \in Images : result[j] \in Nat /\ last[j] \in Nat
  BY Hands DEF Types
<1>6. InOrder'
  BY <1>1, <1>2, <1>4, <1>5 DEF InOrder, Idle
<1>7. \A i \in Images : result'[i] >= result[i]
  BY <1>1, <1>2, <1>4, <1>5 DEF InOrder
<1> QED
  BY <1>3, <1>6, <1>7

LEMMA Ordered ==
  ASSUME Numbered, Types, InOrder, [Next]_coalescer
  PROVE  Types' /\ InOrder' /\ \A i \in Images : result'[i] >= result[i]
<1>1. \A i \in Images : result[i] >= result[i]
  BY Hands DEF Types
<1>2. CASE UNCHANGED coalescer
  BY <1>1, <1>2 DEF coalescer, Types, InOrder, Idle
<1>3. CASE GiveUp
  <2>1. Types'
    BY <1>3 DEF GiveUp, Types
  <2>2. InOrder'
    BY <1>3 DEF GiveUp, InOrder, Idle
  <2> QED
    BY <1>1, <1>3, <2>1, <2>2 DEF GiveUp
<1> QED
  BY <1>1, <1>2, <1>3, PutOrdered, TakeOrdered, ApplyOrdered DEF Next

LEMMA OrderedAlways == ASSUME Numbered PROVE Spec => [](Types /\ InOrder)
  BY InitOrdered, Ordered, PTL DEF Spec

Forward == \A i \in Images : result'[i] >= result[i]

(* An image never goes back to an older intent than the one it shows:      *)
(* rotations are not undone by earlier ones (rotation.h:14-16).            *)
THEOREM OnlyForward == ASSUME Numbered PROVE Spec => [][Forward]_coalescer
<1>1. Types /\ InOrder /\ [Next]_coalescer => [Forward]_coalescer
  BY Ordered DEF Forward
<1> QED
  BY <1>1, OrderedAlways, PTL DEF Spec

Remembered == \A i \in Images : Idle(i) => result[i] = last[i]

(* If no job fails, an image that nothing is waiting or in hand for shows  *)
(* the last intent that was queued (rotation.h:20-26).                     *)
THEOREM NothingForgotten == ASSUME Numbered, ~Lossy PROVE Spec => []Remembered
<1>1. InOrder => Remembered
  BY DEF InOrder, Remembered
<1> QED
  BY <1>1, OrderedAlways, PTL

=============================================================================

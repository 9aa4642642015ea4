---------------------------- MODULE LruRegistry ----------------------------
(***************************************************************************)
(* What each of the engine's three bounded tables promises: at most Cap    *)
(* keys, and when a new key needs room, the one least recently used goes.  *)
(* The tables implement it with slots, clock stamps and a linear scan;     *)
(* here the registry is just the keys in order of use, oldest first.       *)
(***************************************************************************)
EXTENDS Naturals, Sequences, SequencesExt

CONSTANTS Key, Cap

VARIABLE order

Has(k) == k \in ToSet(order)
Place(k) == CHOOSE n \in DOMAIN order : order[n] = k
Without(k) == RemoveAt(order, Place(k))

Init == order = <<>>

Use(k) ==
  /\ Has(k)
  /\ order' = Append(Without(k), k)

Add(k) ==
  /\ ~Has(k)
  /\ order' = Append(IF Len(order) = Cap THEN Tail(order) ELSE order, k)

Forget(k) ==
  /\ Has(k)
  /\ order' = Without(k)

Next == \E k \in Key : Use(k) \/ Add(k) \/ Forget(k)
Spec == Init /\ [][Next]_order
=============================================================================

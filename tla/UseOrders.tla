----------------------------- MODULE UseOrders -----------------------------
(***************************************************************************)
(* The order of use of a table whose entries carry stamps of when they     *)
(* were last used: the keys of the used slots, oldest first.               *)
(***************************************************************************)
EXTENDS Naturals, FiniteSets

Lists(f, used, stamp) ==
  /\ f \in [1..Cardinality(used) -> used]
  /\ \A m, n \in 1..Cardinality(used) : m < n => stamp[f[m]] < stamp[f[n]]

ByUse(used, stamp) == CHOOSE f \in [1..Cardinality(used) -> used] : Lists(f, used, stamp)
OrderOfUse(used, stamp, key) == [n \in 1..Cardinality(used) |-> key[ByUse(used, stamp)[n]]]
=============================================================================

--------------------------- MODULE MCShadowTable ---------------------------
(***************************************************************************)
(* ShadowTable on small instances.  The refinement mapping reads the       *)
(* registry's order off the slots: the contexts that have an entry, by the *)
(* tick their shadow was last stamped with.                                *)
(***************************************************************************)
EXTENDS ShadowTable, UseOrders, TLC

UsedSlots == {i \in Slots : gTab[i] # NoShadow}
UseOrder ==
  OrderOfUse(UsedSlots, [i \in UsedSlots |-> lastUse[gTab[i]]], [i \in UsedSlots |-> ctx[gTab[i]]])

Registry == INSTANCE LruRegistry WITH Key <- Addr, Cap <- MAXSH, order <- UseOrder

(* The table of slots, stamps and scans behaves as an LRU registry of      *)
(* contexts: a hit refreshes, a full table gives up exactly its oldest     *)
(* entry, and nothing else ever disappears but by sh_free.                 *)
ImplementsRegistry == Registry!Spec

Alike == Permutations(Threads) \cup Permutations(Addr) \cup Permutations(Shadows)
=============================================================================

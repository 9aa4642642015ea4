------------------------- MODULE ShadowTableProofs -------------------------
(***************************************************************************)
(* The safety invariants of ShadowTable hold for every number of threads,  *)
(* addresses, heap cells and slots.  IInv strengthens them with what each  *)
(* program counter says of its thread and with the rule that a context in  *)
(* its last call has no other caller, which is what keeps a dying context  *)
(* from getting its entry back between sh_free and the original call.      *)
(* From IInv and the soundness of the stamps (TableSound) the table is an  *)
(* LRU registry of contexts.                                               *)
(***************************************************************************)
EXTENDS MCShadowTable, RegistryProofs

EntriesAllocated == \A i \in Slots : gTab[i] # NoShadow => gTab[i] \in allocated

Control ==
  \A t \in Threads :
    /\ at[t] = NoAddr <=> pc[t] = "idle"
    /\ pc[t] = "idle" => op[t] = "use"
    /\ op[t] = "use" => pc[t] \notin {"drop", "dropped_dead", "native"}
    /\ held[t] # NoShadow <=> pc[t] \in {"call", "evicted", "evicted_dead"}

EndingAlone == \A t \in Threads : Ending(t) => OnlyCaller(t, at[t])

(* Of the two ways a context can end, only the destructor always drops its *)
(* entry first; SSLDisposeContext does not where the guard is set.         *)
EndedHasNoEntry ==
  \A t \in Threads :
    (op[t] = "finalize" /\ pc[t] \in {"native", "dropped_dead"}) => ~HasEntry(at[t])
NoneStale == CFContexts => NoStaleEntry

IInv ==
  /\ TypeOK
  /\ OneEntryPerContext
  /\ NoneStale
  /\ EntriesAllocated
  /\ HeldIsOurs
  /\ RefcountExact
  /\ FreedOnceUnreachable
  /\ Control
  /\ EndingAlone
  /\ EndedHasNoEntry

-----------------------------------------------------------------------------
(* Counting the hooks that hold a shadow.                                  *)

(* The number of holders is a natural, and zero when nobody holds it.      *)
LEMMA HoldersFinite ==
  ASSUME NEW s
  PROVE  /\ IsFiniteSet(Holders(s))
         /\ Cardinality(Holders(s)) \in Nat
         /\ Cardinality(Holders(s)) = 0 <=> Holders(s) = {}
<1>1. IsFiniteSet(Holders(s))
  BY ConstantsAssumption, FS_Subset DEF Holders
<1> QED BY <1>1, FS_CardinalityType, FS_EmptySet

(* Taking a reference adds one holder and moves no other.                  *)
LEMMA HoldersTake ==
  ASSUME NEW t \in Threads, NEW x \in Shadows,
         held \in [Threads -> Shadows \cup {NoShadow}],
         held[t] = NoShadow,
         held' = [held EXCEPT ![t] = x]
  PROVE  /\ Cardinality(Holders(x)') = Cardinality(Holders(x)) + 1
         /\ \A s \in Shadows \ {x} : Holders(s)' = Holders(s)
<1>1. Holders(x)' = Holders(x) \cup {t} /\ t \notin Holders(x)
  BY ConstantsAssumption DEF Holders
<1>2. \A s \in Shadows \ {x} : Holders(s)' = Holders(s)
  BY ConstantsAssumption DEF Holders
<1> QED BY <1>1, <1>2, HoldersFinite, FS_AddElement

(* Giving one back removes one holder and moves no other.                  *)
LEMMA HoldersGive ==
  ASSUME NEW t \in Threads, NEW x \in Shadows,
         held \in [Threads -> Shadows \cup {NoShadow}],
         held[t] = x,
         held' = [held EXCEPT ![t] = NoShadow]
  PROVE  /\ Cardinality(Holders(x)') = Cardinality(Holders(x)) - 1
         /\ Cardinality(Holders(x)) # 0
         /\ \A s \in Shadows \ {x} : Holders(s)' = Holders(s)
<1>1. Holders(x)' = Holders(x) \ {t} /\ t \in Holders(x)
  BY ConstantsAssumption DEF Holders
<1>2. \A s \in Shadows \ {x} : Holders(s)' = Holders(s)
  BY ConstantsAssumption DEF Holders
<1>3. Cardinality(Holders(x)) # 0
  BY <1>1, HoldersFinite
<1> QED BY <1>1, <1>2, <1>3, HoldersFinite, FS_RemoveElement

(* A shadow whose count is 1 has one reference: the table's or a hook's.   *)
LEMMA LastReference ==
  ASSUME RefcountExact, NEW s \in allocated, IsLast(s)
  PROVE  /\ InTable(s) => Holders(s) = {}
         /\ Holders(s) # {} => ~InTable(s) /\ Cardinality(Holders(s)) = 1
BY HoldersFinite DEF RefcountExact, IsLast

-----------------------------------------------------------------------------
LEMMA InitInv == Init => IInv
<1> SUFFICES ASSUME Init PROVE IInv
  OBVIOUS
<1> USE ConstantsAssumption DEF Init
<1>1. TypeOK
  BY DEF TypeOK, Where, Ops
<1>2. OneEntryPerContext /\ NoneStale /\ EntriesAllocated
  BY DEF OneEntryPerContext, NoneStale, NoStaleEntry, EntriesAllocated
<1>3. HeldIsOurs /\ RefcountExact /\ Control
  BY DEF HeldIsOurs, RefcountExact, Control
<1>4. FreedOnceUnreachable
  BY DEF FreedOnceUnreachable, Freeing
<1>5. EndingAlone /\ EndedHasNoEntry
  BY DEF EndingAlone, EndedHasNoEntry, Ending
<1> QED BY <1>1, <1>2, <1>3, <1>4, <1>5 DEF IInv

-----------------------------------------------------------------------------
(* Entering a hook, with a hit: what sh_get, SSLClose and the destructor   *)
(* have in common.                                                         *)
LEMMA TouchPreserves ==
  ASSUME IInv, NEW t \in Threads, NEW a \in Addr, NEW i \in Slots,
         NEW o \in Ops,
         held[t] = NoShadow, ~Freeing(t),
         Callable(a), (o = "finalize" \/ (~CFContexts /\ o = "dispose")) => OnlyCaller(t, a),
         FirstEntry(i, a), Touch(t, i), Enter(t, a, o, "call"), UNCHANGED live
  PROVE  IInv'
<1> DEFINE x == gTab[i]
<1> USE ConstantsAssumption
<1>0. x \in Shadows /\ x # NoShadow /\ ctx[x] = a /\ x \in allocated /\ a # NoAddr
  BY DEF IInv, TypeOK, FirstEntry, Entry, EntriesAllocated
<1>1. TypeOK'
  BY <1>0 DEF IInv, TypeOK, Touch, Enter, Where
<1>2. OneEntryPerContext' /\ NoneStale' /\ EntriesAllocated'
  BY DEF IInv, OneEntryPerContext, NoneStale, NoStaleEntry, EntriesAllocated, Touch
<1>3. HeldIsOurs'
  BY <1>0 DEF IInv, TypeOK, HeldIsOurs, Touch, Enter
<1>4. RefcountExact'
  <2> SUFFICES ASSUME NEW s \in allocated
               PROVE  refcount'[s] = Cardinality(Holders(s)') + (IF InTable(s)' THEN 1 ELSE 0)
    BY DEF RefcountExact, Touch
  <2>1. InTable(s)' = InTable(s)
    BY DEF InTable, Touch
  <2>2. refcount[s] = Cardinality(Holders(s)) + (IF InTable(s) THEN 1 ELSE 0)
    BY DEF IInv, RefcountExact
  <2>3. s \in Shadows /\ refcount[s] \in Nat
    BY DEF IInv, TypeOK
  <2>4. CASE s = x
    <3>1. Cardinality(Holders(s)') = Cardinality(Holders(s)) + 1
      BY <2>4, <1>0, HoldersTake DEF IInv, TypeOK, Touch
    <3>2. refcount'[s] = refcount[s] + 1
      BY <2>4, <2>3, <1>0 DEF IInv, TypeOK, Touch
    <3> QED BY <3>1, <3>2, <2>1, <2>2, HoldersFinite
  <2>5. CASE s # x
    <3>1. Holders(s)' = Holders(s)
      BY <2>5, <2>3, <1>0, HoldersTake DEF IInv, TypeOK, Touch
    <3>2. refcount'[s] = refcount[s]
      BY <2>5, <2>3, <1>0 DEF IInv, TypeOK, Touch
    <3> QED BY <3>1, <3>2, <2>1, <2>2
  <2> QED BY <2>4, <2>5
<1>5. FreedOnceUnreachable'
  <2> SUFFICES ASSUME NEW u \in Threads, Freeing(u)'
               PROVE  /\ doomed'[u] \in allocated'
                      /\ ~InTable(doomed[u])' /\ Holders(doomed[u])' = {}
                      /\ \A v \in Threads \ {u} : Freeing(v)' => doomed'[v] # doomed'[u]
    BY DEF FreedOnceUnreachable, Touch
  <2>1. \A v \in Threads : Freeing(v)' => v # t /\ Freeing(v)
    BY DEF Freeing, Enter, IInv, TypeOK
  <2>2. /\ doomed[u] \in allocated /\ ~InTable(doomed[u]) /\ Holders(doomed[u]) = {}
        /\ \A v \in Threads \ {u} : Freeing(v) => doomed[v] # doomed[u]
    BY <2>1 DEF IInv, FreedOnceUnreachable
  <2>3. doomed[u] \in Shadows \ {x}
    BY <2>2, <1>0 DEF InTable, IInv, TypeOK
  <2>4. Holders(doomed[u])' = {}
    BY <2>2, <2>3, <1>0, HoldersTake DEF IInv, TypeOK, Touch
  <2> QED BY <2>1, <2>2, <2>4 DEF Touch, InTable
<1>6. Control'
  BY <1>0 DEF IInv, TypeOK, Control, Touch, Enter
<1>7. EndingAlone'
  <2> SUFFICES ASSUME NEW u \in Threads, Ending(u)', NEW v \in Threads \ {u}
               PROVE  at'[v] # at'[u]
    BY DEF EndingAlone, OnlyCaller
  <2> QED BY DEF IInv, TypeOK, EndingAlone, Ending, OnlyCaller, Callable, Enter
<1>8. EndedHasNoEntry'
  BY DEF IInv, TypeOK, EndedHasNoEntry, Ending, HasEntry, Entry, Touch, Enter
<1> QED BY <1>1, <1>2, <1>3, <1>4, <1>5, <1>6, <1>7, <1>8 DEF IInv

(* Entering a hook, with a miss or without looking, on the way to sh_free, *)
(* or past it where the guard is set.                                      *)
LEMMA EnterDropPreserves ==
  ASSUME IInv, NEW t \in Threads, NEW a \in Addr, NEW o \in Ops \ {"use"},
         NEW where \in {"drop", "native"}, where = "native" => o # "finalize",
         held[t] = NoShadow,
         Callable(a), (o = "finalize" \/ (~CFContexts /\ o = "dispose")) => OnlyCaller(t, a),
         Enter(t, a, o, where), UNCHANGED <<live, table, held, doomed>>
  PROVE  IInv'
<1> USE ConstantsAssumption DEF table
<1>1. TypeOK'
  BY DEF IInv, TypeOK, Enter, Where
<1>2. OneEntryPerContext' /\ NoneStale' /\ EntriesAllocated'
  BY DEF IInv, OneEntryPerContext, NoneStale, NoStaleEntry, EntriesAllocated
<1>3. HeldIsOurs'
  BY DEF IInv, TypeOK, HeldIsOurs, Enter
<1>4. RefcountExact'
  BY DEF IInv, RefcountExact, Holders, InTable
<1>5. FreedOnceUnreachable'
  BY DEF IInv, TypeOK, FreedOnceUnreachable, Freeing, Enter, Holders, InTable
<1>6. Control'
  BY DEF IInv, TypeOK, Control, Enter
<1>7. EndingAlone'
  <2> SUFFICES ASSUME NEW u \in Threads, Ending(u)', NEW v \in Threads \ {u}
               PROVE  at'[v] # at'[u]
    BY DEF EndingAlone, OnlyCaller
  <2> QED BY DEF IInv, TypeOK, EndingAlone, Ending, OnlyCaller, Callable, Enter
<1>8. EndedHasNoEntry'
  BY DEF IInv, TypeOK, EndedHasNoEntry, Ending, HasEntry, Entry, Enter
<1> QED BY <1>1, <1>2, <1>3, <1>4, <1>5, <1>6, <1>7, <1>8 DEF IInv

(* Leaving a hook without touching the table.                              *)
LEMMA LeavePreserves ==
  ASSUME IInv, NEW t \in Threads, held[t] = NoShadow,
         Leave(t), UNCHANGED <<live, table, held, doomed>>
  PROVE  IInv'
<1> USE ConstantsAssumption DEF table, Leave
<1>1. TypeOK'
  BY DEF IInv, TypeOK, Enter, Where, Ops
<1>2. OneEntryPerContext' /\ NoneStale' /\ EntriesAllocated'
  BY DEF IInv, OneEntryPerContext, NoneStale, NoStaleEntry, EntriesAllocated
<1>3. HeldIsOurs'
  BY DEF IInv, TypeOK, HeldIsOurs, Enter
<1>4. RefcountExact'
  BY DEF IInv, RefcountExact, Holders, InTable
<1>5. FreedOnceUnreachable'
  BY DEF IInv, TypeOK, FreedOnceUnreachable, Freeing, Enter, Holders, InTable
<1>6. Control'
  BY DEF IInv, TypeOK, Control, Enter
<1>7. EndingAlone'
  <2> SUFFICES ASSUME NEW u \in Threads, Ending(u)', NEW v \in Threads \ {u}
               PROVE  at'[v] # at'[u]
    BY DEF EndingAlone, OnlyCaller
  <2>1. u # t /\ Ending(u) /\ at'[u] = at[u] /\ at[u] # NoAddr
    BY DEF IInv, TypeOK, Ending, Enter, Control
  <2> QED BY <2>1 DEF IInv, TypeOK, EndingAlone, OnlyCaller, Enter
<1>8. EndedHasNoEntry'
  BY DEF IInv, TypeOK, EndedHasNoEntry, Ending, HasEntry, Entry, Enter
<1> QED BY <1>1, <1>2, <1>3, <1>4, <1>5, <1>6, <1>7, <1>8 DEF IInv

LEMMA NewContextPreserves ==
  ASSUME IInv, NEW a \in Addr, NewContext(a)
  PROVE  IInv'
<1> USE ConstantsAssumption DEF table, thread, NewContext
<1>1. TypeOK'
  BY DEF IInv, TypeOK
<1>2. OneEntryPerContext' /\ NoneStale' /\ EntriesAllocated'
  BY DEF IInv, OneEntryPerContext, NoneStale, NoStaleEntry, EntriesAllocated
<1>3. HeldIsOurs' /\ Control'
  BY DEF IInv, HeldIsOurs, Control
<1>4. RefcountExact'
  BY DEF IInv, RefcountExact, Holders, InTable
<1>5. FreedOnceUnreachable'
  BY DEF IInv, FreedOnceUnreachable, Freeing, Holders, InTable
<1>7. EndingAlone'
  BY DEF IInv, EndingAlone, Ending, OnlyCaller
<1>8. EndedHasNoEntry'
  BY DEF IInv, EndedHasNoEntry, Ending, HasEntry, Entry
<1> QED BY <1>1, <1>2, <1>3, <1>4, <1>5, <1>7, <1>8 DEF IInv

(* sh_create makes an entry in slot i.  What the slot held before, if      *)
(* anything, loses the table's reference.                                  *)
LEMMA CreateFreePreserves ==
  ASSUME IInv, NEW t \in Threads, NEW a \in Addr, sh_create_free(t, a)
  PROVE  IInv'
<1> USE ConstantsAssumption DEF FreshRefs
<1>0. PICK i \in Slots, x \in Shadows \ allocated :
        FirstFreeSlot(i) /\ NewEntry(t, a, i, x) /\ refcount' = [refcount EXCEPT ![x] = 2]
  BY DEF sh_create_free
<1>c. /\ pc[t] = "idle" /\ Callable(a) /\ ~HasEntry(a) /\ Enter(t, a, "use", "call")
       /\ doomed' = doomed /\ held[t] = NoShadow /\ a # NoAddr /\ x # NoShadow
       /\ gTab[i] = NoShadow
  BY <1>0 DEF sh_create_free, IInv, Control, FirstFreeSlot
<1>1. TypeOK'
  BY <1>0, <1>c DEF IInv, TypeOK, NewEntry, Enter, Where, Ops
<1>f. \A s \in allocated : s \in Shadows /\ s # x /\ ctx'[s] = ctx[s] /\ refcount'[s] = refcount[s]
  BY <1>0 DEF IInv, TypeOK, NewEntry
<1>x. ctx'[x] = a /\ refcount'[x] = 2
  BY <1>0 DEF IInv, TypeOK, NewEntry
<1>g. \A j \in Slots : gTab'[j] = IF j = i THEN x ELSE gTab[j]
  BY <1>0 DEF IInv, TypeOK, NewEntry
<1>h. \A u \in Threads : held'[u] = IF u = t THEN x ELSE held[u]
  BY <1>0 DEF IInv, TypeOK, NewEntry
<1>2. OneEntryPerContext'
  BY <1>c, <1>f, <1>x, <1>g DEF IInv, OneEntryPerContext, EntriesAllocated, HasEntry, Entry
<1>3. NoneStale' /\ EntriesAllocated'
  BY <1>0, <1>c, <1>f, <1>x, <1>g DEF IInv, NoneStale, NoStaleEntry, EntriesAllocated, NewEntry, Callable
<1>4. HeldIsOurs'
  BY <1>0, <1>c, <1>f, <1>x, <1>h DEF IInv, TypeOK, HeldIsOurs, NewEntry, Enter
<1>5. RefcountExact'
  <2> SUFFICES ASSUME NEW s \in allocated'
               PROVE  refcount'[s] = Cardinality(Holders(s)') + (IF InTable(s)' THEN 1 ELSE 0)
    BY DEF RefcountExact
  <2>1. CASE s = x
    <3>1. Holders(x) = {}
      BY <1>c DEF IInv, HeldIsOurs, Holders
    <3>2. Cardinality(Holders(x)) = 0
      BY <3>1, HoldersFinite
    <3>3. held \in [Threads -> Shadows \cup {NoShadow}] /\ held' = [held EXCEPT ![t] = x]
      BY <1>0 DEF IInv, TypeOK, NewEntry
    <3>4. Cardinality(Holders(x)') = Cardinality(Holders(x)) + 1
      BY <3>3, <1>c, HoldersTake
    <3>5. Cardinality(Holders(x)') = 1
      BY <3>2, <3>4
    <3>6. InTable(x)'
      BY <1>g DEF InTable
    <3> QED BY <2>1, <3>5, <3>6, <1>x
  <2>2. CASE s # x
    <3>1. s \in allocated
      BY <2>2, <1>0 DEF NewEntry
    <3>2. Holders(s)' = Holders(s)
      BY <2>2, <3>1, <1>0, <1>c, <1>f, HoldersTake DEF IInv, TypeOK, NewEntry
    <3>3. InTable(s)' = InTable(s)
      BY <2>2, <3>1, <1>g, <1>c, <1>f DEF InTable, IInv, TypeOK
    <3> QED BY <3>1, <3>2, <3>3, <1>f DEF IInv, RefcountExact
  <2> QED BY <2>1, <2>2
<1>6. FreedOnceUnreachable'
  BY <1>0, <1>c, <1>f, <1>g, <1>h DEF IInv, TypeOK, FreedOnceUnreachable, Freeing, Enter, Holders, InTable, NewEntry
<1>7. Control'
  BY <1>0, <1>c, <1>h DEF IInv, TypeOK, Control, Enter
<1>8. EndingAlone'
  <2> SUFFICES ASSUME NEW u \in Threads, Ending(u)', NEW v \in Threads \ {u}
               PROVE  at'[v] # at'[u]
    BY DEF EndingAlone, OnlyCaller
  <2> QED BY <1>c DEF IInv, TypeOK, EndingAlone, Ending, OnlyCaller, Callable, Enter
<1>9. EndedHasNoEntry'
  <2> SUFFICES ASSUME NEW u \in Threads, op'[u] = "finalize", pc'[u] \in {"native", "dropped_dead"}
               PROVE  ~HasEntry(at[u])'
    BY DEF EndedHasNoEntry
  <2>1. u # t /\ op[u] = "finalize" /\ pc'[u] = pc[u] /\ at'[u] = at[u] /\ at[u] # a
    BY <1>c DEF IInv, TypeOK, Enter, Ending, Callable
  <2>2. ~HasEntry(at[u])
    BY <2>1 DEF IInv, EndedHasNoEntry
  <2> QED BY <2>1, <2>2, <1>f, <1>x, <1>g DEF HasEntry, Entry, IInv, EntriesAllocated
<1> QED BY <1>1, <1>2, <1>3, <1>4, <1>5, <1>6, <1>7, <1>8, <1>9 DEF IInv
(* The eviction: the victim v loses the table's reference, and is freed by *)
(* this thread only if that was its last.                                  *)
LEMMA CreateEvictPreserves ==
  ASSUME IInv, NEW t \in Threads, NEW a \in Addr, sh_create_evict(t, a)
  PROVE  IInv'
<1> USE ConstantsAssumption DEF FreshRefs
<1>0. PICK i \in Slots, x \in Shadows \ allocated :
        /\ LruSlot(i) /\ NewEntry(t, a, i, x)
        /\ refcount' = [refcount EXCEPT ![x] = 2, ![gTab[i]] = @ - 1]
        /\ doomed' = [doomed EXCEPT ![t] = gTab[i]]
        /\ Enter(t, a, "use", IF IsLast(gTab[i]) THEN "evicted_dead" ELSE "evicted")
  BY DEF sh_create_evict
<1>p. PICK v \in Shadows : v = gTab[i] /\ v # NoShadow /\ v \in allocated /\ v # x
  BY <1>0 DEF IInv, TypeOK, LruSlot, EntriesAllocated
<1>c. /\ pc[t] = "idle" /\ Callable(a) /\ ~HasEntry(a)
      /\ held[t] = NoShadow /\ a # NoAddr /\ x # NoShadow
      /\ v = gTab[i] /\ v # NoShadow /\ v \in allocated /\ v # x
  BY <1>0, <1>p DEF sh_create_evict, IInv, Control
<1>r. /\ refcount[v] = Cardinality(Holders(v)) + 1
      /\ InTable(v) /\ v \in Shadows
  BY <1>c DEF IInv, TypeOK, RefcountExact, InTable
<1>f. \A s \in allocated : s \in Shadows /\ s # x /\ ctx'[s] = ctx[s]
  BY <1>0 DEF IInv, TypeOK, NewEntry
<1>n. /\ refcount'[x] = 2 /\ refcount'[v] = refcount[v] - 1 /\ refcount[v] - 1 \in Nat
      /\ \A s \in allocated \ {v} : refcount'[s] = refcount[s]
  BY <1>0, <1>c, <1>r, <1>f, HoldersFinite DEF IInv, TypeOK
<1>1. TypeOK'
  <2>1. refcount' \in [Shadows -> Nat]
    BY <1>0, <1>c, <1>n, <1>r DEF IInv, TypeOK
  <2>2. doomed' \in [Threads -> Shadows \cup {NoShadow}]
    BY <1>0, <1>r DEF IInv, TypeOK
  <2> QED BY <2>1, <2>2, <1>0 DEF IInv, TypeOK, NewEntry, Enter, Where, Ops
<1>x. ctx'[x] = a
  BY <1>0 DEF IInv, TypeOK, NewEntry
<1>g. \A j \in Slots : gTab'[j] = IF j = i THEN x ELSE gTab[j]
  BY <1>0 DEF IInv, TypeOK, NewEntry
<1>h. held' = [held EXCEPT ![t] = x] /\ held \in [Threads -> Shadows \cup {NoShadow}]
  BY <1>0 DEF IInv, TypeOK, NewEntry
<1>v. ~InTable(v)' /\ Holders(v)' = Holders(v)
  <2>1. \A j \in Slots : gTab[j] = v => j = i
    BY <1>c DEF IInv, OneEntryPerContext
  <2> QED BY <2>1, <1>c, <1>r, <1>g, <1>h, HoldersTake DEF InTable
<1>2. OneEntryPerContext'
  BY <1>c, <1>f, <1>x, <1>g DEF IInv, OneEntryPerContext, EntriesAllocated, HasEntry, Entry
<1>3. NoneStale' /\ EntriesAllocated'
  BY <1>0, <1>c, <1>f, <1>x, <1>g DEF IInv, NoneStale, NoStaleEntry, EntriesAllocated, NewEntry, Callable
<1>4. HeldIsOurs'
  BY <1>0, <1>c, <1>f, <1>x, <1>h DEF IInv, TypeOK, HeldIsOurs, NewEntry, Enter
<1>5. RefcountExact'
  <2> SUFFICES ASSUME NEW s \in allocated'
               PROVE  refcount'[s] = Cardinality(Holders(s)') + (IF InTable(s)' THEN 1 ELSE 0)
    BY DEF RefcountExact
  <2>1. CASE s = x
    <3>1. Holders(x) = {}
      BY <1>c DEF IInv, HeldIsOurs, Holders
    <3>2. Cardinality(Holders(x)) = 0
      BY <3>1, HoldersFinite
    <3>4. Cardinality(Holders(x)') = Cardinality(Holders(x)) + 1
      BY <1>h, <1>c, HoldersTake
    <3>5. Cardinality(Holders(x)') = 1
      BY <3>2, <3>4
    <3>6. InTable(x)'
      BY <1>g DEF InTable
    <3> QED BY <2>1, <3>5, <3>6, <1>n
  <2>2. CASE s = v
    BY <2>2, <1>v, <1>r, <1>n, HoldersFinite
  <2>3. CASE s # x /\ s # v
    <3>1. s \in allocated
      BY <2>3, <1>0 DEF NewEntry
    <3>2. Holders(s)' = Holders(s)
      BY <2>3, <3>1, <1>h, <1>c, <1>f, HoldersTake
    <3>3. InTable(s)' = InTable(s)
      BY <2>3, <3>1, <1>g, <1>c, <1>f DEF InTable
    <3> QED BY <2>3, <3>1, <3>2, <3>3, <1>n DEF IInv, RefcountExact
  <2> QED BY <2>1, <2>2, <2>3
<1>6. FreedOnceUnreachable'
  <2> SUFFICES ASSUME NEW u \in Threads, Freeing(u)'
               PROVE  /\ doomed'[u] \in allocated'
                      /\ ~InTable(doomed[u])' /\ Holders(doomed[u])' = {}
                      /\ \A w \in Threads \ {u} : Freeing(w)' => doomed'[w] # doomed'[u]
    BY DEF FreedOnceUnreachable
  <2>1. \A w \in Threads \ {t} :
          /\ Freeing(w)' = Freeing(w) /\ doomed'[w] = doomed[w]
          /\ Freeing(w) => doomed[w] \in allocated /\ ~InTable(doomed[w]) /\ Holders(doomed[w]) = {}
    BY <1>0 DEF Freeing, Enter, IInv, TypeOK, FreedOnceUnreachable
  <2>2. doomed'[t] = v /\ (Freeing(t)' => IsLast(v))
    BY <1>0, <1>p DEF Freeing, Enter, IInv, TypeOK
  <2>3. IsLast(v) => Holders(v) = {}
    BY <1>r, HoldersFinite DEF IsLast
  <2>4. allocated' = allocated \cup {x}
    BY <1>0 DEF NewEntry
  <2>5. CASE u = t
    <3>1. doomed'[u] = v /\ IsLast(v)
      BY <2>5, <2>2
    <3>2. ~InTable(doomed[u])' /\ Holders(doomed[u])' = {}
      BY <3>1, <2>3, <1>v DEF InTable, Holders
    <3>3. \A w \in Threads \ {u} : Freeing(w)' => doomed'[w] # v
      BY <2>5, <2>1, <1>r
    <3> QED BY <3>1, <3>2, <3>3, <2>4, <1>c
  <2>6. CASE u # t
    <3>1. doomed[u] \in allocated /\ doomed[u] # v /\ doomed[u] # x
      BY <2>6, <2>1, <1>r, <1>f
    <3>2. Holders(doomed[u])' = Holders(doomed[u])
      BY <3>1, <2>6, <2>1, <1>h, <1>c, <1>f, HoldersTake
    <3>3. ~InTable(doomed[u])'
      BY <3>1, <2>6, <2>1, <1>g DEF InTable
    <3>4. \A w \in Threads \ {u} : Freeing(w)' => doomed'[w] # doomed'[u]
      BY <3>1, <2>6, <2>1, <2>2 DEF IInv, FreedOnceUnreachable
    <3> QED BY <3>1, <3>2, <3>3, <3>4, <2>6, <2>1, <2>4
  <2> QED BY <2>5, <2>6
<1>7. Control'
  BY <1>0, <1>c, <1>h DEF IInv, TypeOK, Control, Enter
<1>8. EndingAlone'
  <2> SUFFICES ASSUME NEW u \in Threads, Ending(u)', NEW w \in Threads \ {u}
               PROVE  at'[w] # at'[u]
    BY DEF EndingAlone, OnlyCaller
  <2> QED BY <1>0, <1>c DEF IInv, TypeOK, EndingAlone, Ending, OnlyCaller, Callable, Enter
<1>9. EndedHasNoEntry'
  <2> SUFFICES ASSUME NEW u \in Threads, op'[u] = "finalize", pc'[u] \in {"native", "dropped_dead"}
               PROVE  ~HasEntry(at[u])'
    BY DEF EndedHasNoEntry
  <2>1. u # t /\ op[u] = "finalize" /\ pc'[u] = pc[u] /\ at'[u] = at[u] /\ at[u] # a
    BY <1>0, <1>c DEF IInv, TypeOK, Enter, Ending, Callable
  <2>2. ~HasEntry(at[u])
    BY <2>1 DEF IInv, EndedHasNoEntry
  <2> QED BY <2>1, <2>2, <1>f, <1>x, <1>g DEF HasEntry, Entry, IInv, EntriesAllocated
<1> QED BY <1>1, <1>2, <1>3, <1>4, <1>5, <1>6, <1>7, <1>8, <1>9 DEF IInv

(* A shadow that somebody is freeing is out of everyone's reach, so taking *)
(* its cell away disturbs nothing.                                         *)
LEMMA CellFreed ==
  ASSUME IInv, NEW t \in Threads, Freeing(t),
         allocated' = allocated \ {doomed[t]}, doomed' = [doomed EXCEPT ![t] = NoShadow],
         pc' \in [Threads -> Where], ~Freeing(t)',
         \A u \in Threads \ {t} : pc'[u] = pc[u] /\ at'[u] = at[u],
         held[t] # NoShadow => at'[t] = at[t],
         UNCHANGED <<live, gTab, gClock, ctx, lastUse, refcount, held>>
  PROVE  /\ OneEntryPerContext' /\ NoneStale' /\ EntriesAllocated'
         /\ HeldIsOurs' /\ RefcountExact' /\ FreedOnceUnreachable'
<1>0. doomed[t] \in allocated /\ ~InTable(doomed[t]) /\ Holders(doomed[t]) = {}
  BY DEF IInv, FreedOnceUnreachable
<1>1. OneEntryPerContext' /\ NoneStale'
  BY DEF IInv, OneEntryPerContext, NoneStale, NoStaleEntry
<1>2. EntriesAllocated'
  BY <1>0 DEF IInv, EntriesAllocated, InTable
<1>3. HeldIsOurs'
  BY <1>0 DEF IInv, HeldIsOurs, Holders
<1>4. RefcountExact'
  BY DEF IInv, RefcountExact, Holders, InTable
<1>5. FreedOnceUnreachable'
  <2>1. \A u \in Threads : Freeing(u)' => u # t /\ Freeing(u) /\ doomed'[u] = doomed[u]
    BY DEF Freeing, IInv, TypeOK
  <2> QED BY <2>1 DEF IInv, FreedOnceUnreachable, Holders, InTable
<1> QED BY <1>1, <1>2, <1>3, <1>4, <1>5
LEMMA EvictedTailPreserves ==
  ASSUME IInv, NEW t \in Threads, evicted_tail(t)
  PROVE  IInv'
<1> USE ConstantsAssumption
<1>1. TypeOK'
  BY DEF IInv, TypeOK, evicted_tail, Goto, Where
<1>2. Control'
  BY DEF IInv, TypeOK, Control, evicted_tail, Goto
<1>3. EndingAlone'
  BY DEF IInv, EndingAlone, Ending, OnlyCaller, evicted_tail, Goto
<1>4. EndedHasNoEntry'
  BY DEF IInv, TypeOK, EndedHasNoEntry, Ending, HasEntry, Entry, evicted_tail, Goto
<1>5. /\ OneEntryPerContext' /\ NoneStale' /\ EntriesAllocated'
      /\ HeldIsOurs' /\ RefcountExact' /\ FreedOnceUnreachable'
  <2>1. CASE pc[t] = "evicted_dead"
    <3>1. ~Freeing(t)' /\ \A u \in Threads \ {t} : pc'[u] = pc[u] /\ at'[u] = at[u]
      BY DEF Freeing, evicted_tail, Goto, IInv, TypeOK
    <3>2. /\ Freeing(t)
          /\ allocated' = allocated \ {doomed[t]} /\ doomed' = [doomed EXCEPT ![t] = NoShadow]
          /\ at'[t] = at[t]
          /\ UNCHANGED <<live, gTab, gClock, ctx, lastUse, refcount, held>>
      BY <2>1 DEF Freeing, evicted_tail, Goto
    <3>3. pc' \in [Threads -> Where]
      BY <1>1 DEF TypeOK
    <3> QED BY <3>1, <3>2, <3>3, CellFreed
  <2>2. CASE pc[t] = "evicted"
    <3> USE <2>2 DEF evicted_tail, Goto
    <3>1. OneEntryPerContext' /\ NoneStale' /\ EntriesAllocated' /\ HeldIsOurs'
      BY DEF IInv, OneEntryPerContext, NoneStale, NoStaleEntry, EntriesAllocated, HeldIsOurs
    <3>2. RefcountExact'
      BY DEF IInv, RefcountExact, Holders, InTable
    <3>3. \A u \in Threads : Freeing(u)' => u # t /\ Freeing(u) /\ doomed'[u] = doomed[u]
      BY DEF Freeing, IInv, TypeOK
    <3>4. FreedOnceUnreachable'
      BY <3>3 DEF IInv, FreedOnceUnreachable, Holders, InTable
    <3> QED BY <3>1, <3>2, <3>4
  <2> QED BY <2>1, <2>2 DEF evicted_tail
<1> QED BY <1>1, <1>2, <1>3, <1>4, <1>5 DEF IInv

LEMMA FreeMemPreserves ==
  ASSUME IInv, NEW t \in Threads, sh_free_mem(t)
  PROVE  IInv'
<1> USE ConstantsAssumption DEF AfterRelease, AfterFree, Leave
<1>0. pc[t] \in {"released_dead", "dropped_dead"} /\ held[t] = NoShadow /\ at[t] # NoAddr
  BY DEF sh_free_mem, IInv, Control
<1>d. /\ at' \in [Threads -> Addr \cup {NoAddr}] /\ op' \in [Threads -> Ops] /\ pc' \in [Threads -> Where]
      /\ \/ pc'[t] = "idle" /\ at'[t] = NoAddr /\ op'[t] = "use"
         \/ /\ pc'[t] = "drop" /\ pc[t] = "released_dead"
            /\ at'[t] = at[t] /\ op'[t] = op[t] /\ op[t] # "use"
         \/ /\ pc'[t] = "native" /\ pc[t] = "dropped_dead"
            /\ at'[t] = at[t] /\ op'[t] = op[t] /\ op[t] # "use"
      /\ \A u \in Threads \ {t} : pc'[u] = pc[u] /\ at'[u] = at[u] /\ op'[u] = op[u]
  BY DEF sh_free_mem, Goto, Enter, IInv, TypeOK, Control, Where, Ops
<1>1. TypeOK'
  BY <1>d DEF IInv, TypeOK, sh_free_mem
<1>2. Control'
  BY <1>0, <1>d DEF IInv, Control, sh_free_mem
<1>3. EndingAlone'
  <2> SUFFICES ASSUME NEW u \in Threads, Ending(u)', NEW w \in Threads \ {u}
               PROVE  at'[w] # at'[u]
    BY DEF EndingAlone, OnlyCaller
  <2>1. Ending(u) /\ at'[u] = at[u] /\ at[u] # NoAddr
    BY <1>0, <1>d DEF Ending, IInv, Control
  <2> QED BY <2>1, <1>d DEF IInv, EndingAlone, OnlyCaller
<1>4. EndedHasNoEntry'
  BY <1>0, <1>d DEF IInv, EndedHasNoEntry, Ending, HasEntry, Entry, sh_free_mem
<1>5. /\ OneEntryPerContext' /\ NoneStale' /\ EntriesAllocated'
      /\ HeldIsOurs' /\ RefcountExact' /\ FreedOnceUnreachable'
  <2>1. Freeing(t) /\ ~Freeing(t)'
    BY <1>0, <1>d DEF Freeing
  <2>2. /\ allocated' = allocated \ {doomed[t]} /\ doomed' = [doomed EXCEPT ![t] = NoShadow]
        /\ UNCHANGED <<live, gTab, gClock, ctx, lastUse, refcount, held>>
    BY DEF sh_free_mem
  <2> QED BY <2>1, <2>2, <1>0, <1>d, CellFreed
<1> QED BY <1>1, <1>2, <1>3, <1>4, <1>5 DEF IInv

LEMMA DestroyPreserves ==
  ASSUME IInv, NEW t \in Threads, NativeDestroy(t)
  PROVE  IInv'
<1> USE ConstantsAssumption DEF table, NativeDestroy, Leave
<1>0. pc[t] = "native" /\ held[t] = NoShadow /\ (CFContexts => ~HasEntry(at[t]))
  BY DEF IInv, Control, EndedHasNoEntry, Ending
<1>1. TypeOK'
  BY DEF IInv, TypeOK, Enter, Where, Ops
<1>2. OneEntryPerContext' /\ EntriesAllocated'
  BY DEF IInv, OneEntryPerContext, EntriesAllocated
<1>3. NoneStale'
  BY <1>0 DEF IInv, NoneStale, NoStaleEntry, HasEntry, Entry
<1>4. HeldIsOurs'
  BY <1>0 DEF IInv, TypeOK, HeldIsOurs, Enter
<1>5. RefcountExact'
  BY DEF IInv, RefcountExact, Holders, InTable
<1>6. FreedOnceUnreachable'
  BY DEF IInv, TypeOK, FreedOnceUnreachable, Freeing, Enter, Holders, InTable
<1>7. Control'
  BY <1>0 DEF IInv, TypeOK, Control, Enter
<1>8. EndingAlone'
  <2> SUFFICES ASSUME NEW u \in Threads, Ending(u)', NEW w \in Threads \ {u}
               PROVE  at'[w] # at'[u]
    BY DEF EndingAlone, OnlyCaller
  <2>1. u # t /\ Ending(u) /\ at'[u] = at[u] /\ at[u] # NoAddr
    BY DEF IInv, TypeOK, Ending, Enter, Control
  <2> QED BY <2>1 DEF IInv, TypeOK, EndingAlone, OnlyCaller, Enter
<1>9. EndedHasNoEntry'
  BY DEF IInv, TypeOK, EndedHasNoEntry, Ending, HasEntry, Entry, Enter
<1> QED BY <1>1, <1>2, <1>3, <1>4, <1>5, <1>6, <1>7, <1>8, <1>9 DEF IInv
(* sh_release takes a hook's reference away.                               *)
LEMMA ReleasePreserves ==
  ASSUME IInv, NEW t \in Threads, sh_release(t)
  PROVE  IInv'
<1> USE ConstantsAssumption DEF AfterRelease, Leave
<1>0. pc[t] = "call" /\ held[t] # NoShadow /\ at[t] # NoAddr
  BY DEF sh_release, IInv, Control
<1>p. PICK v \in Shadows : v = held[t] /\ v \in allocated /\ v # NoShadow
  BY <1>0 DEF IInv, TypeOK, HeldIsOurs
<1>h. held' = [held EXCEPT ![t] = NoShadow] /\ held \in [Threads -> Shadows \cup {NoShadow}]
  BY DEF sh_release, IInv, TypeOK
<1>g. /\ Cardinality(Holders(v)') = Cardinality(Holders(v)) - 1
      /\ Cardinality(Holders(v)) # 0
      /\ \A s \in Shadows \ {v} : Holders(s)' = Holders(s)
  BY <1>p, <1>h, HoldersGive
<1>r. refcount[v] = Cardinality(Holders(v)) + (IF InTable(v) THEN 1 ELSE 0)
  BY <1>p DEF IInv, RefcountExact
<1>n. /\ refcount' = [refcount EXCEPT ![v] = @ - 1] /\ refcount'[v] = refcount[v] - 1
      /\ refcount[v] - 1 \in Nat
      /\ \A s \in Shadows \ {v} : refcount'[s] = refcount[s]
  BY <1>p, <1>g, <1>r, HoldersFinite DEF sh_release, IInv, TypeOK
<1>d. /\ at' \in [Threads -> Addr \cup {NoAddr}] /\ op' \in [Threads -> Ops] /\ pc' \in [Threads -> Where]
      /\ \A u \in Threads \ {t} : pc'[u] = pc[u] /\ at'[u] = at[u] /\ op'[u] = op[u] /\ doomed'[u] = doomed[u]
      /\ \/ pc'[t] = "idle" /\ at'[t] = NoAddr /\ op'[t] = "use"
         \/ pc'[t] = "drop" /\ at'[t] = at[t] /\ op'[t] = op[t] /\ op[t] # "use"
         \/ /\ pc'[t] = "released_dead" /\ at'[t] = at[t] /\ op'[t] = op[t]
            /\ IsLast(v) /\ doomed'[t] = v
  BY <1>p DEF sh_release, Goto, Enter, IInv, TypeOK, Where, Ops
<1>e. UNCHANGED <<live, gTab, gClock, allocated, ctx, lastUse>>
  BY DEF sh_release
<1>1. TypeOK'
  <2>1. refcount' \in [Shadows -> Nat]
    BY <1>n DEF IInv, TypeOK
  <2>2. doomed' \in [Threads -> Shadows \cup {NoShadow}]
    BY <1>p DEF sh_release, IInv, TypeOK
  <2> QED BY <2>1, <2>2, <1>d, <1>e, <1>h DEF IInv, TypeOK
<1>2. OneEntryPerContext' /\ NoneStale' /\ EntriesAllocated'
  BY <1>e DEF IInv, OneEntryPerContext, NoneStale, NoStaleEntry, EntriesAllocated
<1>3. HeldIsOurs'
  BY <1>d, <1>e, <1>h DEF IInv, HeldIsOurs
<1>4. RefcountExact'
  <2> SUFFICES ASSUME NEW s \in allocated
               PROVE  refcount'[s] = Cardinality(Holders(s)') + (IF InTable(s)' THEN 1 ELSE 0)
    BY <1>e DEF RefcountExact
  <2>1. InTable(s)' = InTable(s) /\ s \in Shadows
    BY <1>e DEF InTable, IInv, TypeOK
  <2>2. CASE s = v
    BY <2>1, <2>2, <1>g, <1>r, <1>n, HoldersFinite
  <2>3. CASE s # v
    BY <2>1, <2>3, <1>g, <1>n DEF IInv, RefcountExact
  <2> QED BY <2>2, <2>3
<1>5. FreedOnceUnreachable'
  <2> SUFFICES ASSUME NEW u \in Threads, Freeing(u)'
               PROVE  /\ doomed'[u] \in allocated
                      /\ ~InTable(doomed[u])' /\ Holders(doomed[u])' = {}
                      /\ \A w \in Threads \ {u} : Freeing(w)' => doomed'[w] # doomed'[u]
    BY <1>e DEF FreedOnceUnreachable
  <2>1. \A w \in Threads \ {t} :
          /\ Freeing(w)' = Freeing(w) /\ doomed'[w] = doomed[w]
          /\ Freeing(w) => doomed[w] \in allocated /\ ~InTable(doomed[w]) /\ Holders(doomed[w]) = {}
    BY <1>d DEF Freeing, IInv, FreedOnceUnreachable
  <2>2. Freeing(t)' => doomed'[t] = v /\ IsLast(v)
    BY <1>d DEF Freeing
  <2>3. IsLast(v) => ~InTable(v) /\ Cardinality(Holders(v)) = 1
    BY <1>r, <1>g, HoldersFinite DEF IsLast
  <2>4. Holders(v) # {}
    BY <1>p DEF Holders
  <2>5. CASE u = t
    <3>1. doomed'[u] = v /\ ~InTable(v) /\ Cardinality(Holders(v)) = 1
      BY <2>5, <2>2, <2>3
    <3>2. Cardinality(Holders(v)') = 0
      BY <3>1, <1>g
    <3>3. Holders(v)' = {}
      <4>1. Holders(v)' \subseteq Holders(v)
        BY <1>h, <1>p DEF Holders
      <4>2. IsFiniteSet(Holders(v)')
        BY <4>1, HoldersFinite, FS_Subset
      <4> QED BY <3>2, <4>2, FS_EmptySet
    <3>4. ~InTable(doomed[u])' /\ Holders(doomed[u])' = {}
      BY <3>1, <3>3, <1>e DEF InTable, Holders
    <3>5. \A w \in Threads \ {u} : Freeing(w)' => doomed'[w] # v
      BY <2>5, <2>1, <2>4
    <3> QED BY <3>1, <3>4, <3>5, <1>p
  <2>6. CASE u # t
    <3>1. doomed[u] \in allocated /\ doomed[u] # v /\ doomed'[u] = doomed[u] /\ doomed[u] \in Shadows
      BY <2>6, <2>1, <2>4 DEF IInv, TypeOK
    <3>2. Holders(doomed[u])' = {}
      BY <3>1, <2>6, <2>1, <1>g
    <3>3. ~InTable(doomed[u])'
      BY <3>1, <2>6, <2>1, <1>e DEF InTable
    <3>4. \A w \in Threads \ {u} : Freeing(w)' => doomed'[w] # doomed'[u]
      BY <3>1, <2>6, <2>1, <2>2 DEF IInv, FreedOnceUnreachable
    <3> QED BY <3>1, <3>2, <3>3, <3>4
  <2> QED BY <2>5, <2>6
<1>6. Control'
  BY <1>0, <1>d, <1>h DEF IInv, Control
<1>7. EndingAlone'
  <2> SUFFICES ASSUME NEW u \in Threads, Ending(u)', NEW w \in Threads \ {u}
               PROVE  at'[w] # at'[u]
    BY DEF EndingAlone, OnlyCaller
  <2>1. Ending(u) /\ at'[u] = at[u] /\ at[u] # NoAddr
    BY <1>0, <1>d DEF Ending, IInv, Control
  <2> QED BY <2>1, <1>d DEF IInv, EndingAlone, OnlyCaller
<1>8. EndedHasNoEntry'
  BY <1>0, <1>d, <1>e DEF IInv, EndedHasNoEntry, Ending, HasEntry, Entry
<1> QED BY <1>1, <1>2, <1>3, <1>4, <1>5, <1>6, <1>7, <1>8 DEF IInv
(* sh_free takes the table's reference away, or finds no entry.            *)
LEMMA FreePreserves ==
  ASSUME IInv, NEW t \in Threads, sh_free(t)
  PROVE  IInv'
<1> USE ConstantsAssumption DEF AfterFree, Leave
<1>0. pc[t] = "drop" /\ held[t] = NoShadow /\ at[t] # NoAddr /\ op[t] # "use"
  BY DEF sh_free, IInv, Control
<1>e. UNCHANGED <<live, gClock, allocated, ctx, lastUse, held>>
  BY DEF sh_free
<1>d. /\ at' \in [Threads -> Addr \cup {NoAddr}] /\ op' \in [Threads -> Ops] /\ pc' \in [Threads -> Where]
      /\ \A u \in Threads \ {t} : pc'[u] = pc[u] /\ at'[u] = at[u] /\ op'[u] = op[u] /\ doomed'[u] = doomed[u]
      /\ \/ pc'[t] = "idle" /\ at'[t] = NoAddr /\ op'[t] = "use"
         \/ pc'[t] \in {"native", "dropped_dead"} /\ at'[t] = at[t] /\ op'[t] = op[t]
  BY DEF sh_free, Goto, Enter, IInv, TypeOK, Where, Ops
<1>t. \/ /\ ~HasEntry(at[t]) /\ pc'[t] # "dropped_dead"
         /\ UNCHANGED <<gTab, refcount, doomed>>
      \/ \E i \in Slots :
         /\ FirstEntry(i, at[t]) /\ gTab' = [gTab EXCEPT ![i] = NoShadow]
         /\ refcount' = [refcount EXCEPT ![gTab[i]] = @ - 1]
         /\ \/ IsLast(gTab[i]) /\ doomed' = [doomed EXCEPT ![t] = gTab[i]]
            \/ doomed' = doomed /\ pc'[t] # "dropped_dead"
  BY DEF sh_free, Goto, Enter, IInv, TypeOK
<1>a. HeldIsOurs' /\ Control'
  BY <1>0, <1>d, <1>e DEF IInv, HeldIsOurs, Control
<1>b. EndingAlone'
  <2> SUFFICES ASSUME NEW u \in Threads, Ending(u)', NEW w \in Threads \ {u}
               PROVE  at'[w] # at'[u]
    BY DEF EndingAlone, OnlyCaller
  <2>1. Ending(u) /\ at'[u] = at[u] /\ at[u] # NoAddr
    BY <1>0, <1>d DEF Ending, IInv, Control
  <2> QED BY <2>1, <1>d DEF IInv, EndingAlone, OnlyCaller
<1>1. CASE ~HasEntry(at[t]) /\ pc'[t] # "dropped_dead" /\ UNCHANGED <<gTab, refcount, doomed>>
  <2>1. TypeOK'
    BY <1>1, <1>d, <1>e DEF IInv, TypeOK
  <2>2. OneEntryPerContext' /\ NoneStale' /\ EntriesAllocated'
    BY <1>1, <1>e DEF IInv, OneEntryPerContext, NoneStale, NoStaleEntry, EntriesAllocated
  <2>3. RefcountExact'
    BY <1>1, <1>e DEF IInv, RefcountExact, Holders, InTable
  <2>4. FreedOnceUnreachable'
    BY <1>1, <1>d, <1>e DEF IInv, FreedOnceUnreachable, Freeing, Holders, InTable
  <2>5. EndedHasNoEntry'
    BY <1>1, <1>d, <1>e DEF IInv, EndedHasNoEntry, Ending, HasEntry, Entry
  <2> QED BY <1>a, <1>b, <2>1, <2>2, <2>3, <2>4, <2>5 DEF IInv
<1>2. ASSUME NEW i \in Slots,
             FirstEntry(i, at[t]), gTab' = [gTab EXCEPT ![i] = NoShadow],
             refcount' = [refcount EXCEPT ![gTab[i]] = @ - 1],
             \/ IsLast(gTab[i]) /\ doomed' = [doomed EXCEPT ![t] = gTab[i]]
             \/ doomed' = doomed /\ pc'[t] # "dropped_dead"
      PROVE  IInv'
  <2>p. PICK v \in Shadows : v = gTab[i] /\ v # NoShadow /\ v \in allocated /\ ctx[v] = at[t]
    BY <1>2 DEF IInv, TypeOK, FirstEntry, Entry, EntriesAllocated
  <2>g. \A j \in Slots : gTab'[j] = IF j = i THEN NoShadow ELSE gTab[j]
    BY <1>2 DEF IInv, TypeOK
  <2>u. \A j \in Slots : (gTab[j] # NoShadow /\ ctx[gTab[j]] = at[t]) => j = i
    BY <2>p DEF IInv, OneEntryPerContext
  <2>v. InTable(v) /\ ~InTable(v)'
    BY <2>p, <2>g, <2>u DEF InTable
  <2>r. refcount[v] = Cardinality(Holders(v)) + 1
    BY <2>p, <2>v DEF IInv, RefcountExact
  <2>n. /\ refcount'[v] = refcount[v] - 1 /\ refcount[v] - 1 \in Nat
        /\ \A s \in Shadows \ {v} : refcount'[s] = refcount[s]
    BY <1>2, <2>p, <2>r, HoldersFinite DEF IInv, TypeOK
  <2>1. TypeOK'
    <3>1. refcount' \in [Shadows -> Nat]
      BY <1>2, <2>p, <2>n DEF IInv, TypeOK
    <3>2. gTab' \in [Slots -> Shadows \cup {NoShadow}]
      BY <1>2 DEF IInv, TypeOK
    <3>3. doomed' \in [Threads -> Shadows \cup {NoShadow}]
      BY <1>2, <2>p DEF IInv, TypeOK
    <3> QED BY <3>1, <3>2, <3>3, <1>d, <1>e DEF IInv, TypeOK
  <2>2. OneEntryPerContext' /\ NoneStale' /\ EntriesAllocated'
    BY <2>g, <1>e DEF IInv, OneEntryPerContext, NoneStale, NoStaleEntry, EntriesAllocated
  <2>3. RefcountExact'
    <3> SUFFICES ASSUME NEW s \in allocated
                 PROVE  refcount'[s] = Cardinality(Holders(s)') + (IF InTable(s)' THEN 1 ELSE 0)
      BY <1>e DEF RefcountExact
    <3>1. Holders(s)' = Holders(s) /\ s \in Shadows
      BY <1>e DEF Holders, IInv, TypeOK
    <3>2. CASE s = v
      BY <3>1, <3>2, <2>v, <2>r, <2>n, HoldersFinite
    <3>3. CASE s # v
      <4>1. InTable(s)' = InTable(s)
        BY <3>1, <3>3, <2>g, <2>p DEF InTable
      <4> QED BY <4>1, <3>1, <3>3, <2>n DEF IInv, RefcountExact
    <3> QED BY <3>2, <3>3
  <2>4. FreedOnceUnreachable'
    <3> SUFFICES ASSUME NEW u \in Threads, Freeing(u)'
                 PROVE  /\ doomed'[u] \in allocated
                        /\ ~InTable(doomed[u])' /\ Holders(doomed[u])' = {}
                        /\ \A w \in Threads \ {u} : Freeing(w)' => doomed'[w] # doomed'[u]
      BY <1>e DEF FreedOnceUnreachable
    <3>1. \A w \in Threads \ {t} :
            /\ Freeing(w)' = Freeing(w) /\ doomed'[w] = doomed[w]
            /\ Freeing(w) => doomed[w] \in allocated /\ ~InTable(doomed[w]) /\ Holders(doomed[w]) = {}
      BY <1>d DEF Freeing, IInv, FreedOnceUnreachable
    <3>2. Freeing(t)' => doomed'[t] = v /\ IsLast(v)
      BY <1>2, <1>d, <2>p DEF Freeing, IInv, TypeOK
    <3>3. IsLast(v) => Holders(v) = {}
      BY <2>r, HoldersFinite DEF IsLast
    <3>4. CASE u = t
      <4>1. doomed'[u] = v /\ Holders(v) = {}
        BY <3>4, <3>2, <3>3
      <4>2. ~InTable(doomed[u])' /\ Holders(doomed[u])' = {}
        BY <4>1, <2>v, <1>e DEF InTable, Holders
      <4>3. \A w \in Threads \ {u} : Freeing(w)' => doomed'[w] # v
        BY <3>4, <3>1, <2>v
      <4> QED BY <4>1, <4>2, <4>3, <2>p
    <3>5. CASE u # t
      <4>1. doomed[u] \in allocated /\ doomed[u] # v /\ doomed'[u] = doomed[u] /\ doomed[u] \in Shadows
        BY <3>5, <3>1, <2>v DEF IInv, TypeOK
      <4>2. Holders(doomed[u])' = {}
        BY <4>1, <3>5, <3>1, <1>e DEF Holders
      <4>3. ~InTable(doomed[u])'
        BY <4>1, <3>5, <3>1, <2>g DEF InTable, IInv, TypeOK
      <4>4. \A w \in Threads \ {u} : Freeing(w)' => doomed'[w] # doomed'[u]
        BY <4>1, <3>5, <3>1, <3>2 DEF IInv, FreedOnceUnreachable
      <4> QED BY <4>1, <4>2, <4>3, <4>4
    <3> QED BY <3>4, <3>5
  <2>5. EndedHasNoEntry'
    <3> SUFFICES ASSUME NEW u \in Threads, op'[u] = "finalize", pc'[u] \in {"native", "dropped_dead"}
                 PROVE  ~HasEntry(at[u])'
      BY DEF EndedHasNoEntry
    <3>1. CASE u = t
      BY <3>1, <1>0, <1>d, <1>e, <2>g, <2>u DEF HasEntry, Entry
    <3>2. CASE u # t
      <4>1. op[u] = "finalize" /\ pc'[u] = pc[u] /\ at'[u] = at[u]
        BY <3>2, <1>d
      <4> QED BY <4>1, <1>e, <2>g DEF HasEntry, Entry, IInv, EndedHasNoEntry
    <3> QED BY <3>1, <3>2
  <2> QED BY <1>a, <1>b, <2>1, <2>2, <2>3, <2>4, <2>5 DEF IInv
<1> QED BY <1>1, <1>2, <1>t

-----------------------------------------------------------------------------
LEMMA BeginFinalizePreserves ==
  ASSUME IInv, NEW t \in Threads, NEW a \in Addr,
         held[t] = NoShadow, ~Freeing(t), Callable(a), OnlyCaller(t, a), BeginFinalize(t, a)
  PROVE  IInv'
<1>1. "finalize" \in Ops \ {"use"}
  BY DEF Ops
<1>2. CASE \E i \in Slots : FirstEntry(i, a) /\ Touch(t, i) /\ Enter(t, a, "finalize", "call")
  BY <1>1, <1>2, TouchPreserves DEF BeginFinalize
<1>3. CASE Enter(t, a, "finalize", "drop") /\ UNCHANGED <<table, held, doomed>>
  BY <1>1, <1>3, EnterDropPreserves DEF BeginFinalize
<1> QED BY <1>2, <1>3 DEF BeginFinalize, LookThenDrop

LEMMA NextPreserves == IInv /\ [Next]_vars => IInv'
<1> SUFFICES ASSUME IInv, [Next]_vars PROVE IInv'
  OBVIOUS
<1>o. "use" \in Ops /\ "close" \in Ops \ {"use"} /\ "dispose" \in Ops \ {"use"}
  BY DEF Ops
<1>i. \A t \in Threads : pc[t] \in {"idle", "native"} => held[t] = NoShadow /\ ~Freeing(t)
  BY DEF IInv, Control, Freeing
<1>1. CASE UNCHANGED vars
  <2> USE <1>1 DEF vars, table, thread
  <2>1. TypeOK' /\ OneEntryPerContext' /\ NoneStale' /\ EntriesAllocated' /\ HeldIsOurs' /\ Control'
    BY DEF IInv, TypeOK, OneEntryPerContext, NoneStale, NoStaleEntry, EntriesAllocated, HeldIsOurs, Control
  <2>2. RefcountExact' /\ FreedOnceUnreachable'
    BY DEF IInv, RefcountExact, FreedOnceUnreachable, Freeing, Holders, InTable
  <2>3. EndingAlone' /\ EndedHasNoEntry'
    BY DEF IInv, EndingAlone, EndedHasNoEntry, Ending, OnlyCaller, HasEntry, Entry
  <2> QED BY <2>1, <2>2, <2>3 DEF IInv
<1>2. ASSUME NEW a \in Addr, NewContext(a) PROVE IInv'
  BY <1>2, NewContextPreserves
<1>3. ASSUME NEW t \in Threads, NEW a \in Addr, sh_get(t, a) PROVE IInv'
  BY <1>3, <1>o, <1>i, TouchPreserves DEF sh_get
<1>4. ASSUME NEW t \in Threads, NEW a \in Addr, sh_create_free(t, a) PROVE IInv'
  BY <1>4, CreateFreePreserves
<1>5. ASSUME NEW t \in Threads, NEW a \in Addr, sh_create_evict(t, a) PROVE IInv'
  BY <1>5, CreateEvictPreserves
<1>6. ASSUME NEW t \in Threads, NEW a \in Addr, SSLClose(t, a) PROVE IInv'
  <2>1. pc[t] = "idle" /\ Callable(a) /\ held[t] = NoShadow /\ ~Freeing(t) /\ UNCHANGED live
    BY <1>6, <1>i DEF SSLClose
  <2>2. CASE \E i \in Slots : FirstEntry(i, a) /\ Touch(t, i) /\ Enter(t, a, "close", "call")
    BY <2>1, <2>2, <1>o, TouchPreserves
  <2>3. CASE Enter(t, a, "close", "drop") /\ UNCHANGED <<table, held, doomed>>
    BY <2>1, <2>3, <1>o, EnterDropPreserves
  <2> QED BY <1>6, <2>2, <2>3 DEF SSLClose, LookThenDrop
<1>7. ASSUME NEW t \in Threads, NEW a \in Addr, SSLDisposeContext(t, a) PROVE IInv'
  <2>1. PICK where \in {"drop", "native"} : Enter(t, a, "dispose", where)
    BY <1>7 DEF SSLDisposeContext
  <2> QED BY <1>7, <1>o, <1>i, <2>1, EnterDropPreserves DEF SSLDisposeContext
<1>8. ASSUME NEW t \in Threads, NEW a \in Addr, CFRelease(t, a) PROVE IInv'
  BY <1>8, <1>i, BeginFinalizePreserves DEF CFRelease
<1>9. ASSUME NEW t \in Threads, NativeRelease(t) PROVE IInv'
  <2>1. held[t] = NoShadow /\ ~Freeing(t)
    BY <1>9, <1>i DEF NativeRelease
  <2>2. CASE Leave(t) /\ UNCHANGED <<live, table, held, doomed>>
    BY <2>1, <2>2, LeavePreserves
  <2>3. CASE Callable(at[t]) /\ OnlyCaller(t, at[t]) /\ BeginFinalize(t, at[t])
    <3>1. at[t] \in Addr
      BY <2>3 DEF Callable, IInv, TypeOK
    <3> QED BY <2>1, <2>3, <3>1, BeginFinalizePreserves
  <2> QED BY <1>9, <2>2, <2>3 DEF NativeRelease
<1>10. ASSUME NEW t \in Threads,
              evicted_tail(t) \/ sh_release(t) \/ sh_free(t) \/ sh_free_mem(t) \/ NativeDestroy(t)
       PROVE IInv'
  BY <1>10, EvictedTailPreserves, ReleasePreserves, FreePreserves, FreeMemPreserves, DestroyPreserves
<1> QED BY <1>1, <1>2, <1>3, <1>4, <1>5, <1>6, <1>7, <1>8, <1>9, <1>10 DEF Next, Call, Continue

(* Whatever the threads do, IInv always holds.                             *)
THEOREM Invariance == Spec => []IInv
<1>1. Init => IInv
  BY InitInv
<1>2. IInv /\ [Next]_vars => IInv'
  BY NextPreserves
<1> QED BY <1>1, <1>2, PTL DEF Spec

(* The table's variables always have their types; in particular no         *)
(* sequence of hooks takes a reference count below zero.                   *)
THEOREM TypeCorrect == Spec => []TypeOK
<1>1. IInv => TypeOK
  BY DEF IInv
<1> QED BY <1>1, Invariance, PTL

(* From 10.8 on, where the destructor is hooked and not gated, no entry    *)
(* outlives its context, so no later context at the same address inherits  *)
(* a dead connection's state, whatever ended the context and wherever: by  *)
(* SSLClose, SSLDisposeContext or CFRelease alone, under the guard or not. *)
(* Before 10.8 SSLDisposeContext under the guard leaves the entry.         *)
THEOREM NeverStale ==
  ASSUME CFContexts PROVE Spec => [](NoStaleEntry /\ OneEntryPerContext)
<1>1. IInv => NoStaleEntry /\ OneEntryPerContext
  BY DEF IInv, NoneStale
<1> QED BY <1>1, Invariance, PTL

(* A hook's shadow is allocated and its own context's for as long as the   *)
(* hook holds it, counts are exact, and a shadow is freed by one thread    *)
(* once nobody can reach it.                                               *)
THEOREM ReferencesSafe == Spec => [](HeldIsOurs /\ ReferencesExact)
<1>1. IInv => HeldIsOurs /\ ReferencesExact
  BY DEF IInv, ReferencesExact
<1> QED BY <1>1, Invariance, PTL

-----------------------------------------------------------------------------
(* The table as a registry.  A slot's stamp and context, for the slots in  *)
(* use; a sound table has neither twice, and no stamp of the future.       *)
UsedOf(tab) == {i \in Slots : tab[i] # NoShadow}
StampOf(tab, use) == [i \in UsedOf(tab) |-> use[tab[i]]]
CtxOf(tab, cx) == [i \in UsedOf(tab) |-> cx[tab[i]]]
OrderOf(tab, cx, use) == OrderOfUse(UsedOf(tab), StampOf(tab, use), CtxOf(tab, cx))

Sound(tab, cx, use, clock) ==
  /\ tab \in [Slots -> Shadows \cup {NoShadow}]
  /\ Clocked(UsedOf(tab), StampOf(tab, use), CtxOf(tab, cx), Addr, clock)

LEMMA SlotsAre ==
  ASSUME NEW tab, NEW cx, NEW use
  PROVE  \A i \in UsedOf(tab) : StampOf(tab, use)[i] = use[tab[i]] /\ CtxOf(tab, cx)[i] = cx[tab[i]]
BY DEF StampOf, CtxOf

LEMMA SoundTells ==
  ASSUME NEW tab, NEW cx, NEW use, NEW clock, Sound(tab, cx, use, clock)
  PROVE  /\ Table(UsedOf(tab), StampOf(tab, use), CtxOf(tab, cx), Addr)
         /\ tab \in [Slots -> Shadows \cup {NoShadow}] /\ clock \in Nat
         /\ \A i \in UsedOf(tab) : cx[tab[i]] \in Addr /\ use[tab[i]] \in Nat /\ use[tab[i]] <= clock
         /\ \A i, j \in UsedOf(tab) : cx[tab[i]] = cx[tab[j]] => i = j
<1>1. PICK u, st, key : u = UsedOf(tab) /\ st = StampOf(tab, use) /\ key = CtxOf(tab, cx)
  OBVIOUS
<1>2. Clocked(u, st, key, Addr, clock) /\ tab \in [Slots -> Shadows \cup {NoShadow}]
  BY <1>1 DEF Sound
<1>3. \A i \in u : st[i] = use[tab[i]] /\ key[i] = cx[tab[i]]
  BY <1>1, SlotsAre
<1>4. \A i \in u : cx[tab[i]] \in Addr /\ use[tab[i]] \in Nat /\ use[tab[i]] <= clock
  BY <1>2, <1>3 DEF Clocked, Table, Stamped
<1>5. \A i, j \in u : cx[tab[i]] = cx[tab[j]] => i = j
  BY <1>2, <1>3 DEF Clocked, Table
<1>6. Table(u, st, key, Addr) /\ clock \in Nat
  BY <1>2 DEF Clocked
<1> QED BY <1>1, <1>2, <1>4, <1>5, <1>6

(* Slot x is stamped with the next tick, and holds an entry of context a.  *)
Filled(x, a, tab, cx, use, clock, tab2, cx2, use2) ==
  /\ x \in Slots /\ a \in Addr
  /\ \A i \in UsedOf(tab) \ {x} : cx[tab[i]] # a
  /\ tab2 \in [Slots -> Shadows \cup {NoShadow}]
  /\ tab2[x] # NoShadow /\ cx2[tab2[x]] = a /\ use2[tab2[x]] = clock + 1
  /\ \A i \in Slots \ {x} : tab2[i] = tab[i]
  /\ \A i \in UsedOf(tab) \ {x} : cx2[tab[i]] = cx[tab[i]] /\ use2[tab[i]] = use[tab[i]]

LEMMA FilledOrder ==
  ASSUME NEW tab, NEW cx, NEW use, NEW clock, Sound(tab, cx, use, clock), NEW x, NEW a,
         NEW tab2, NEW cx2, NEW use2, Filled(x, a, tab, cx, use, clock, tab2, cx2, use2)
  PROVE  /\ Sound(tab2, cx2, use2, clock + 1)
         /\ x \in UsedOf(tab) =>
              OrderOf(tab2, cx2, use2)
                = Append(RemoveAt(OrderOf(tab, cx, use), PlaceIn(OrderOf(tab, cx, use), cx[tab[x]])), a)
         /\ x \notin UsedOf(tab) => OrderOf(tab2, cx2, use2) = Append(OrderOf(tab, cx, use), a)
<1>1. /\ UsedOf(tab2) = UsedOf(tab) \cup {x} /\ x \in UsedOf(tab2)
      /\ \A i \in UsedOf(tab) \ {x} : tab2[i] = tab[i] /\ i \in UsedOf(tab2)
  BY DEF UsedOf, Filled
<1>2. PICK u, st, key, st2, key2 :
        /\ u = UsedOf(tab) /\ st = StampOf(tab, use) /\ key = CtxOf(tab, cx)
        /\ st2 = StampOf(tab2, use2) /\ key2 = CtxOf(tab2, cx2)
  OBVIOUS
<1>3. /\ \A i \in u : st[i] = use[tab[i]] /\ key[i] = cx[tab[i]]
      /\ \A i \in u \cup {x} : st2[i] = use2[tab2[i]] /\ key2[i] = cx2[tab2[i]]
  BY <1>1, <1>2 DEF StampOf, CtxOf
<1>4. Recorded(x, a, u, st, key, Addr, clock, st2, key2)
  <2>1. Clocked(u, st, key, Addr, clock) /\ a \in Addr
    BY <1>2 DEF Sound, Filled
  <2>2. st2[x] = clock + 1 /\ key2[x] = a
    BY <1>3 DEF Filled
  <2>3. \A i \in u \ {x} : key[i] # a
    BY <1>2, <1>3 DEF Filled
  <2>4. ASSUME NEW i \in u \ {x} PROVE st2[i] = st[i] /\ key2[i] = key[i]
    <3>1. tab2[i] = tab[i] /\ cx2[tab[i]] = cx[tab[i]] /\ use2[tab[i]] = use[tab[i]]
      BY <1>1, <1>2 DEF Filled
    <3> QED BY <1>3, <3>1
  <2> QED BY <2>1, <2>2, <2>3, <2>4 DEF Recorded
<1>5. Clocked(u \cup {x}, st2, key2, Addr, clock + 1)
  BY <1>4, RecordedClocked
<1>6. /\ key2[x] = a
      /\ x \in u => Refills(x, u, st, key, Addr, st2, key2)
      /\ x \notin u => Grows(x, u, st, key, Addr, st2, key2)
  BY <1>4, RecordedUsed
<1>7. ASSUME x \in u
      PROVE  OrderOfUse(u \cup {x}, st2, key2)
               = Append(RemoveAt(OrderOfUse(u, st, key), PlaceIn(OrderOfUse(u, st, key), key[x])), a)
  <2>1. u \cup {x} = u
    BY <1>7
  <2>2. OrderOfUse(u, st2, key2)
          = Append(RemoveAt(OrderOfUse(u, st, key), PlaceIn(OrderOfUse(u, st, key), key[x])), key2[x])
    BY <1>6, <1>7, OrderRefilled
  <2> QED BY <1>6, <2>1, <2>2
<1>8. ASSUME x \notin u
      PROVE  OrderOfUse(u \cup {x}, st2, key2) = Append(OrderOfUse(u, st, key), a)
  <2>1. OrderOfUse(u \cup {x}, st2, key2) = Append(OrderOfUse(u, st, key), key2[x])
    BY <1>6, <1>8, OrderGrown
  <2> QED BY <1>6, <2>1
<1>9. Sound(tab2, cx2, use2, clock + 1)
  BY <1>1, <1>2, <1>5 DEF Sound, Filled
<1>10. OrderOf(tab2, cx2, use2) = OrderOfUse(u \cup {x}, st2, key2) /\ OrderOf(tab, cx, use) = OrderOfUse(u, st, key)
  BY <1>1, <1>2 DEF OrderOf
<1>11. x \in u => key[x] = cx[tab[x]]
  BY <1>3
<1> QED BY <1>2, <1>7, <1>8, <1>9, <1>10, <1>11

(* Slot x is emptied.                                                      *)
LEMMA EmptiedOrder ==
  ASSUME NEW tab, NEW cx, NEW use, NEW clock, Sound(tab, cx, use, clock), NEW x \in UsedOf(tab),
         NEW tab2, tab2 = [tab EXCEPT ![x] = NoShadow]
  PROVE  /\ Sound(tab2, cx, use, clock)
         /\ OrderOf(tab2, cx, use) = RemoveAt(OrderOf(tab, cx, use), PlaceIn(OrderOf(tab, cx, use), cx[tab[x]]))
<1>1. /\ tab2 \in [Slots -> Shadows \cup {NoShadow}] /\ UsedOf(tab2) = UsedOf(tab) \ {x}
      /\ \A i \in UsedOf(tab) \ {x} : tab2[i] = tab[i]
  BY DEF Sound, UsedOf
<1>2. PICK u, st, key, st2, key2 :
        /\ u = UsedOf(tab) /\ st = StampOf(tab, use) /\ key = CtxOf(tab, cx)
        /\ st2 = StampOf(tab2, use) /\ key2 = CtxOf(tab2, cx)
  OBVIOUS
<1>3. /\ \A i \in u : st[i] = use[tab[i]] /\ key[i] = cx[tab[i]]
      /\ \A i \in u \ {x} : st2[i] = use[tab2[i]] /\ key2[i] = cx[tab2[i]]
  BY <1>1, <1>2 DEF StampOf, CtxOf
<1>4. Drops(x, u, st, key, Addr, clock, st2, key2)
  <2>1. Clocked(u, st, key, Addr, clock) /\ x \in u
    BY <1>2 DEF Sound
  <2>2. ASSUME NEW i \in u \ {x} PROVE st2[i] = st[i] /\ key2[i] = key[i]
    <3>1. i \in u /\ tab2[i] = tab[i]
      BY <1>1, <1>2
    <3> QED BY <1>3, <3>1
  <2> QED BY <2>1, <2>2 DEF Drops
<1>5. /\ Clocked(u \ {x}, st2, key2, Addr, clock)
      /\ OrderOfUse(u \ {x}, st2, key2) = RemoveAt(OrderOfUse(u, st, key), PlaceIn(OrderOfUse(u, st, key), key[x]))
  BY <1>4, DroppedOrder
<1>6. OrderOf(tab2, cx, use) = OrderOfUse(u \ {x}, st2, key2) /\ OrderOf(tab, cx, use) = OrderOfUse(u, st, key)
  BY <1>1, <1>2 DEF OrderOf
<1>7. Sound(tab2, cx, use, clock)
  BY <1>1, <1>2, <1>5 DEF Sound
<1>8. key[x] = cx[tab[x]]
  BY <1>2, <1>3
<1> QED BY <1>5, <1>6, <1>7, <1>8

-----------------------------------------------------------------------------
LEMMA RegistryIs ==
  ASSUME NEW k
  PROVE  /\ Registry!Has(k) <=> k \in ToSet(UseOrder)
         /\ Registry!Without(k) = RemoveAt(UseOrder, PlaceIn(UseOrder, k))
BY DEF Registry!Has, Registry!ToSet, ToSet, Registry!Without, Registry!RemoveAt, RemoveAt, Registry!Place, PlaceIn

LEMMA UseOrderIs ==
  /\ UseOrder = OrderOf(gTab, ctx, lastUse) /\ UseOrder' = OrderOf(gTab', ctx', lastUse')
  /\ UsedSlots = UsedOf(gTab)
<1>1. UseOrder = OrderOf(gTab, ctx, lastUse) /\ UsedSlots = UsedOf(gTab)
  BY DEF UseOrder, UsedSlots, OrderOf, UsedOf, StampOf, CtxOf
<1>2. UseOrder' = OrderOf(gTab', ctx', lastUse')
  BY DEF UseOrder, UsedSlots, OrderOf, UsedOf, StampOf, CtxOf
<1> QED BY <1>1, <1>2

TableSound == Sound(gTab, ctx, lastUse, gClock)

(* What the order of a sound table is.                                     *)
LEMMA OrderOfTable ==
  ASSUME TableSound
  PROVE  /\ Cardinality(UsedSlots) \in Nat /\ UseOrder \in Seq(Addr) /\ Len(UseOrder) = Cardinality(UsedSlots)
         /\ \A a : Registry!Has(a) <=> HasEntry(a)
<1>1. PICK u, st, key : u = UsedSlots /\ st = StampOf(gTab, lastUse) /\ key = CtxOf(gTab, ctx)
  OBVIOUS
<1>2. Table(u, st, key, Addr) /\ UseOrder = OrderOfUse(u, st, key)
  BY <1>1, SoundTells, UseOrderIs DEF TableSound, OrderOf
<1>3. /\ Cardinality(u) \in Nat /\ UseOrder \in Seq(Addr) /\ Len(UseOrder) = Cardinality(u)
      /\ ToSet(UseOrder) = {key[i] : i \in u}
  BY <1>2, OrderFacts
<1>4. \A i \in u : key[i] = ctx[gTab[i]]
  BY <1>1, UseOrderIs, SlotsAre
<1>5. \A a : a \in ToSet(UseOrder) <=> HasEntry(a)
  <2>1. \A a : a \in ToSet(UseOrder) <=> \E i \in u : ctx[gTab[i]] = a
    BY <1>3, <1>4
  <2> QED BY <1>1, <2>1 DEF HasEntry, Entry, UsedSlots
<1> QED BY <1>1, <1>3, <1>5, RegistryIs

LEMMA SlotsCount == IsFiniteSet(Slots) /\ Cardinality(Slots) = MAXSH /\ MAXSH \in Nat
<1>1. MAXSH \in Nat /\ MAXSH # 0
  BY ConstantsAssumption
<1>2. IsFiniteSet(1..MAXSH) /\ Cardinality(1..MAXSH) = IF 1 > MAXSH THEN 0 ELSE MAXSH - 1 + 1
  BY <1>1, FS_Interval
<1>3. Cardinality(1..MAXSH) = MAXSH
  BY <1>1, <1>2
<1> QED BY <1>1, <1>2, <1>3 DEF Slots

(* A hit is a use.                                                         *)
LEMMA TouchIsUse ==
  ASSUME IInv, TableSound, NEW t \in Threads, NEW a \in Addr, NEW i \in Slots,
         FirstEntry(i, a), Touch(t, i)
  PROVE  TableSound' /\ Registry!Use(a)
<1>1. /\ gTab' = gTab /\ ctx' = ctx /\ gClock' = gClock + 1
      /\ lastUse' = [lastUse EXCEPT ![gTab[i]] = gClock + 1]
  BY DEF Touch
<1>2. gTab[i] # NoShadow /\ ctx[gTab[i]] = a /\ i \in UsedOf(gTab)
  BY DEF FirstEntry, Entry, UsedOf
<1>3. /\ gTab \in [Slots -> Shadows \cup {NoShadow}] /\ lastUse \in [Shadows -> Nat]
      /\ \A j \in UsedOf(gTab) : gTab[j] \in Shadows
      /\ \A j \in UsedOf(gTab) \ {i} : ctx[gTab[j]] # a
  <2>1. gTab \in [Slots -> Shadows \cup {NoShadow}] /\ lastUse \in [Shadows -> Nat]
    BY DEF IInv, TypeOK
  <2>2. \A j \in UsedOf(gTab) : gTab[j] \in Shadows
    BY <2>1 DEF UsedOf
  <2>3. \A j, k \in UsedOf(gTab) : ctx[gTab[j]] = ctx[gTab[k]] => j = k
    BY SoundTells DEF TableSound
  <2> QED BY <1>2, <2>1, <2>2, <2>3
<1>4. \A j \in UsedOf(gTab) \ {i} : lastUse'[gTab[j]] = lastUse[gTab[j]]
  BY <1>1, <1>2, <1>3
<1>5. lastUse'[gTab[i]] = gClock + 1
  BY <1>1, <1>2, <1>3
<1>6. Filled(i, a, gTab, ctx, lastUse, gClock, gTab', ctx', lastUse')
  BY <1>1, <1>2, <1>3, <1>4, <1>5 DEF Filled
<1>7. Sound(gTab', ctx', lastUse', gClock')
  BY <1>1, <1>6, FilledOrder DEF TableSound
<1>8. UseOrder' = Append(RemoveAt(UseOrder, PlaceIn(UseOrder, a)), a)
  BY <1>2, <1>6, FilledOrder, UseOrderIs DEF TableSound
<1>9. Registry!Has(a)
  BY <1>2, OrderOfTable DEF HasEntry, Entry
<1> QED BY <1>7, <1>8, <1>9, RegistryIs DEF TableSound, Registry!Use

(* The stamps an eviction compares have not wrapped: the code's scan finds *)
(* the slot used longest ago.                                              *)
LEMMA Unwrapped ==
  ASSUME NEW n \in Nat, n < ClockMod
  PROVE  n % ClockMod = n
BY ConstantsAssumption

LEMMA LruIsOldest ==
  ASSUME MaxTicks <= ClockMod, TableSound, gClock < MaxTicks, NEW i \in Slots, LruSlot(i)
  PROVE  /\ UsedSlots = Slots
         /\ \A j \in Slots : lastUse[gTab[i]] <= lastUse[gTab[j]]
<1>1. UsedSlots = Slots
  BY DEF LruSlot, UsedSlots
<1>2. \A j \in Slots : lastUse[gTab[j]] \in Nat /\ lastUse[gTab[j]] <= gClock /\ gClock \in Nat
  BY <1>1, SoundTells, UseOrderIs DEF TableSound
<1>3. \A j \in Slots : lastUse[gTab[j]] < ClockMod
  BY <1>2, ConstantsAssumption
<1>4. \A j \in Slots : Stamp(j) = lastUse[gTab[j]]
  BY <1>2, <1>3, Unwrapped DEF Stamp
<1> QED BY <1>1, <1>4 DEF LruSlot

(* A new entry is an addition, in a full table at the cost of the oldest.  *)
LEMMA NewEntryIsAdd ==
  ASSUME MaxTicks <= ClockMod, IInv, TableSound, NEW t \in Threads, NEW a \in Addr, NEW i \in Slots,
         NEW s \in Shadows \ allocated, gClock < MaxTicks, ~HasEntry(a),
         FirstFreeSlot(i) \/ LruSlot(i), NewEntry(t, a, i, s)
  PROVE  TableSound' /\ Registry!Add(a)
<1>1. /\ gTab' = [gTab EXCEPT ![i] = s] /\ ctx' = [ctx EXCEPT ![s] = a] /\ gClock' = gClock + 1
      /\ lastUse' = [lastUse EXCEPT ![s] = gClock + 1]
  BY DEF NewEntry
<1>2. /\ gTab \in [Slots -> Shadows \cup {NoShadow}] /\ lastUse \in [Shadows -> Nat] /\ ctx \in [Shadows -> Addr \cup {NoAddr}]
      /\ s # NoShadow
      /\ \A j \in UsedOf(gTab) : gTab[j] \in Shadows /\ gTab[j] # s
  BY ConstantsAssumption DEF IInv, TypeOK, UsedOf, EntriesAllocated
<1>3. \A j \in UsedOf(gTab) : ctx[gTab[j]] # a
  BY DEF HasEntry, Entry, UsedOf
<1>4. gTab' \in [Slots -> Shadows \cup {NoShadow}] /\ gTab'[i] = s /\ \A j \in Slots \ {i} : gTab'[j] = gTab[j]
  BY <1>1, <1>2
<1>5. /\ ctx'[s] = a /\ lastUse'[s] = gClock + 1
      /\ \A j \in UsedOf(gTab) : ctx'[gTab[j]] = ctx[gTab[j]] /\ lastUse'[gTab[j]] = lastUse[gTab[j]]
  BY <1>1, <1>2
<1>6. Filled(i, a, gTab, ctx, lastUse, gClock, gTab', ctx', lastUse')
  BY <1>2, <1>3, <1>4, <1>5 DEF Filled
<1>7. Sound(gTab', ctx', lastUse', gClock')
  BY <1>1, <1>6, FilledOrder DEF TableSound
<1>8. /\ i \in UsedSlots => UseOrder' = Append(RemoveAt(UseOrder, PlaceIn(UseOrder, ctx[gTab[i]])), a)
      /\ i \notin UsedSlots => UseOrder' = Append(UseOrder, a)
  BY <1>6, FilledOrder, UseOrderIs DEF TableSound
<1>9. ~Registry!Has(a)
  BY OrderOfTable
<1>10. UsedSlots \in SUBSET Slots /\ Len(UseOrder) = Cardinality(UsedSlots)
  BY OrderOfTable DEF UsedSlots
<1>11. CASE FirstFreeSlot(i)
  <2>1. i \notin UsedSlots
    BY <1>11 DEF FirstFreeSlot, UsedSlots
  <2>2. Len(UseOrder) # MAXSH
    BY <1>10, <2>1, SlotsCount, FS_Subset
  <2>3. UseOrder' = Append(UseOrder, a)
    BY <1>8, <2>1
  <2> QED BY <1>7, <1>9, <2>2, <2>3 DEF TableSound, Registry!Add
<1>12. CASE LruSlot(i)
  <2>1. UsedSlots = Slots /\ \A j \in Slots : lastUse[gTab[i]] <= lastUse[gTab[j]]
    BY <1>12, LruIsOldest
  <2>2. Len(UseOrder) = MAXSH
    BY <1>10, <2>1, SlotsCount
  <2>3. RemoveAt(UseOrder, PlaceIn(UseOrder, ctx[gTab[i]])) = Tail(UseOrder)
    <3>1. PICK u, st, key : u = UsedSlots /\ st = StampOf(gTab, lastUse) /\ key = CtxOf(gTab, ctx)
      OBVIOUS
    <3>2. Table(u, st, key, Addr) /\ UseOrder = OrderOfUse(u, st, key)
      BY <3>1, SoundTells, UseOrderIs DEF TableSound, OrderOf
    <3>3. \A j \in u : st[j] = lastUse[gTab[j]] /\ key[j] = ctx[gTab[j]]
      BY <3>1, UseOrderIs, SlotsAre
    <3>4. i \in u /\ \A j \in u : st[i] <= st[j]
      BY <2>1, <3>1, <3>3
    <3>5. RemoveAt(OrderOfUse(u, st, key), PlaceIn(OrderOfUse(u, st, key), key[i])) = Tail(OrderOfUse(u, st, key))
      BY <3>2, <3>4, OldestIsFirst
    <3> QED BY <3>2, <3>3, <3>4, <3>5
  <2>4. UseOrder' = Append(Tail(UseOrder), a)
    BY <1>8, <2>1, <2>3
  <2> QED BY <1>7, <1>9, <2>2, <2>4 DEF TableSound, Registry!Add
<1> QED BY <1>11, <1>12

(* Dropping an entry forgets its context.                                  *)
LEMMA DropIsForget ==
  ASSUME TableSound, NEW a \in Addr, NEW i \in Slots, FirstEntry(i, a),
         gTab' = [gTab EXCEPT ![i] = NoShadow], UNCHANGED <<ctx, lastUse, gClock>>
  PROVE  TableSound' /\ Registry!Forget(a)
<1>1. i \in UsedOf(gTab) /\ ctx[gTab[i]] = a
  BY DEF FirstEntry, Entry, UsedOf
<1>2. /\ Sound(gTab', ctx, lastUse, gClock)
      /\ OrderOf(gTab', ctx, lastUse) = RemoveAt(OrderOf(gTab, ctx, lastUse), PlaceIn(OrderOf(gTab, ctx, lastUse), ctx[gTab[i]]))
  BY <1>1, EmptiedOrder DEF TableSound
<1>3. TableSound'
  BY <1>2 DEF TableSound
<1>4. UseOrder' = RemoveAt(UseOrder, PlaceIn(UseOrder, a))
  BY <1>1, <1>2, UseOrderIs
<1>5. Registry!Has(a)
  BY <1>1, OrderOfTable DEF HasEntry, Entry, UsedOf
<1> QED BY <1>3, <1>4, <1>5, RegistryIs DEF Registry!Forget

LEMMA TableStays ==
  ASSUME TableSound, UNCHANGED <<gTab, ctx, lastUse, gClock>>
  PROVE  TableSound' /\ UNCHANGED UseOrder
<1>1. UseOrder' = UseOrder
  BY UseOrderIs
<1> QED BY <1>1 DEF TableSound

(* Every step of the table is a step of the registry or leaves its order.  *)
LEMMA TableSteps ==
  ASSUME MaxTicks <= ClockMod, IInv, TableSound, [Next]_vars
  PROVE  TableSound' /\ (Registry!Next \/ UNCHANGED UseOrder)
<1> DEFINE Goal == TableSound' /\ (Registry!Next \/ UNCHANGED UseOrder)
<1>1. ASSUME NEW t \in Threads, NEW a \in Addr, \E i \in Slots : FirstEntry(i, a) /\ Touch(t, i)
      PROVE  Goal
  BY <1>1, TouchIsUse DEF Registry!Next
<1>2. ASSUME UNCHANGED <<gTab, ctx, lastUse, gClock>> PROVE Goal
  BY <1>2, TableStays
<1>3. ASSUME NEW t \in Threads, NEW a \in Addr, NEW o, LookThenDrop(t, a, o) PROVE Goal
  <2>1. CASE \E i \in Slots : FirstEntry(i, a) /\ Touch(t, i)
    BY <1>1, <2>1
  <2>2. CASE UNCHANGED <<table, held, doomed>>
    BY <1>2, <2>2 DEF table
  <2> QED BY <1>3, <2>1, <2>2 DEF LookThenDrop
<1>4. ASSUME NEW t \in Threads, NEW a \in Addr, BeginFinalize(t, a) PROVE Goal
  <2>1. CASE LookThenDrop(t, a, "finalize")
    BY <1>3, <2>1
  <2>2. CASE UNCHANGED <<table, held, doomed>>
    BY <1>2, <2>2 DEF table
  <2> QED BY <1>4, <2>1, <2>2 DEF BeginFinalize
<1>5. ASSUME NEW t \in Threads, NEW a \in Addr, sh_create_free(t, a) \/ sh_create_evict(t, a) PROVE Goal
  <2>1. PICK i \in Slots, s \in Shadows \ allocated :
          (FirstFreeSlot(i) \/ LruSlot(i)) /\ NewEntry(t, a, i, s)
    BY <1>5 DEF sh_create_free, sh_create_evict
  <2>2. gClock < MaxTicks /\ ~HasEntry(a)
    BY <1>5 DEF sh_create_free, sh_create_evict
  <2>3. TableSound' /\ Registry!Add(a)
    BY <2>1, <2>2, NewEntryIsAdd
  <2> QED BY <2>3 DEF Registry!Next
<1>6. ASSUME NEW t \in Threads, NEW a \in Addr, Call(t, a) PROVE Goal
  <2>1. CASE sh_get(t, a)
    BY <1>1, <2>1 DEF sh_get
  <2>2. CASE sh_create_free(t, a) \/ sh_create_evict(t, a)
    BY <1>5, <2>2
  <2>3. CASE SSLClose(t, a)
    BY <1>3, <2>3 DEF SSLClose
  <2>4. CASE SSLDisposeContext(t, a)
    BY <1>2, <2>4 DEF SSLDisposeContext, table
  <2>5. CASE CFRelease(t, a)
    BY <1>4, <2>5 DEF CFRelease
  <2> QED BY <1>6, <2>1, <2>2, <2>3, <2>4, <2>5 DEF Call
<1>7. ASSUME NEW t \in Threads, sh_free(t) PROVE Goal
  <2>1. CASE UNCHANGED gTab
    BY <1>2, <1>7, <2>1 DEF sh_free
  <2>2. CASE \E i \in Slots : FirstEntry(i, at[t]) /\ gTab' = [gTab EXCEPT ![i] = NoShadow]
    <3>1. PICK i \in Slots : FirstEntry(i, at[t]) /\ gTab' = [gTab EXCEPT ![i] = NoShadow]
      BY <2>2
    <3>2. UNCHANGED <<ctx, lastUse, gClock>>
      BY <1>7 DEF sh_free
    <3>3. at[t] \in Addr
      BY <1>7 DEF sh_free, IInv, TypeOK, Control
    <3>4. TableSound' /\ Registry!Forget(at[t])
      BY <3>1, <3>2, <3>3, DropIsForget
    <3> QED BY <3>3, <3>4 DEF Registry!Next
  <2> QED BY <1>7, <2>1, <2>2 DEF sh_free
<1>8. ASSUME NEW t \in Threads, NativeRelease(t) PROVE Goal
  <2>1. CASE UNCHANGED <<live, table, held, doomed>>
    BY <1>2, <2>1 DEF table
  <2>2. CASE Callable(at[t]) /\ BeginFinalize(t, at[t])
    <3>1. at[t] \in Addr
      BY <2>2 DEF Callable, IInv, TypeOK
    <3> QED BY <1>4, <2>2, <3>1
  <2> QED BY <1>8, <2>1, <2>2 DEF NativeRelease
<1>9. ASSUME NEW t \in Threads, evicted_tail(t) \/ sh_release(t) \/ sh_free_mem(t) \/ NativeDestroy(t) PROVE Goal
  <2>1. UNCHANGED <<gTab, ctx, lastUse, gClock>>
    BY <1>9 DEF evicted_tail, sh_release, sh_free_mem, NativeDestroy, table
  <2> QED BY <1>2, <2>1
<1>10. CASE (\E a \in Addr : NewContext(a)) \/ UNCHANGED vars
  <2>1. UNCHANGED <<gTab, ctx, lastUse, gClock>>
    BY <1>10 DEF NewContext, table, vars
  <2> QED BY <1>2, <2>1
<1> QED BY <1>6, <1>7, <1>8, <1>9, <1>10 DEF Next, Continue

LEMMA TableBegins == Init => TableSound /\ Registry!Init
<1> SUFFICES ASSUME Init PROVE TableSound /\ Registry!Init
  OBVIOUS
<1>1. /\ gTab \in [Slots -> Shadows \cup {NoShadow}] /\ gClock = 0
      /\ UsedOf(gTab) = {} /\ UsedSlots = {}
  BY DEF Init, UsedOf, UsedSlots
<1>2. Clocked({}, StampOf(gTab, lastUse), CtxOf(gTab, ctx), Addr, gClock)
  BY <1>1, FS_EmptySet DEF Clocked, Table, Stamped
<1>3. TableSound
  BY <1>1, <1>2 DEF TableSound, Sound
<1>4. UseOrder \in Seq(Addr) /\ Len(UseOrder) = 0
  BY <1>1, <1>3, OrderOfTable, FS_EmptySet
<1> QED BY <1>3, <1>4, EmptySeq DEF Registry!Init

(* The shadow table behaves as a registry of MAXSH contexts in order of    *)
(* use (sh_get, sh_create and sh_free under gLock), for every number of    *)
(* threads and slots: a full one gives up the context used longest ago,    *)
(* and only sh_free forgets one.  It does so for as long as the unsigned   *)
(* gClock has not wrapped; after that the scan compares stamps that have.  *)
THEOREM TableIsRegistry ==
  ASSUME MaxTicks <= ClockMod PROVE Spec => ImplementsRegistry
<1>1. Init => TableSound /\ Registry!Init
  BY TableBegins
<1>2. IInv /\ TableSound /\ [Next]_vars => TableSound' /\ [Registry!Next]_UseOrder
  BY TableSteps
<1> QED BY <1>1, <1>2, Invariance, PTL DEF Spec, ImplementsRegistry, Registry!Spec
=============================================================================

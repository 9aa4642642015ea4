---------------------------- MODULE ShadowTable ----------------------------
(***************************************************************************)
(* The engine's table of shadow entries, one per SSLContextRef, shared by  *)
(* every thread of a process (src/aquatransport_engine.c, gTab and gLock). *)
(*                                                                         *)
(* A hook enters with sh_get or sh_create, which find or make the entry    *)
(* and take a reference under gLock, works on the entry without the lock,  *)
(* and leaves with sh_release.  SSLClose, SSLDisposeContext and, from      *)
(* 10.8, the context's destructor drop the entry with sh_free.  A full     *)
(* table evicts its least recently used entry.  An entry is keyed by the   *)
(* ADDRESS of its context, and the allocator hands the address of a freed  *)
(* context to a later one.                                                 *)
(*                                                                         *)
(* Each critical section of gLock is one action; what a thread does after  *)
(* unlocking (freeing, logging) is an action of its own.  A definition     *)
(* named X_fault is X with a fault seeded: substituted for X it must break *)
(* a property, which shows that the property depends on the code.          *)
(***************************************************************************)
EXTENDS Integers, FiniteSets

CONSTANTS
  Addr,        \* addresses the allocator may give an SSLContext
  Shadows,     \* heap cells calloc may give a Shadow
  Threads,     \* threads of the process that call Secure Transport
  NoAddr, NoShadow,
  MAXSH,       \* slots of the table (256 in the code)
  ClockMod,    \* gClock is an unsigned of this modulus (2^32 in the code)
  MaxTicks,    \* bound: ticks of gClock a behaviour explores
  CFContexts,  \* TRUE from 10.8 on, where SSLContext is a CF type with a destructor
  Debug        \* the "debug" flag of flags.txt

ASSUME ConstantsAssumption ==
  /\ MAXSH \in Nat \ {0}
  /\ ClockMod \in Nat \ {0}
  /\ MaxTicks \in Nat
  /\ CFContexts \in BOOLEAN
  /\ Debug \in BOOLEAN
  /\ IsFiniteSet(Threads)
  /\ NoAddr \notin Addr
  /\ NoShadow \notin Shadows

Slots == 1..MAXSH

VARIABLES
  live,       \* addresses at which a native context exists
  gTab,       \* slot -> shadow in it, or NoShadow
  gClock,     \* ticks so far; the code's counter is its value modulo ClockMod
  allocated,  \* heap cells that hold a Shadow
  ctx,        \* Shadow.ctx
  lastUse,    \* Shadow.lastUse, as the tick it was stamped with
  refcount,   \* Shadow.refcount
  pc,         \* where a thread is in the hook it runs
  op,         \* which kind of hook that is
  at,         \* the context it was called on
  held,       \* the shadow it holds a reference to, its local variable s
  doomed      \* the shadow it is about to free or log, sh_free_mem's argument

table  == <<gTab, gClock, allocated, ctx, lastUse, refcount>>
thread == <<pc, op, at, held, doomed>>
vars   == <<live, table, thread>>

Init ==
  /\ live = {}
  /\ gTab = [i \in Slots |-> NoShadow]
  /\ gClock = 0
  /\ allocated = {}
  /\ ctx = [s \in Shadows |-> NoAddr]
  /\ lastUse = [s \in Shadows |-> 0]
  /\ refcount = [s \in Shadows |-> 0]
  /\ pc = [t \in Threads |-> "idle"]
  /\ op = [t \in Threads |-> "use"]
  /\ at = [t \in Threads |-> NoAddr]
  /\ held = [t \in Threads |-> NoShadow]
  /\ doomed = [t \in Threads |-> NoShadow]

-----------------------------------------------------------------------------
(* Reading the table.                                                      *)

Entry(i, a) == gTab[i] # NoShadow /\ ctx[gTab[i]] = a
HasEntry(a) == \E i \in Slots : Entry(i, a)
FirstEntry(i, a) == Entry(i, a) /\ \A j \in 1..(i-1) : ~Entry(j, a)

FirstFreeSlot(i) ==
  /\ gTab[i] = NoShadow
  /\ \A j \in 1..(i-1) : gTab[j] # NoShadow

(* The scan compares the stamps as the code stores them, modulo ClockMod,  *)
(* and keeps the lowest slot among equals.                                 *)
Stamp(i) == lastUse[gTab[i]] % ClockMod
LruSlot_lowest(i) == i = 1 /\ \A j \in Slots : gTab[j] # NoShadow
LruSlot(i) ==
  /\ \A j \in Slots : gTab[j] # NoShadow
  /\ \A j \in Slots : Stamp(i) <= Stamp(j)
  /\ \A j \in 1..(i-1) : Stamp(i) < Stamp(j)

(* The count a fresh shadow starts with: the table's and its maker's.      *)
FreshRefs == 2

(* Taking a reference away from a shadow whose count is 1 is its end.      *)
IsLast_never(s) == FALSE
IsLast(s) == refcount[s] = 1

(* A context is in its last call: nobody else may legally name it.  From   *)
(* 10.8 that call is the destructor; before, it is SSLDisposeContext.      *)
Ending(t) == op[t] = "finalize" \/ (~CFContexts /\ op[t] = "dispose")
Callable(a) == a \in live /\ \A t \in Threads : at[t] = a => ~Ending(t)
OnlyCaller(t, a) == \A u \in Threads \ {t} : at[u] # a

(* A thread here is one call.  A call that Security makes while it works   *)
(* on a peer's trust comes from inside another one, a handshake's or       *)
(* SSLCopyPeerTrust's, on the same thread, and that thread's guard is set. *)
UnderGuard(t) == \E u \in Threads \ {t} : pc[u] = "call" /\ op[u] = "use"

-----------------------------------------------------------------------------
(* Moving a thread through a hook.  A thread that becomes idle is no       *)
(* longer inside a call on any context.                                    *)
Enter(t, a, o, where) ==
  /\ pc' = [pc EXCEPT ![t] = where]
  /\ at' = [at EXCEPT ![t] = a]
  /\ op' = [op EXCEPT ![t] = o]

Leave(t) == Enter(t, NoAddr, "use", "idle")
Goto(t, where) ==
  /\ pc' = [pc EXCEPT ![t] = where]
  /\ UNCHANGED <<at, op>>

(* What follows sh_release, and what follows sh_free.                      *)
AfterRelease(t) == IF op[t] = "use" THEN Leave(t) ELSE Goto(t, "drop")
AfterFree(t)    == IF op[t] = "close" THEN Leave(t) ELSE Goto(t, "native")

-----------------------------------------------------------------------------
(* The native stack makes a context at a free address.                     *)
NewContext(a) ==
  /\ a \notin live
  /\ live' = live \cup {a}
  /\ UNCHANGED <<table, thread>>

Touch_uncounted(t, i) ==
  /\ gClock' = gClock + 1
  /\ lastUse' = [lastUse EXCEPT ![gTab[i]] = gClock + 1]
  /\ held' = [held EXCEPT ![t] = gTab[i]]
  /\ UNCHANGED <<gTab, allocated, ctx, refcount, doomed>>

(* A hit under gLock: stamp the entry and take a reference to it.          *)
Touch(t, i) ==
  /\ gClock' = gClock + 1
  /\ lastUse' = [lastUse EXCEPT ![gTab[i]] = gClock + 1]
  /\ refcount' = [refcount EXCEPT ![gTab[i]] = @ + 1]
  /\ held' = [held EXCEPT ![t] = gTab[i]]
  /\ UNCHANGED <<gTab, allocated, ctx, doomed>>

(* sh_get, by a hook that works on the entry, and the branch of sh_create  *)
(* that finds one.  A miss of sh_get hands the call to the native stack    *)
(* and changes nothing here.                                               *)
sh_get(t, a) ==
  /\ pc[t] = "idle" /\ Callable(a) /\ gClock < MaxTicks
  /\ \E i \in Slots : FirstEntry(i, a) /\ Touch(t, i)
  /\ Enter(t, a, "use", "call")
  /\ UNCHANGED live

(* sh_create, for an address with no entry: a fresh shadow in slot i, held *)
(* by the table and by the caller.                                         *)
NewEntry(t, a, i, s) ==
  /\ allocated' = allocated \cup {s}
  /\ ctx' = [ctx EXCEPT ![s] = a]
  /\ gClock' = gClock + 1
  /\ lastUse' = [lastUse EXCEPT ![s] = gClock + 1]
  /\ gTab' = [gTab EXCEPT ![i] = s]
  /\ held' = [held EXCEPT ![t] = s]
  /\ UNCHANGED live

sh_create_free(t, a) ==
  /\ pc[t] = "idle" /\ Callable(a) /\ gClock < MaxTicks
  /\ ~HasEntry(a)
  /\ \E i \in Slots, s \in Shadows \ allocated :
       /\ FirstFreeSlot(i)
       /\ NewEntry(t, a, i, s)
       /\ refcount' = [refcount EXCEPT ![s] = FreshRefs]
  /\ Enter(t, a, "use", "call")
  /\ UNCHANGED doomed

(* The table is full: the least recently used entry loses the table's      *)
(* reference.  The pointer stays in the local variable evicted until the   *)
(* thread has logged it and, if the count reached zero, freed it.          *)
sh_create_evict(t, a) ==
  /\ pc[t] = "idle" /\ Callable(a) /\ gClock < MaxTicks
  /\ ~HasEntry(a)
  /\ \E i \in Slots, s \in Shadows \ allocated :
       /\ LruSlot(i)
       /\ NewEntry(t, a, i, s)
       /\ refcount' = [refcount EXCEPT ![s] = FreshRefs, ![gTab[i]] = @ - 1]
       /\ doomed' = [doomed EXCEPT ![t] = gTab[i]]
       /\ Enter(t, a, "use",
                IF IsLast(gTab[i]) THEN "evicted_dead" ELSE "evicted")

(* After the unlock sh_create logs the evicted entry's host, read through  *)
(* the pointer it kept, and frees the entry if nobody else held it.        *)
evicted_tail(t) ==
  /\ pc[t] \in {"evicted", "evicted_dead"}
  /\ allocated' = IF pc[t] = "evicted_dead" THEN allocated \ {doomed[t]} ELSE allocated
  /\ doomed' = [doomed EXCEPT ![t] = NoShadow]
  /\ Goto(t, "call")
  /\ UNCHANGED <<live, gTab, gClock, ctx, lastUse, refcount, held>>

(* Leaving the hook.  The thread that brings the count to zero frees the   *)
(* shadow, after unlocking.                                                *)
sh_release(t) ==
  /\ pc[t] = "call"
  /\ refcount' = [refcount EXCEPT ![held[t]] = @ - 1]
  /\ held' = [held EXCEPT ![t] = NoShadow]
  /\ IF IsLast(held[t])
     THEN doomed' = [doomed EXCEPT ![t] = held[t]] /\ Goto(t, "released_dead")
     ELSE doomed' = doomed /\ AfterRelease(t)
  /\ UNCHANGED <<live, gTab, gClock, allocated, ctx, lastUse>>

-----------------------------------------------------------------------------
(* The ends of a context.                                                  *)

(* sh_get at the head of a hook that goes on to sh_free, hit or miss.      *)
LookThenDrop(t, a, o) ==
  \/ /\ \E i \in Slots : FirstEntry(i, a) /\ Touch(t, i)
     /\ Enter(t, a, o, "call")
  \/ /\ ~HasEntry(a)
     /\ Enter(t, a, o, "drop")
     /\ UNCHANGED <<table, held, doomed>>

SSLClose(t, a) ==
  /\ pc[t] = "idle" /\ Callable(a) /\ gClock < MaxTicks
  /\ LookThenDrop(t, a, "close")
  /\ UNCHANGED live

(* Before 10.8 this call destroys the context, so its caller has stopped   *)
(* every other use of it; from 10.8 it releases one of several references. *)
(* Under the guard tf_on says no, and the native function is all that is   *)
(* called: the entry stays.  (The other hooks change nothing here then.)   *)
SSLDisposeContext(t, a) ==
  /\ pc[t] = "idle" /\ Callable(a)
  /\ ~CFContexts => OnlyCaller(t, a)
  /\ \/ Enter(t, a, "dispose", "drop")
     \/ UnderGuard(t) /\ Enter(t, a, "dispose", "native")
  /\ UNCHANGED <<live, table, held, doomed>>

BeginFinalize_unhooked(t, a) ==
  /\ Enter(t, a, "finalize", "native")
  /\ UNCHANGED <<live, table, held, doomed>>

(* The destructor, on the last release.  With the debug flag it first      *)
(* looks the entry up to log it.                                           *)
BeginFinalize(t, a) ==
  /\ IF Debug THEN LookThenDrop(t, a, "finalize")
     ELSE /\ Enter(t, a, "finalize", "drop")
          /\ UNCHANGED <<table, held, doomed>>
  /\ UNCHANGED live

CFRelease(t, a) ==
  /\ CFContexts
  /\ pc[t] = "idle" /\ Callable(a) /\ OnlyCaller(t, a)
  /\ BeginFinalize(t, a)

(* sh_free: drop the table's reference, if there is an entry.              *)
sh_free(t) ==
  /\ pc[t] = "drop"
  /\ \/ /\ ~HasEntry(at[t])
        /\ AfterFree(t)
        /\ UNCHANGED <<gTab, refcount, doomed>>
     \/ \E i \in Slots :
        /\ FirstEntry(i, at[t])
        /\ gTab' = [gTab EXCEPT ![i] = NoShadow]
        /\ refcount' = [refcount EXCEPT ![gTab[i]] = @ - 1]
        /\ IF IsLast(gTab[i])
           THEN doomed' = [doomed EXCEPT ![t] = gTab[i]] /\ Goto(t, "dropped_dead")
           ELSE doomed' = doomed /\ AfterFree(t)
  /\ UNCHANGED <<live, gClock, allocated, ctx, lastUse, held>>

(* sh_free_mem, outside the lock, by the thread that took the last         *)
(* reference: free, then go on with the hook.                              *)
sh_free_mem(t) ==
  /\ pc[t] \in {"released_dead", "dropped_dead"}
  /\ allocated' = allocated \ {doomed[t]}
  /\ doomed' = [doomed EXCEPT ![t] = NoShadow]
  /\ IF pc[t] = "released_dead" THEN AfterRelease(t) ELSE AfterFree(t)
  /\ UNCHANGED <<live, gTab, gClock, ctx, lastUse, refcount, held>>

(* The original entry point, last in SSLDisposeContext and the destructor. *)
(* The destructor frees the context and its address with it.  From 10.8    *)
(* SSLDisposeContext only releases: others may still own the context, and  *)
(* if none do the destructor runs.                                         *)
NativeDestroy(t) ==
  /\ pc[t] = "native" /\ Ending(t)
  /\ live' = live \ {at[t]}
  /\ Leave(t)
  /\ UNCHANGED <<table, held, doomed>>

NativeRelease(t) ==
  /\ pc[t] = "native" /\ ~Ending(t)
  /\ \/ Leave(t) /\ UNCHANGED <<live, table, held, doomed>>
     \/ Callable(at[t]) /\ OnlyCaller(t, at[t]) /\ BeginFinalize(t, at[t])

-----------------------------------------------------------------------------
(* The steps a thread takes once inside a hook; none of them waits.        *)
Continue(t) ==
  \/ evicted_tail(t) \/ sh_release(t) \/ sh_free(t) \/ sh_free_mem(t)
  \/ NativeDestroy(t) \/ NativeRelease(t)

Call(t, a) ==
  \/ sh_get(t, a) \/ sh_create_free(t, a) \/ sh_create_evict(t, a)
  \/ SSLClose(t, a) \/ SSLDisposeContext(t, a) \/ CFRelease(t, a)

Next ==
  \/ \E a \in Addr : NewContext(a)
  \/ \E t \in Threads, a \in Addr : Call(t, a)
  \/ \E t \in Threads : Continue(t)

Spec == Init /\ [][Next]_vars

(* The scheduler runs every thread; nothing obliges a program to make or   *)
(* end a context.                                                          *)
Fairness == \A t \in Threads : WF_vars(Continue(t))

-----------------------------------------------------------------------------
Where == {"idle", "call", "evicted", "evicted_dead", "released_dead",
          "drop", "dropped_dead", "native"}
Ops == {"use", "close", "dispose", "finalize"}

(* Every variable has its type.                                            *)
TypeOK ==
  /\ live \subseteq Addr
  /\ gTab \in [Slots -> Shadows \cup {NoShadow}]
  /\ gClock \in Nat
  /\ allocated \subseteq Shadows
  /\ ctx \in [Shadows -> Addr \cup {NoAddr}]
  /\ lastUse \in [Shadows -> Nat]
  /\ refcount \in [Shadows -> Nat]
  /\ pc \in [Threads -> Where]
  /\ op \in [Threads -> Ops]
  /\ at \in [Threads -> Addr \cup {NoAddr}]
  /\ held \in [Threads -> Shadows \cup {NoShadow}]
  /\ doomed \in [Threads -> Shadows \cup {NoShadow}]

(* No context has two entries: racing first calls on one context (its      *)
(* setters may come on any thread) share one shadow, since sh_create       *)
(* searches and inserts in one critical section.                           *)
OneEntryPerContext ==
  \A i, j \in Slots :
    (gTab[i] # NoShadow /\ gTab[j] # NoShadow /\ ctx[gTab[i]] = ctx[gTab[j]]) => i = j

(* An entry goes before its context's address can be reused, so no later   *)
(* context inherits a dead connection's state (the destructor hook's       *)
(* comment, aquatransport_hooks_mac.c:498-508).                            *)
NoStaleEntry ==
  \A i \in Slots : gTab[i] # NoShadow => ctx[gTab[i]] \in live

(* A hook works on a shadow that is allocated and belongs to the context   *)
(* it was called on, whatever other threads evict, drop or free meanwhile. *)
HeldIsOurs ==
  \A t \in Threads : held[t] # NoShadow =>
    held[t] \in allocated /\ ctx[held[t]] = at[t]

(* A shadow's count is exactly its references: the table's and one per     *)
(* hook holding it.  Too low frees it under a hook, too high leaks it.     *)
Holders(s) == {t \in Threads : held[t] = s}
InTable(s) == \E i \in Slots : gTab[i] = s
RefcountExact ==
  \A s \in allocated :
    refcount[s] = Cardinality(Holders(s)) + (IF InTable(s) THEN 1 ELSE 0)

(* sh_free_mem runs once per shadow, on one nobody can reach any more.     *)
Freeing(t) == pc[t] \in {"evicted_dead", "released_dead", "dropped_dead"}
FreedOnceUnreachable ==
  \A t \in Threads : Freeing(t) =>
    /\ doomed[t] \in allocated
    /\ ~InTable(doomed[t]) /\ Holders(doomed[t]) = {}
    /\ \A u \in Threads \ {t} : Freeing(u) => doomed[u] # doomed[t]

(* Both: no record is freed while the table or a hook can reach it, and    *)
(* none is freed twice.                                                    *)
ReferencesExact == RefcountExact /\ FreedOnceUnreachable

(* The log line of sh_create reads the evicted shadow's host only while    *)
(* that shadow is still allocated.                                         *)
EvictedHostReadable ==
  \A t \in Threads :
    (Debug /\ pc[t] \in {"evicted", "evicted_dead"}) => doomed[t] \in allocated

(* A shadow out of the table is freed in the end: whatever order the       *)
(* eviction, the releases and the drop come in, the last of them frees it. *)
UnlinkedIsFreed ==
  \A s \in Shadows : (s \in allocated /\ ~InTable(s)) ~> s \notin allocated
=============================================================================

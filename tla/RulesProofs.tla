---------------------------- MODULE RulesProofs ----------------------------
(***************************************************************************)
(* The rules' ways for any number of threads, seconds, edits, patterns,    *)
(* URLs and rules: the cache (RuleCache), the matcher (Glob), the rewriter *)
(* (Rewrite) and the file (RuleFile).                                      *)
(*                                                                         *)
(* The cache.  That the cached time stands for the cached rules rests on   *)
(* times that only grow: whatever was seen of a file before a save is      *)
(* older than the save's second (Times), so a version read under a time    *)
(* that is still the file's is the file's (ReadIsSeen).  It is false in    *)
(* the middle of a reload, and the lock is what keeps that from the others *)
(* (Locking).                                                              *)
(*                                                                         *)
(* The matcher.  It only ever goes back to the last "*" it met, and has    *)
(* to be shown that it need go back no further: the runs before that "*"   *)
(* stand at their earliest places, and every other fit has as many         *)
(* slashes before it (OnTheWay, NotBefore).                                *)
(*                                                                         *)
(* The rewriter.  Where no rule fires on what a rule redirects to, a pass  *)
(* over a request that has been through one changes nothing more, and each *)
(* kind of request has been through one by the time it is sent (OnItsWay). *)
(*                                                                         *)
(* The file.  The blocks read are the runs of lines that are over, and the *)
(* lines of the block being read follow a blank one (StillRead); then the  *)
(* runs are divided by the line up to which they were gone through         *)
(* (GoneThrough).                                                          *)
(***************************************************************************)
EXTENDS MCRules, RegistryProofs

Reloading(t) == pc[t] \in {"stat again", "open", "store"}
Inside(t) == pc[t] \in {"stat", "unlock"} \/ Reloading(t)

Locking == \A t \in Threads : Inside(t) <=> lock = t

Times ==
  /\ file.mtime = saved /\ saved <= clock
  /\ gMtime <= saved /\ m <= saved /\ mt <= saved

Current(mtime, edit) == file.there /\ mtime = file.mtime => edit = file.edit

ReadIsSeen == \A t \in Threads : At(t, "store") => Current(Seen, read.edit)

CacheIsCurrent ==
  gLoaded /\ (\A t \in Threads : ~Reloading(t)) => Current(gMtime, gRules.edit)

(* What a call counts on is of an earlier second than the last edit.       *)
Counting ==
  /\ settled <= file.edit /\ gCheck <= clock
  /\ \A t \in Threads : owed[t] <= settled

(* What is loaded, or about to be, is as new as the call that loads it     *)
(* counts on, and, while no other check is due, as any call would.         *)
Suffices(t, edit) == edit >= owed[t] /\ (gCheck = clock => edit >= settled)
CallSuffices == \A t \in Threads :
  /\ At(t, "store")  => Suffices(t, read.edit)
  /\ At(t, "unlock") => Suffices(t, gRules.edit)
CacheSuffices == gLoaded /\ gCheck = clock /\ lock = NoThread => gRules.edit >= settled

IInv == TypeOK /\ Locking /\ Times /\ ReadIsSeen /\ CacheIsCurrent
JInv == IInv /\ Counting /\ CallSuffices /\ CacheSuffices /\ ServedWithinSecond

-----------------------------------------------------------------------------
(* Types.                                                                  *)

LEMMA InitType == Init => TypeOK
<1> SUFFICES ASSUME Init PROVE TypeOK
  OBVIOUS
<1> USE RuleCacheAssumption DEF Init
<1>1. WorldOK
  BY DEF WorldOK, Unset, Empty, NoRules, Versions, Loaded
<1>2. CacheOK
  <2>1. gMtime \in 0..MaxTime BY DEF RuleCacheAssumption
  <2>2. gCheck \in 0..MaxTime BY DEF RuleCacheAssumption
  <2>3. gLoaded \in BOOLEAN OBVIOUS
  <2>4. gRules \in Loaded BY DEF NoRules, Loaded, RuleCacheAssumption
  <2> QED BY <2>1, <2>2, <2>3, <2>4 DEF CacheOK
<1>3. LocalsOK
  BY DEF LocalsOK, Unset, Empty, NoRules, Versions, Loaded
<1>4. CallsOK
  BY DEF CallsOK, Unset, Empty, NoRules, Versions, Loaded
<1> QED BY <1>1, <1>2, <1>3, <1>4 DEF TypeOK

LEMMA NextType == TypeOK /\ [Next]_vars => TypeOK'
<1> SUFFICES ASSUME TypeOK, [Next]_vars PROVE TypeOK'
  OBVIOUS
<1> USE RuleCacheAssumption DEF TypeOK, world, cache, locals
<1>1. ASSUME NEW t \in Threads, call(t) PROVE TypeOK'
  <2>1. WorldOK' BY <1>1 DEF call, WorldOK
  <2>2. CacheOK'
    <3>1. gMtime' \in 0..MaxTime
      BY <1>1 DEF call, WorldOK, CacheOK
    <3>2. gCheck' \in 0..MaxTime
      <4>1. gCheck \in 0..MaxTime BY DEF CacheOK
      <4>2. clock \in 0..MaxTime BY DEF WorldOK
      <4>3. gCheck' = gCheck \/ gCheck' = clock BY <1>1 DEF call
      <4> QED BY <4>1, <4>2, <4>3
    <3>3. gLoaded' \in BOOLEAN
      BY <1>1 DEF call, WorldOK, CacheOK
    <3>4. gRules' \in Loaded
      BY <1>1 DEF call, WorldOK, CacheOK
    <3> QED BY <3>1, <3>2, <3>3, <3>4 DEF CacheOK
  <2>3. LocalsOK' BY <1>1 DEF call, LocalsOK
  <2>4. CallsOK' BY <1>1 DEF call, Goto, CallsOK, WorldOK
  <2> QED BY <2>1, <2>2, <2>3, <2>4
<1>2. ASSUME NEW t \in Threads, stat_changed(t) PROVE TypeOK'
  <2>1. WorldOK' BY <1>2 DEF stat_changed, WorldOK
  <2>2. CacheOK'
    <3>1. gMtime' \in 0..MaxTime
      BY <1>2 DEF stat_changed, CacheOK
    <3>2. gCheck' \in 0..MaxTime
      BY <1>2 DEF stat_changed, CacheOK
    <3>3. gLoaded' \in BOOLEAN
      BY <1>2 DEF stat_changed, CacheOK
    <3>4. gRules' \in Loaded
      <4>1. gRules' = [edit |-> 0, any |-> FALSE, block |-> gRules.block + 1]
        BY <1>2 DEF stat_changed, NoRules
      <4>2. gRules.block \in Nat BY DEF CacheOK, Loaded
      <4>3. 0 \in 0..MaxEdits BY DEF RuleCacheAssumption
      <4> QED BY <4>1, <4>2, <4>3 DEF Loaded
    <3> QED BY <3>1, <3>2, <3>3, <3>4 DEF CacheOK
  <2>3. LocalsOK' BY <1>2 DEF stat_changed, WorldOK, LocalsOK, Versions, Unset
  <2>4. CallsOK' BY <1>2 DEF stat_changed, Goto, CallsOK
  <2> QED BY <2>1, <2>2, <2>3, <2>4
<1>3. ASSUME NEW t \in Threads, stat_unchanged(t) PROVE TypeOK'
  <2>1. WorldOK' BY <1>3 DEF stat_unchanged, WorldOK
  <2>2. CacheOK' BY <1>3 DEF stat_unchanged, CacheOK, WorldOK, Loaded
  <2>3. LocalsOK' BY <1>3 DEF stat_unchanged, LocalsOK
  <2>4. CallsOK' BY <1>3 DEF stat_unchanged, Goto, CallsOK
  <2> QED BY <2>1, <2>2, <2>3, <2>4
<1>4. ASSUME NEW t \in Threads, stat_again(t) PROVE TypeOK'
  <2>1. WorldOK' BY <1>4 DEF stat_again, WorldOK
  <2>2. CacheOK' BY <1>4 DEF stat_again, CacheOK
  <2>3. LocalsOK' BY <1>4 DEF stat_again, WorldOK, LocalsOK, Versions, Unset
  <2>4. CallsOK' BY <1>4 DEF stat_again, Goto, CallsOK
  <2> QED BY <2>1, <2>2, <2>3, <2>4
<1>5. ASSUME NEW t \in Threads, open(t) PROVE TypeOK'
  <2>1. WorldOK' BY <1>5 DEF open, WorldOK
  <2>2. CacheOK' BY <1>5 DEF open, CacheOK
  <2>3. LocalsOK' BY <1>5 DEF open, Contents, WorldOK, LocalsOK, Versions
  <2>4. CallsOK' BY <1>5 DEF open, Goto, CallsOK
  <2> QED BY <2>1, <2>2, <2>3, <2>4
<1>6. ASSUME NEW t \in Threads, store(t) PROVE TypeOK'
  <2>1. WorldOK' BY <1>6 DEF store, WorldOK
  <2>2. CacheOK'
    <3>1. gMtime' \in 0..MaxTime
      BY <1>6 DEF store, CacheOK, LocalsOK, Stamp, Seen, Unset
    <3>2. gCheck' \in 0..MaxTime
      BY <1>6 DEF store, CacheOK, LocalsOK
    <3>3. gLoaded' \in BOOLEAN
      BY <1>6 DEF store, CacheOK, LocalsOK
    <3>4. gRules' \in Loaded
      BY <1>6 DEF store, CacheOK, LocalsOK, Versions, Loaded
    <3> QED BY <3>1, <3>2, <3>3, <3>4 DEF CacheOK
  <2>3. LocalsOK'
    <3>1. m' \in {Unset} \cup (1..MaxTime)
      BY <1>6 DEF store
    <3>2. mt' \in {Unset} \cup (1..MaxTime)
      BY <1>6 DEF store
    <3>3. read' \in Versions
      BY <1>6 DEF store, Empty, Versions, RuleCacheAssumption
    <3> QED BY <3>1, <3>2, <3>3 DEF LocalsOK
  <2>4. CallsOK' BY <1>6 DEF store, Goto, CallsOK
  <2> QED BY <2>1, <2>2, <2>3, <2>4
<1>7. ASSUME NEW t \in Threads, unlock(t) PROVE TypeOK'
  <2>1. WorldOK' BY <1>7 DEF unlock, WorldOK
  <2>2. CacheOK' BY <1>7 DEF unlock, CacheOK
  <2>3. LocalsOK' BY <1>7 DEF unlock, LocalsOK
  <2>4. CallsOK' BY <1>7 DEF unlock, Goto, CallsOK, CacheOK
  <2> QED BY <2>1, <2>2, <2>3, <2>4
<1>8. ASSUME NEW t \in Threads, used(t) PROVE TypeOK'
  <2>1. WorldOK' BY <1>8 DEF used, WorldOK
  <2>2. CacheOK' BY <1>8 DEF used, CacheOK
  <2>3. LocalsOK' BY <1>8 DEF used, LocalsOK
  <2>4. CallsOK'
    <3>1. lock' \in Threads \cup {NoThread} BY <1>8 DEF used, CallsOK
    <3>2. pc' \in [Threads -> {"idle", "stat", "stat again", "open", "store", "unlock", "use"}]
      BY <1>8 DEF used, Goto, CallsOK
    <3>3. NoRules \in Loaded BY DEF NoRules, Loaded, RuleCacheAssumption
    <3>4. got' \in [Threads -> Loaded] BY <1>8, <3>3 DEF used, CallsOK
    <3>5. owed' \in [Threads -> 0..MaxEdits]
      <4>1. 0 \in 0..MaxEdits BY DEF RuleCacheAssumption
      <4> QED BY <1>8, <4>1 DEF used, CallsOK
    <3> QED BY <3>1, <3>2, <3>4, <3>5 DEF CallsOK
  <2> QED BY <2>1, <2>2, <2>3, <2>4
<1>9. CASE save
  <2>1. WorldOK'
    <3>1. kind' \in {"rules", "flags"}
      BY <1>9 DEF save, WorldOK
    <3>2. file' \in [there : BOOLEAN, edit : 0..MaxEdits, mtime : 1..MaxTime]
      BY <1>9 DEF save, WorldOK
    <3>3. clock' \in 1..MaxTime
      BY <1>9 DEF save, WorldOK
    <3>4. saved' \in 1..MaxTime
      BY <1>9 DEF save, WorldOK
    <3>5. settled' \in 0..MaxEdits
      BY <1>9 DEF save, WorldOK
    <3> QED BY <3>1, <3>2, <3>3, <3>4, <3>5 DEF WorldOK
  <2>2. CacheOK' BY <1>9 DEF save, CacheOK
  <2>3. LocalsOK' BY <1>9 DEF save, LocalsOK
  <2>4. CallsOK' BY <1>9 DEF save, CallsOK
  <2> QED BY <2>1, <2>2, <2>3, <2>4
<1>10. CASE remove
  <2>1. WorldOK'
    <3>1. kind' \in {"rules", "flags"}
      BY <1>10 DEF remove, WorldOK
    <3>2. file' \in [there : BOOLEAN, edit : 0..MaxEdits, mtime : 1..MaxTime]
      BY <1>10 DEF remove, WorldOK
    <3>3. clock' \in 1..MaxTime
      BY <1>10 DEF remove, WorldOK
    <3>4. saved' \in 1..MaxTime
      BY <1>10 DEF remove, WorldOK
    <3>5. settled' \in 0..MaxEdits
      BY <1>10 DEF remove, WorldOK
    <3> QED BY <3>1, <3>2, <3>3, <3>4, <3>5 DEF WorldOK
  <2>2. CacheOK' BY <1>10 DEF remove, CacheOK
  <2>3. LocalsOK' BY <1>10 DEF remove, LocalsOK
  <2>4. CallsOK' BY <1>10 DEF remove, CallsOK
  <2> QED BY <2>1, <2>2, <2>3, <2>4
<1>11. CASE second
  <2>1. WorldOK'
    <3>1. kind' \in {"rules", "flags"}
      BY <1>11 DEF second, WorldOK
    <3>2. file' \in [there : BOOLEAN, edit : 0..MaxEdits, mtime : 1..MaxTime]
      BY <1>11 DEF second, WorldOK
    <3>3. clock' \in 1..MaxTime
      BY <1>11 DEF second, WorldOK
    <3>4. saved' \in 1..MaxTime
      BY <1>11 DEF second, WorldOK
    <3>5. settled' \in 0..MaxEdits
      BY <1>11 DEF second, WorldOK
    <3> QED BY <3>1, <3>2, <3>3, <3>4, <3>5 DEF WorldOK
  <2>2. CacheOK' BY <1>11 DEF second, CacheOK
  <2>3. LocalsOK' BY <1>11 DEF second, LocalsOK
  <2>4. CallsOK' BY <1>11 DEF second, CallsOK
  <2> QED BY <2>1, <2>2, <2>3, <2>4
<1>12. CASE UNCHANGED vars
  BY <1>12 DEF vars, WorldOK, CacheOK, LocalsOK, CallsOK
<1> QED
  BY <1>1, <1>2, <1>3, <1>4, <1>5, <1>6, <1>7, <1>8, <1>9, <1>10, <1>11, <1>12 DEF Next

(* Every variable keeps its type.                                          *)
THEOREM TypeCorrect == Spec => []TypeOK
BY InitType, NextType, PTL DEF Spec


-----------------------------------------------------------------------------
(* The inductive invariant.                                                *)

LEMMA Numbers ==
  TypeOK => /\ clock \in Int /\ saved \in Nat \ {0}
            /\ gMtime \in Int /\ m \in Int /\ mt \in Int
            /\ file \in [there : BOOLEAN, edit : Nat, mtime : Nat \ {0}]
<1> SUFFICES ASSUME TypeOK
             PROVE /\ clock \in Int /\ saved \in Nat \ {0}
                   /\ gMtime \in Int /\ m \in Int /\ mt \in Int
                   /\ file \in [there : BOOLEAN, edit : Nat, mtime : Nat \ {0}]
  OBVIOUS
<1>1. 1..MaxTime \subseteq Nat \ {0} /\ 0..MaxTime \subseteq Int /\ 0..MaxEdits \subseteq Nat
  BY RuleCacheAssumption DEF RuleCacheAssumption
<1>2. clock \in Int /\ saved \in Nat \ {0} BY <1>1 DEF TypeOK, WorldOK
<1>3. gMtime \in Int BY <1>1 DEF TypeOK, CacheOK
<1>4. m \in Int /\ mt \in Int BY <1>1 DEF TypeOK, LocalsOK, Unset
<1>5. file \in [there : BOOLEAN, edit : Nat, mtime : Nat \ {0}]
  BY <1>1 DEF TypeOK, WorldOK
<1> QED BY <1>2, <1>3, <1>4, <1>5

LEMMA InitInv == OnceASecond /\ Init => IInv
<1> SUFFICES ASSUME OnceASecond, Init PROVE IInv
  OBVIOUS
<1>1. TypeOK BY InitType
<1>2. Locking BY RuleCacheAssumption DEF Init, Locking, Inside, Reloading
<1>3. Times BY DEF Init, Times, Unset
<1>4. ReadIsSeen BY DEF Init, ReadIsSeen, At
<1>5. CacheIsCurrent BY DEF Init, CacheIsCurrent
<1> QED BY <1>1, <1>2, <1>3, <1>4, <1>5 DEF IInv

(* The lock is held by the one call that is inside.                        *)
LEMMA LockingKept == TypeOK /\ Locking /\ [Next]_vars => Locking'
<1> SUFFICES ASSUME TypeOK, Locking, [Next]_vars PROVE Locking'
  OBVIOUS
<1> USE RuleCacheAssumption DEF Locking, Inside, Reloading
<1>t. pc \in [Threads -> {"idle", "stat", "stat again", "open", "store", "unlock", "use"}]
  BY DEF TypeOK, CallsOK
<1>1. ASSUME NEW t \in Threads, call(t) PROVE Locking'
  BY <1>t, <1>1 DEF call, At, Goto
<1>2. ASSUME NEW t \in Threads, stat_changed(t) PROVE Locking'
  BY <1>t, <1>2 DEF stat_changed, At, Goto
<1>3. ASSUME NEW t \in Threads, stat_unchanged(t) PROVE Locking'
  BY <1>t, <1>3 DEF stat_unchanged, At, Goto, locals
<1>4. ASSUME NEW t \in Threads, stat_again(t) PROVE Locking'
  BY <1>t, <1>4 DEF stat_again, At, Goto
<1>5. ASSUME NEW t \in Threads, open(t) PROVE Locking'
  BY <1>t, <1>5 DEF open, At, Goto
<1>6. ASSUME NEW t \in Threads, store(t) PROVE Locking'
  BY <1>t, <1>6 DEF store, At, Goto
<1>7. ASSUME NEW t \in Threads, unlock(t) PROVE Locking'
  BY <1>t, <1>7 DEF unlock, At, Goto
<1>8. ASSUME NEW t \in Threads, used(t) PROVE Locking'
  BY <1>t, <1>8 DEF used, At, Goto
<1>9. CASE save \/ remove \/ second \/ UNCHANGED vars
  BY <1>9 DEF save, remove, second, vars
<1> QED
  BY <1>1, <1>2, <1>3, <1>4, <1>5, <1>6, <1>7, <1>8, <1>9 DEF Next

(* Times only grow, and what has been seen is not of the future.           *)
LEMMA TimesKept == TypeOK /\ Times /\ [Next]_vars => Times'
<1> SUFFICES ASSUME TypeOK, Times, [Next]_vars PROVE Times'
  OBVIOUS
<1> USE DEF Times, world, cache, locals
<1>t. /\ clock \in Int /\ saved \in Nat \ {0} /\ gMtime \in Int /\ m \in Int /\ mt \in Int
      /\ file \in [there : BOOLEAN, edit : Nat, mtime : Nat \ {0}]
  BY Numbers
<1>u. Unset <= saved /\ saved <= saved
  BY <1>t DEF Unset
<1>1. ASSUME NEW t \in Threads, stat_changed(t) PROVE Times'
  <2>1. m' \in {saved, Unset} BY <1>1 DEF stat_changed
  <2>2. m' <= saved BY <2>1, <1>u
  <2> QED BY <1>1, <2>2 DEF stat_changed
<1>2. ASSUME NEW t \in Threads, stat_again(t) PROVE Times'
  <2>1. mt' \in {saved, Unset} BY <1>2 DEF stat_again
  <2>2. mt' <= saved BY <2>1, <1>u
  <2> QED BY <1>2, <2>2 DEF stat_again
<1>3. ASSUME NEW t \in Threads, store(t) PROVE Times'
  <2>1. gMtime' <= saved BY <1>t, <1>3 DEF store, Stamp, Seen, Unset
  <2> QED BY <1>t, <1>3, <2>1 DEF store, Unset
<1>4. ASSUME NEW t \in Threads, call(t) \/ stat_unchanged(t) \/ open(t) \/ unlock(t) \/ used(t)
      PROVE Times'
  BY <1>t, <1>4 DEF call, stat_unchanged, open, unlock, used
<1>5. CASE save
  BY <1>t, <1>5 DEF save
<1>6. CASE remove
  BY <1>t, <1>6 DEF remove
<1>7. CASE second
  BY <1>t, <1>7 DEF second
<1>8. CASE UNCHANGED vars
  BY <1>8 DEF vars
<1> QED
  BY <1>1, <1>2, <1>3, <1>4, <1>5, <1>6, <1>7, <1>8 DEF Next

(* With one save a second, what was seen of the file before a save has     *)
(* another time than it has after.                                         *)
LEMMA ReadIsSeenKept == OnceASecond /\ IInv /\ [Next]_vars => ReadIsSeen'
<1> SUFFICES ASSUME OnceASecond, IInv, [Next]_vars, NEW u \in Threads, At(u, "store")'
             PROVE Current(Seen, read.edit)'
  BY DEF ReadIsSeen
<1> USE DEF IInv, At, Goto, world, cache, locals
<1>p. pc \in [Threads -> {"idle", "stat", "stat again", "open", "store", "unlock", "use"}]
  BY DEF TypeOK, CallsOK
<1>t. /\ clock \in Int /\ saved \in Nat \ {0} /\ m \in Int /\ mt \in Int
      /\ file \in [there : BOOLEAN, edit : Nat, mtime : Nat \ {0}]
  BY Numbers
<1>o. ASSUME NEW t \in Threads, Inside(t) PROVE \A v \in Threads \ {t} : ~At(v, "store")
  BY <1>o DEF Locking, Inside, Reloading
<1>1. ASSUME NEW t \in Threads, stat_again(t) PROVE Current(Seen, read.edit)'
  <2>1. u = t BY <1>1, <1>p, <1>o DEF stat_again, Inside, Reloading
  <2>2. ~file.there BY <1>1, <1>p, <2>1 DEF stat_again
  <2> QED BY <1>1, <2>2 DEF stat_again, Current
<1>2. ASSUME NEW t \in Threads, open(t) PROVE Current(Seen, read.edit)'
  BY <1>2 DEF open, Current, Contents
<1>3. ASSUME NEW t \in Threads, call(t) \/ stat_changed(t) \/ stat_unchanged(t)
             \/ store(t) \/ unlock(t) \/ used(t)
      PROVE Current(Seen, read.edit)'
  <2>1. At(u, "store") /\ ~store(t) /\ ~stat_changed(t)
    BY <1>3, <1>p, <1>o DEF call, stat_changed, stat_unchanged, store, unlock, used, Inside, Reloading
  <2>2. UNCHANGED <<file, kind, m, mt, read>>
    BY <1>3, <2>1 DEF call, stat_unchanged, unlock, used
  <2> QED BY <2>1, <2>2 DEF ReadIsSeen, Current, Seen
<1>4. CASE save
  <2>1. At(u, "store") BY <1>4 DEF save
  <2>2. Seen' = Seen /\ Seen <= saved BY <1>4 DEF save, Seen, Times
  <2>3. Seen' # file'.mtime
    BY <1>4, <1>t, <2>2 DEF save, Seen
  <2> QED BY <2>3 DEF Current
<1>5. CASE remove
  BY <1>5 DEF remove, Current
<1>6. CASE second \/ UNCHANGED vars
  BY <1>6 DEF second, vars, ReadIsSeen, Current, Seen
<1> QED
  BY <1>1, <1>2, <1>3, <1>4, <1>5, <1>6 DEF Next


(* A check that finds the file's time to be the cache's leaves the cache   *)
(* as it is, and a reload is over with what its stamp says.                *)
LEMMA CacheIsCurrentKept == OnceASecond /\ IInv /\ [Next]_vars => CacheIsCurrent'
<1> SUFFICES ASSUME OnceASecond, IInv, [Next]_vars,
                    gLoaded', \A t \in Threads : ~Reloading(t)'
             PROVE Current(gMtime, gRules.edit)'
  BY DEF CacheIsCurrent
<1> USE DEF IInv, At, Goto, Reloading, world, cache, locals
<1>p. pc \in [Threads -> {"idle", "stat", "stat again", "open", "store", "unlock", "use"}]
  BY DEF TypeOK, CallsOK
<1>t. /\ clock \in Int /\ saved \in Nat \ {0} /\ gMtime \in Int
      /\ file \in [there : BOOLEAN, edit : Nat, mtime : Nat \ {0}]
  BY Numbers
<1>c. ASSUME \A t \in Threads : ~Reloading(t), gLoaded PROVE Current(gMtime, gRules.edit)
  BY <1>c DEF CacheIsCurrent
<1>1. ASSUME NEW t \in Threads, call(t) \/ unlock(t) \/ used(t)
      PROVE Current(gMtime, gRules.edit)'
  <2>1. \A v \in Threads : ~Reloading(v)
    BY <1>1, <1>p DEF call, unlock, used
  <2>2. UNCHANGED <<file, gMtime, gRules, gLoaded>>
    BY <1>1 DEF call, unlock, used
  <2> QED BY <2>1, <2>2, <1>c DEF Current
<1>2. ASSUME NEW t \in Threads, stat_changed(t) \/ stat_again(t) \/ open(t)
      PROVE Current(gMtime, gRules.edit)'
  <2>1. Reloading(t)' BY <1>2, <1>p DEF stat_changed, stat_again, open
  <2> QED BY <2>1
<1>3. ASSUME NEW t \in Threads, stat_unchanged(t) PROVE Current(gMtime, gRules.edit)'
  <2>1. \A v \in Threads : ~Reloading(v)
    BY <1>3, <1>p DEF stat_unchanged
  <2>2. Current(gMtime, gRules.edit)
    BY <1>3, <2>1, <1>c DEF stat_unchanged
  <2>3. file.there => gRules' = gRules BY <1>3 DEF stat_unchanged
  <2>4. UNCHANGED <<file, gMtime>> BY <1>3 DEF stat_unchanged
  <2> QED BY <2>2, <2>3, <2>4 DEF Current
<1>4. ASSUME NEW t \in Threads, store(t) PROVE Current(gMtime, gRules.edit)'
  <2>1. Current(Seen, read.edit) BY <1>4 DEF store, ReadIsSeen
  <2>2. UNCHANGED file /\ gRules'.edit = read.edit BY <1>4 DEF store
  <2>3. gMtime' = Seen \/ gMtime' = 0 BY <1>4 DEF store, Stamp
  <2>4. file.mtime \in Nat \ {0} BY <1>t
  <2>5. file.mtime # 0 BY <2>4
  <2> QED BY <2>1, <2>2, <2>3, <2>5 DEF Current
<1>5. CASE save
  <2>1. gMtime <= saved BY DEF Times
  <2>2. saved < clock /\ gMtime' = gMtime /\ file'.mtime = clock
    BY <1>5, <1>t DEF save
  <2>3. gMtime \in Int /\ saved \in Int /\ clock \in Int BY ONLY <1>t
  <2>4. gMtime # clock BY ONLY <2>1, <2>2, <2>3
  <2>5. gMtime' # file'.mtime BY <2>2, <2>4
  <2> QED BY <2>5 DEF Current
<1>6. CASE remove
  BY <1>6 DEF remove, Current
<1>7. CASE second \/ UNCHANGED vars
  <2>1. UNCHANGED <<file, gMtime, gRules, gLoaded, pc>> BY <1>7 DEF second, vars
  <2>2. \A v \in Threads : ~Reloading(v) BY <2>1
  <2> QED BY <2>1, <2>2, <1>c DEF Current
<1> QED
  BY <1>1, <1>2, <1>3, <1>4, <1>5, <1>6, <1>7 DEF Next

LEMMA IInvKept == OnceASecond /\ IInv /\ [Next]_vars => IInv'
<1> SUFFICES ASSUME OnceASecond, IInv, [Next]_vars PROVE IInv'
  OBVIOUS
<1>1. TypeOK' BY NextType DEF IInv
<1>2. Locking' BY LockingKept DEF IInv
<1>3. Times' BY TimesKept DEF IInv
<1>4. ReadIsSeen' BY ReadIsSeenKept
<1>5. CacheIsCurrent' BY CacheIsCurrentKept
<1> QED BY <1>1, <1>2, <1>3, <1>4, <1>5 DEF IInv

(* "Re-read whenever their mtime changes": while no two saves fall into    *)
(* one second, a cache whose time is the file's holds the file's rules.    *)
THEOREM StampCorrect == OnceASecond /\ Spec => []StampIsContents
<1>1. IInv => StampIsContents
  <2> SUFFICES ASSUME IInv, lock = NoThread, gLoaded, file.there, gMtime = file.mtime
               PROVE gRules.edit = file.edit
    BY DEF StampIsContents
  <2>1. \A t \in Threads : ~Reloading(t)
    BY RuleCacheAssumption DEF IInv, Locking, Inside
  <2> QED BY <2>1 DEF IInv, CacheIsCurrent, Current
<1>2. ASSUME OnceASecond PROVE Spec => []StampIsContents
  <2>1. Init => IInv BY <1>2, InitInv
  <2>2. IInv /\ [Next]_vars => IInv' BY <1>2, IInvKept
  <2> QED BY <1>1, <2>1, <2>2, PTL DEF Spec
<1> QED BY <1>2


-----------------------------------------------------------------------------
(* What a call is served.                                                  *)

LEMMA Edits ==
  TypeOK => /\ file.edit \in Nat /\ read.edit \in Nat /\ gRules.edit \in Nat
            /\ settled \in Nat /\ gCheck \in Int /\ clock \in Int
            /\ \A t \in Threads : owed[t] \in Nat /\ got[t].edit \in Nat
<1> SUFFICES ASSUME TypeOK
             PROVE /\ file.edit \in Nat /\ read.edit \in Nat /\ gRules.edit \in Nat
                   /\ settled \in Nat /\ gCheck \in Int /\ clock \in Int
                   /\ \A t \in Threads : owed[t] \in Nat /\ got[t].edit \in Nat
  OBVIOUS
<1>1. 1..MaxTime \subseteq Int /\ 0..MaxTime \subseteq Int /\ 0..MaxEdits \subseteq Nat
  BY RuleCacheAssumption DEF RuleCacheAssumption
<1>2. file.edit \in Nat /\ settled \in Nat /\ clock \in Int
  BY <1>1 DEF TypeOK, WorldOK
<1>3. gRules.edit \in Nat /\ gCheck \in Int
  BY <1>1 DEF TypeOK, CacheOK, Loaded
<1>4. read.edit \in Nat BY <1>1 DEF TypeOK, LocalsOK, Versions
<1>5. \A t \in Threads : owed[t] \in Nat /\ got[t].edit \in Nat
  BY <1>1 DEF TypeOK, CallsOK, Loaded
<1> QED BY <1>2, <1>3, <1>4, <1>5

LEMMA InitServed == OnceASecond /\ Init => JInv
<1> SUFFICES ASSUME OnceASecond, Init PROVE JInv
  OBVIOUS
<1>1. IInv BY InitInv
<1>2. Counting BY DEF Init, Counting
<1>3. CallSuffices BY DEF Init, CallSuffices, At
<1>4. CacheSuffices BY DEF Init, CacheSuffices
<1>5. ServedWithinSecond BY DEF Init, ServedWithinSecond, At
<1> QED BY <1>1, <1>2, <1>3, <1>4, <1>5 DEF JInv

LEMMA CountingKept == TypeOK /\ Counting /\ [Next]_vars => Counting'
<1> SUFFICES ASSUME TypeOK, Counting, [Next]_vars PROVE Counting'
  OBVIOUS
<1> USE DEF Counting, world, cache, locals
<1>e. /\ file.edit \in Nat /\ settled \in Nat /\ gCheck \in Int /\ clock \in Int
      /\ owed \in [Threads -> 0..MaxEdits] /\ \A t \in Threads : owed[t] \in Nat
  BY Edits DEF TypeOK, CallsOK
<1>1. ASSUME NEW t \in Threads, call(t) PROVE Counting'
  <2>1. settled' <= file'.edit BY <1>1 DEF call
  <2>2. gCheck' <= clock' BY <1>1, <1>e DEF call
  <2>3. \A v \in Threads : owed'[v] <= settled' BY <1>1, <1>e DEF call
  <2> QED BY <2>1, <2>2, <2>3
<1>2. ASSUME NEW t \in Threads, used(t) PROVE Counting'
  <2>1. \A v \in Threads : owed'[v] <= settled' BY <1>2, <1>e DEF used
  <2> QED BY <1>2, <2>1 DEF used
<1>3. ASSUME NEW t \in Threads, stat_changed(t) \/ stat_unchanged(t) \/ stat_again(t)
             \/ open(t) \/ store(t) \/ unlock(t)
      PROVE Counting'
  <2>1. UNCHANGED <<settled, file, gCheck, clock, owed>>
    BY <1>3 DEF stat_changed, stat_unchanged, stat_again, open, store, unlock
  <2> QED BY <2>1
<1>4. CASE save \/ remove
  <2>1. file'.edit = file.edit + 1 /\ UNCHANGED <<settled, gCheck, clock, owed>>
    BY <1>4 DEF save, remove
  <2> QED BY <2>1, <1>e
<1>5. CASE second
  <2>1. settled' = file.edit /\ clock' = clock + 1 /\ UNCHANGED <<file, gCheck, owed>>
    BY <1>5 DEF second
  <2> QED BY <2>1, <1>e
<1>6. CASE UNCHANGED vars
  BY <1>6 DEF vars
<1> QED BY <1>1, <1>2, <1>3, <1>4, <1>5, <1>6 DEF Next


(* A check finds what is loaded to be the file's, or reads the file.       *)
LEMMA CallSufficesKept == JInv /\ [Next]_vars => CallSuffices'
<1> SUFFICES ASSUME JInv, [Next]_vars, NEW u \in Threads
             PROVE /\ At(u, "store")'  => Suffices(u, read.edit)'
                   /\ At(u, "unlock")' => Suffices(u, gRules.edit)'
  BY DEF CallSuffices
<1> DEFINE Kept == /\ At(u, "store")'  => Suffices(u, read.edit)'
                   /\ At(u, "unlock")' => Suffices(u, gRules.edit)'
<1> USE DEF JInv, IInv, At, Goto, world, cache, locals
<1>p. pc \in [Threads -> {"idle", "stat", "stat again", "open", "store", "unlock", "use"}]
  BY DEF TypeOK, CallsOK
<1>e. /\ file.edit \in Nat /\ read.edit \in Nat /\ gRules.edit \in Nat
      /\ settled \in Nat /\ gCheck \in Int /\ clock \in Int /\ owed[u] \in Nat
  BY Edits
<1>l. \A t \in Threads : Inside(t) /\ t # u => ~At(u, "store") /\ ~At(u, "unlock")
  BY DEF Locking, Inside, Reloading
<1>c. settled <= file.edit /\ gCheck <= clock /\ owed[u] <= settled
  BY DEF Counting
<1>f. Suffices(u, file.edit)
  BY <1>c, <1>e DEF Suffices
<1>s. /\ At(u, "store") => Suffices(u, read.edit)
      /\ At(u, "unlock") => Suffices(u, gRules.edit)
  BY DEF CallSuffices
<1>1. ASSUME NEW t \in Threads, call(t) PROVE Kept
  <2>1. ~At(u, "store")' /\ (At(u, "unlock")' => u = t)
    <3>1. ~At(u, "store") /\ ~At(u, "unlock")
      BY <1>1, RuleCacheAssumption DEF call, Locking, Inside, Reloading
    <3> QED BY <1>1, <3>1, <1>p DEF call
  <2>2. ASSUME At(u, "unlock")' PROVE Suffices(u, gRules.edit)'
    <3>1. u = t BY <2>1, <2>2
    <3>2. gLoaded /\ gCheck = clock /\ lock = NoThread
      BY <1>1, <2>2, <3>1, <1>p DEF call, Due
    <3>3. gRules.edit >= settled BY <3>2 DEF CacheSuffices
    <3>4. owed'[u] = settled
      BY <1>1, <3>1 DEF call, TypeOK, CallsOK
    <3> QED BY <1>1, <3>3, <3>4 DEF call, Suffices
  <2> QED BY <2>1, <2>2
<1>2. ASSUME NEW t \in Threads, stat_unchanged(t) PROVE Kept
  <2>1. CASE u = t
    <3>1. \A v \in Threads : ~Reloading(v)
      BY <1>2 DEF stat_unchanged, Locking, Inside, Reloading
    <3>2. Current(gMtime, gRules.edit)
      BY <1>2, <3>1 DEF stat_unchanged, CacheIsCurrent
    <3>3. gRules'.edit = file.edit
      <4>1. CASE file.there
        BY <1>2, <3>2, <4>1 DEF stat_unchanged, Changed, Current
      <4>2. CASE ~file.there
        BY <1>2, <4>2 DEF stat_unchanged, TypeOK, CacheOK, Loaded
      <4> QED BY <4>1, <4>2
    <3>4. At(u, "unlock")' BY <1>2, <2>1, <1>p DEF stat_unchanged
    <3>5. Suffices(u, gRules.edit)' BY <1>2, <3>3, <1>f DEF stat_unchanged, Suffices
    <3> QED BY <3>4, <3>5
  <2>2. CASE u # t
    <3>1. ~At(u, "store")' /\ ~At(u, "unlock")'
      BY <1>2, <2>2, <1>l, <1>p DEF stat_unchanged, Inside
    <3> QED BY <3>1
  <2> QED BY <2>1, <2>2
<1>3. ASSUME NEW t \in Threads, stat_again(t) \/ open(t) PROVE Kept
  <2>1. read'.edit = file.edit /\ UNCHANGED <<settled, gCheck, clock, owed>>
    <3>1. CASE stat_again(t) BY <3>1 DEF stat_again
    <3>2. CASE open(t) BY <3>2 DEF open, Contents
    <3> QED BY <1>3, <3>1, <3>2
  <2>2. Suffices(u, read.edit)' BY <2>1, <1>f DEF Suffices
  <2>3. At(u, "unlock")' => At(u, "unlock") /\ u # t
    BY <1>3, <1>p DEF stat_again, open
  <2>4. ~At(u, "unlock")'
    BY <1>3, <2>3, <1>l DEF stat_again, open, Inside, Reloading
  <2> QED BY <2>2, <2>4
<1>4. ASSUME NEW t \in Threads, store(t) PROVE Kept
  <2>1. CASE u = t
    <3>1. At(u, "store") /\ At(u, "unlock")' BY <1>4, <2>1, <1>p DEF store
    <3>2. gRules'.edit = read.edit BY <1>4 DEF store
    <3>3. Suffices(u, gRules.edit)' BY <1>4, <3>1, <3>2, <1>s DEF store, Suffices
    <3> QED BY <3>1, <3>3
  <2>2. CASE u # t
    <3>1. ~At(u, "store")' /\ ~At(u, "unlock")'
      BY <1>4, <2>2, <1>l, <1>p DEF store, Inside, Reloading
    <3> QED BY <3>1
  <2> QED BY <2>1, <2>2
<1>5. ASSUME NEW t \in Threads, stat_changed(t) \/ unlock(t) PROVE Kept
  <2>1. (~At(u, "store") /\ ~At(u, "unlock")) \/ u = t
    BY <1>5, <1>l DEF stat_changed, unlock, Inside
  <2>2. ~At(u, "store")' /\ ~At(u, "unlock")'
    BY <1>5, <2>1, <1>p DEF stat_changed, unlock
  <2> QED BY <2>2
<1>6. ASSUME NEW t \in Threads, used(t) PROVE Kept
  <2>1. /\ At(u, "store")' => At(u, "store") /\ u # t
        /\ At(u, "unlock")' => At(u, "unlock") /\ u # t
    BY <1>6, <1>p DEF used
  <2>2. u # t => owed'[u] = owed[u] BY <1>6 DEF used, TypeOK, CallsOK
  <2>3. UNCHANGED <<read, gRules, gCheck, clock, settled>> BY <1>6 DEF used
  <2> QED BY <2>1, <2>2, <2>3, <1>s DEF Suffices
<1>7. CASE save \/ remove \/ UNCHANGED vars
  <2>1. UNCHANGED <<pc, owed, read, gRules, gCheck, clock, settled>>
    BY <1>7 DEF save, remove, vars
  <2> QED BY <2>1, <1>s DEF Suffices
<1>8. CASE second
  <2>1. /\ UNCHANGED <<pc, owed, read, gRules, gCheck>>
        /\ clock' = clock + 1
    BY <1>8 DEF second
  <2>2. gCheck' # clock' BY <2>1, <1>c, <1>e
  <2> QED BY <2>1, <2>2, <1>s DEF Suffices
<1> QED
  BY <1>1, <1>2, <1>3, <1>4, <1>5, <1>6, <1>7, <1>8 DEF Next


LEMMA CacheSufficesKept == JInv /\ [Next]_vars => CacheSuffices'
<1> SUFFICES ASSUME JInv, [Next]_vars, gLoaded', gCheck' = clock', lock' = NoThread
             PROVE gRules'.edit >= settled'
  BY DEF CacheSuffices
<1> USE DEF JInv, IInv, At, Goto, world, cache, locals
<1>e. gCheck \in Int /\ clock \in Int
  BY Edits
<1>1. ASSUME NEW t \in Threads, call(t) PROVE FALSE
  BY <1>1, RuleCacheAssumption DEF call, RuleCacheAssumption
<1>2. ASSUME NEW t \in Threads,
             stat_changed(t) \/ stat_unchanged(t) \/ stat_again(t) \/ open(t) \/ store(t)
      PROVE FALSE
  <2>1. lock = t
    BY <1>2 DEF stat_changed, stat_unchanged, stat_again, open, store, Locking, Inside, Reloading
  <2>2. lock' = lock
    BY <1>2 DEF stat_changed, stat_unchanged, stat_again, open, store
  <2> QED BY <2>1, <2>2, RuleCacheAssumption DEF RuleCacheAssumption
<1>3. ASSUME NEW t \in Threads, unlock(t) PROVE gRules'.edit >= settled'
  <2>1. Suffices(t, gRules.edit) BY <1>3 DEF unlock, CallSuffices
  <2>2. UNCHANGED <<gRules, gCheck, clock, settled>> BY <1>3 DEF unlock
  <2> QED BY <2>1, <2>2 DEF Suffices
<1>4. ASSUME (\E t \in Threads : used(t)) \/ save \/ remove \/ UNCHANGED vars
      PROVE gRules'.edit >= settled'
  <2>1. UNCHANGED <<gRules, gLoaded, gCheck, clock, settled, lock>>
    BY <1>4 DEF used, save, remove, vars
  <2>2. gLoaded /\ gCheck = clock /\ lock = NoThread BY <2>1
  <2>3. gRules.edit >= settled BY <2>2 DEF CacheSuffices
  <2> QED BY <2>1, <2>3
<1>5. CASE second
  <2>1. gCheck' = gCheck /\ clock' = clock + 1 /\ gCheck <= clock
    BY <1>5 DEF second, Counting
  <2>2. gCheck = clock + 1 BY <2>1
  <2> QED BY ONLY <2>1, <2>2, <1>e
<1> QED BY <1>1, <1>2, <1>3, <1>4, <1>5 DEF Next

LEMMA ServedKept == JInv /\ [Next]_vars => ServedWithinSecond'
<1> SUFFICES ASSUME JInv, [Next]_vars, NEW u \in Threads, At(u, "use")'
             PROVE got'[u].edit >= owed'[u]
  BY DEF ServedWithinSecond, At
<1> USE DEF JInv, IInv, At, Goto, world, cache, locals
<1>p. /\ pc \in [Threads -> {"idle", "stat", "stat again", "open", "store", "unlock", "use"}]
      /\ got \in [Threads -> Loaded] /\ owed \in [Threads -> 0..MaxEdits]
  BY DEF TypeOK, CallsOK
<1>s. At(u, "use") => got[u].edit >= owed[u]
  BY DEF ServedWithinSecond
<1>1. ASSUME NEW t \in Threads, unlock(t) PROVE got'[u].edit >= owed'[u]
  <2>1. CASE u = t
    <3>1. Suffices(u, gRules.edit) BY <1>1, <2>1 DEF unlock, CallSuffices
    <3>2. got'[u] = gRules /\ owed' = owed BY <1>1, <2>1, <1>p DEF unlock
    <3> QED BY <3>1, <3>2 DEF Suffices
  <2>2. CASE u # t
    <3>1. At(u, "use") /\ got'[u] = got[u] /\ owed' = owed
      BY <1>1, <2>2, <1>p DEF unlock
    <3> QED BY <3>1, <1>s
  <2> QED BY <2>1, <2>2
<1>2. ASSUME NEW t \in Threads, call(t) \/ used(t) PROVE got'[u].edit >= owed'[u]
  <2>1. u # t /\ At(u, "use") BY <1>2, <1>p DEF call, used
  <2>2. got'[u] = got[u] /\ owed'[u] = owed[u] BY <1>2, <2>1, <1>p DEF call, used
  <2> QED BY <2>1, <2>2, <1>s
<1>3. ASSUME NEW t \in Threads,
             stat_changed(t) \/ stat_unchanged(t) \/ stat_again(t) \/ open(t) \/ store(t)
      PROVE got'[u].edit >= owed'[u]
  <2>1. UNCHANGED <<got, owed>>
    BY <1>3 DEF stat_changed, stat_unchanged, stat_again, open, store
  <2>2. At(u, "use")
    BY <1>3, <1>p DEF stat_changed, stat_unchanged, stat_again, open, store
  <2> QED BY <2>1, <2>2, <1>s
<1>4. CASE save \/ remove \/ second \/ UNCHANGED vars
  <2>1. UNCHANGED <<pc, got, owed>> BY <1>4 DEF save, remove, second, vars
  <2> QED BY <2>1, <1>s
<1> QED BY <1>1, <1>2, <1>3, <1>4 DEF Next

LEMMA JInvKept == OnceASecond /\ JInv /\ [Next]_vars => JInv'
<1> SUFFICES ASSUME OnceASecond, JInv, [Next]_vars PROVE JInv'
  OBVIOUS
<1>1. IInv' BY IInvKept DEF JInv
<1>2. Counting' BY CountingKept DEF JInv, IInv
<1>3. CallSuffices' BY CallSufficesKept
<1>4. CacheSuffices' BY CacheSufficesKept
<1>5. ServedWithinSecond' BY ServedKept
<1> QED BY <1>1, <1>2, <1>3, <1>4, <1>5 DEF JInv

(* "An edit applies without restarting anything ... throttled to once a    *)
(* second": while no two saves fall into one second, a call gets the file  *)
(* as it was when the second it was made in began, or as it is since.      *)
THEOREM ServedCorrect == OnceASecond /\ Spec => []ServedWithinSecond
<1>1. ASSUME OnceASecond PROVE Spec => []ServedWithinSecond
  <2>1. Init => JInv BY <1>1, InitServed
  <2>2. JInv /\ [Next]_vars => JInv' BY <1>1, JInvKept
  <2>3. JInv => ServedWithinSecond BY DEF JInv
  <2> QED BY <2>1, <2>2, <2>3, PTL DEF Spec
<1> QED BY <1>1

-----------------------------------------------------------------------------
(* The matcher (Glob) and any pattern and string.  Behind the last "*" the *)
(* pass is at the first place it can be: no way to fit the pattern ends    *)
(* that "*" earlier (Least of all), and since a "*" takes no slash, every  *)
(* way has come past as many slashes as the pass has.  That is why it need *)
(* not try an earlier "*" again.                                           *)
Base == IF star = 0 THEN 0 ELSE star - 1
From == IF star = 0 THEN 0 ELSE sp - 1

SoFar(k, n) ==
  \E c \in G!Cuts : G!End(c, k) = n /\ \A j \in 1..k : G!Takes(c, j)

SlashesTo(n) == {j \in 1..n : s[j] = "/"}
Slashes(n) == Cardinality(SlashesTo(n))

Placed ==
  /\ pattern \in Patterns /\ s \in Strings
  /\ p \in 1..(Len(pattern) + 1) /\ i \in 1..(Len(s) + 1)
  /\ star \in 0..p /\ sp \in 0..i /\ i - 1 = From + (p - 1 - Base)
  /\ star # 0 => star >= 2 /\ sp >= 1 /\ pattern[star - 1] = "*"
  /\ state \in {"matching", "matched", "no match"}
  /\ state = "matching" => p <= Len(pattern)

(* Where any way to fit the pattern is, compared with the pass.            *)
NotBefore(c, q, j, b, v) ==
  /\ G!End(c, b) >= v /\ G!End(c, q - 1) = G!End(c, b) + (q - 1 - b)
  /\ Slashes(G!End(c, b)) = Slashes(v) /\ Slashes(G!End(c, q - 1)) = Slashes(j - 1)
OnTheWay(q, j, b, v) ==
  SoFar(b, v) /\ SoFar(q - 1, j - 1) /\ \A c \in G!Fits : NotBefore(c, q, j, b, v)

Shortest(n) == SoFar(Len(pattern), n) /\ \A c \in G!Fits : c[Len(pattern)] >= n
Right ==
  /\ state = "matching" => OnTheWay(p, i, Base, From)
  /\ state = "matched" => Shortest(i - 1)
  /\ state = "no match" => G!Fits = {}

LEMMA Lengths ==
  ASSUME G!GlobAssumption, Placed
  PROVE  /\ Len(pattern) \in Nat \ {0} /\ DOMAIN pattern = 1..Len(pattern)
         /\ Len(s) \in Nat /\ DOMAIN s = 1..Len(s)
<1>1. pattern \in Patterns \cup Strings /\ s \in Patterns \cup Strings /\ pattern \in Patterns
  BY DEF Placed
<1>2. /\ Len(pattern) \in Nat /\ DOMAIN pattern = 1..Len(pattern) /\ Len(pattern) > 0
      /\ Len(s) \in Nat /\ DOMAIN s = 1..Len(s)
  BY <1>1 DEF G!GlobAssumption
<1> QED BY <1>2

LEMMA PlacedAt ==
  ASSUME G!GlobAssumption, Placed
  PROVE  /\ p \in 1..(Len(pattern) + 1) /\ i \in 1..(Len(s) + 1) /\ p \in Nat /\ i \in Nat
         /\ p - 1 \in 0..Len(pattern) /\ i - 1 \in 0..Len(s) /\ i - 1 \in Nat
         /\ (p + 1) - 1 = p /\ (i + 1) - 1 = i /\ (i - 1) + 1 = i
         /\ Base \in 0..(p - 1) /\ Base \in 0..Len(pattern) /\ Base \in Nat /\ From \in Nat
         /\ i - 1 = From + (p - 1 - Base)
         /\ p <= Len(pattern) => p \in 1..Len(pattern)
         /\ i <= Len(s) => i \in 1..Len(s)
<1> DEFINE len == Len(pattern)  n == Len(s)
<1>1. /\ len \in Nat /\ n \in Nat /\ p \in 1..(len + 1) /\ i \in 1..(n + 1)
      /\ star \in 0..p /\ sp \in 0..i /\ (star # 0 => star >= 2 /\ sp >= 1)
      /\ i - 1 = From + (p - 1 - Base)
  BY Lengths DEF Placed
<1> HIDE DEF len, n
<1>2. Base \in 0..(p - 1) /\ From \in Nat
  BY <1>1 DEF Base, From
<1> HIDE DEF Base, From
<1>3. /\ p \in Nat /\ i \in Nat /\ p - 1 \in 0..len /\ i - 1 \in 0..n /\ i - 1 \in Nat
      /\ (p + 1) - 1 = p /\ (i + 1) - 1 = i /\ (i - 1) + 1 = i
      /\ p <= len => p \in 1..len
      /\ i <= n => i \in 1..n
  BY <1>1
<1>4. Base \in 0..len /\ Base \in Nat
  BY <1>1, <1>2
<1> QED BY <1>1, <1>2, <1>3, <1>4 DEF len, n

(* A way to fit a pattern, character by character.                         *)
LEMMA EndIs ==
  ASSUME G!GlobAssumption, Placed, NEW c \in G!Cuts, NEW k \in 0..Len(pattern)
  PROVE  G!End(c, k) \in 0..Len(s)
BY Lengths DEF G!Cuts, G!End

LEMMA LiteralEnd ==
  ASSUME G!GlobAssumption, Placed, NEW k \in 1..Len(pattern), pattern[k] # "*",
         NEW n \in 1..Len(s), s[n] = pattern[k], SoFar(k - 1, n - 1)
  PROVE  SoFar(k, n)
<1>1. PICK c \in G!Cuts : G!End(c, k - 1) = n - 1 /\ \A j \in 1..(k - 1) : G!Takes(c, j)
  BY DEF SoFar
<1> DEFINE d == [c EXCEPT ![k] = n]
<1>2. d \in G!Cuts /\ d[k] = n /\ \A j \in 0..(k - 1) : G!End(d, j) = G!End(c, j)
  BY Lengths DEF G!Cuts, G!End
<1>3. \A j \in 1..(k - 1) : d[j] = c[j]
  BY Lengths DEF G!Cuts
<1> HIDE DEF d
<1>4. ASSUME NEW j \in 1..k PROVE G!Takes(d, j)
  <2>1. CASE j = k
    <3>1. G!End(d, k - 1) = n - 1
      BY <1>1, <1>2
    <3> QED BY <1>2, <2>1, <3>1 DEF G!Takes
  <2>2. CASE j # k
    <3>1. G!Takes(c, j) /\ j - 1 \in 0..(k - 1) /\ j \in 1..(k - 1)
      BY <1>1, <2>2
    <3>2. G!End(d, j - 1) = G!End(c, j - 1) /\ d[j] = c[j]
      BY <1>2, <1>3, <3>1
    <3> QED BY <3>1, <3>2 DEF G!Takes
  <2> QED BY <2>1, <2>2
<1>5. G!End(d, k) = n
  BY <1>2 DEF G!End
<1> QED BY <1>2, <1>4, <1>5 DEF SoFar

(* A "*" may take nothing, or one more character that is no slash.         *)
LEMMA StarEnd ==
  ASSUME G!GlobAssumption, Placed, NEW k \in 1..Len(pattern), pattern[k] = "*",
         NEW n \in 0..Len(s),
         SoFar(k - 1, n) \/ (n > 0 /\ SoFar(k, n - 1) /\ s[n] # "/")
  PROVE  SoFar(k, n)
<1>1. PICK c \in G!Cuts :
        /\ \A j \in 1..(k - 1) : G!Takes(c, j)
        /\ G!End(c, k - 1) <= n /\ \A j \in (G!End(c, k - 1) + 1)..n : s[j] # "/"
  <2>1. CASE SoFar(k - 1, n)
    <3>1. PICK c \in G!Cuts : G!End(c, k - 1) = n /\ \A j \in 1..(k - 1) : G!Takes(c, j)
      BY <2>1 DEF SoFar
    <3> QED BY <3>1
  <2>2. CASE n > 0 /\ SoFar(k, n - 1) /\ s[n] # "/"
    <3>1. PICK c \in G!Cuts : G!End(c, k) = n - 1 /\ \A j \in 1..k : G!Takes(c, j)
      BY <2>2 DEF SoFar
    <3>2. /\ G!Takes(c, k) /\ c[k] = n - 1 /\ G!End(c, k - 1) \in 0..Len(s)
          /\ \A j \in 1..(k - 1) : G!Takes(c, j)
      BY <3>1, EndIs, Lengths DEF G!End
    <3>3. G!End(c, k - 1) <= n - 1 /\ \A j \in (G!End(c, k - 1) + 1)..(n - 1) : s[j] # "/"
      BY <3>2 DEF G!Takes
    <3>4. \A j \in (G!End(c, k - 1) + 1)..n : s[j] # "/"
      BY <2>2, <3>2, <3>3
    <3> QED BY <3>2, <3>3, <3>4
  <2> QED BY <2>1, <2>2
<1> DEFINE d == [c EXCEPT ![k] = n]
<1>2. d \in G!Cuts /\ d[k] = n /\ \A j \in 0..(k - 1) : G!End(d, j) = G!End(c, j)
  BY Lengths DEF G!Cuts, G!End
<1>3. \A j \in 1..(k - 1) : d[j] = c[j]
  BY Lengths DEF G!Cuts
<1> HIDE DEF d
<1>4. ASSUME NEW j \in 1..k PROVE G!Takes(d, j)
  <2>1. CASE j = k
    <3>1. G!End(d, k - 1) = G!End(c, k - 1)
      BY <1>2
    <3> QED BY <1>1, <1>2, <2>1, <3>1 DEF G!Takes
  <2>2. CASE j # k
    <3>1. G!Takes(c, j) /\ j - 1 \in 0..(k - 1) /\ j \in 1..(k - 1)
      BY <1>1, <2>2
    <3>2. G!End(d, j - 1) = G!End(c, j - 1) /\ d[j] = c[j]
      BY <1>2, <1>3, <3>1
    <3> QED BY <3>1, <3>2 DEF G!Takes
  <2> QED BY <2>1, <2>2
<1>5. G!End(d, k) = n
  BY <1>2 DEF G!End
<1> QED BY <1>2, <1>4, <1>5 DEF SoFar

-----------------------------------------------------------------------------
(* Slashes in a prefix.                                                    *)
LEMMA SlashCount ==
  ASSUME NEW len \in Nat, NEW n \in Nat, len <= n
  PROVE  /\ Slashes(len) \in Nat /\ Slashes(n) \in Nat /\ Slashes(len) <= Slashes(n)
         /\ (\A j \in (len + 1)..n : s[j] # "/") => Slashes(n) = Slashes(len)
         /\ s[n + 1] = "/" => Slashes(n + 1) = Slashes(n) + 1
         /\ s[n + 1] # "/" => Slashes(n + 1) = Slashes(n)
<1>1. \A k \in Nat : IsFiniteSet(SlashesTo(k))
  <2> TAKE k \in Nat
  <2>1. SlashesTo(k) \subseteq 1..k
    BY DEF SlashesTo
  <2>2. IsFiniteSet(1..k)
    BY FS_Interval
  <2> QED BY <2>1, <2>2, FS_Subset
<1>2. SlashesTo(len) \subseteq SlashesTo(n)
  BY DEF SlashesTo
<1>3. (\A j \in (len + 1)..n : s[j] # "/") => SlashesTo(n) = SlashesTo(len)
  BY DEF SlashesTo
<1>4. s[n + 1] = "/" => SlashesTo(n + 1) = SlashesTo(n) \cup {n + 1}
  BY DEF SlashesTo
<1>5. s[n + 1] # "/" => SlashesTo(n + 1) = SlashesTo(n)
  BY DEF SlashesTo
<1>6. n + 1 \notin SlashesTo(n)
  BY DEF SlashesTo
<1>7. Slashes(len) \in Nat /\ Slashes(n) \in Nat /\ Slashes(len) <= Slashes(n)
  BY <1>1, <1>2, FS_CardinalityType, FS_Subset DEF Slashes
<1>8. s[n + 1] = "/" => Slashes(n + 1) = Slashes(n) + 1
  BY <1>1, <1>4, <1>6, FS_AddElement DEF Slashes
<1> QED BY <1>3, <1>5, <1>7, <1>8 DEF Slashes

-----------------------------------------------------------------------------
(* What a way to fit the pattern does at its k-th character.               *)
LEMMA FitStep ==
  ASSUME G!GlobAssumption, Placed, NEW c \in G!Fits, NEW k \in 1..Len(pattern)
  PROVE  /\ G!End(c, k) \in 0..Len(s) /\ G!End(c, k - 1) \in 0..Len(s)
         /\ pattern[k] = "*" => /\ G!End(c, k - 1) <= G!End(c, k)
                                /\ Slashes(G!End(c, k)) = Slashes(G!End(c, k - 1))
         /\ pattern[k] # "*" => G!End(c, k) = G!End(c, k - 1) + 1 /\ s[G!End(c, k)] = pattern[k]
<1>1. c \in G!Cuts /\ G!Takes(c, k) /\ G!End(c, k) = c[k]
  BY Lengths DEF G!Fits, G!End
<1>2. G!End(c, k) \in 0..Len(s) /\ G!End(c, k - 1) \in 0..Len(s)
  BY <1>1, EndIs, Lengths
<1>3. CASE pattern[k] = "*"
  <2>1. G!End(c, k - 1) <= G!End(c, k) /\ \A j \in (G!End(c, k - 1) + 1)..G!End(c, k) : s[j] # "/"
    BY <1>1, <1>3 DEF G!Takes
  <2>2. G!End(c, k) \in Nat /\ G!End(c, k - 1) \in Nat
    BY <1>2, Lengths
  <2> QED BY <1>2, <1>3, <2>1, <2>2, SlashCount
<1>4. CASE pattern[k] # "*"
  BY <1>1, <1>2, <1>4 DEF G!Takes
<1> QED BY <1>2, <1>3, <1>4

LEMMA AtWildcard ==
  ASSUME G!GlobAssumption, Placed, OnTheWay(p, i, Base, From), p <= Len(pattern), pattern[p] = "*"
  PROVE  OnTheWay(p + 1, i, p, i - 1)
<1>1. p \in 1..Len(pattern) /\ i - 1 \in 0..Len(s) /\ p - 1 \in 0..Len(pattern)
  BY PlacedAt
<1>2. SoFar(p, i - 1)
  BY <1>1, StarEnd DEF OnTheWay
<1>3. ASSUME NEW c \in G!Fits PROVE NotBefore(c, p + 1, i, p, i - 1)
  <2>1. /\ G!End(c, p) \in 0..Len(s) /\ G!End(c, p - 1) \in 0..Len(s)
        /\ G!End(c, p - 1) <= G!End(c, p) /\ Slashes(G!End(c, p)) = Slashes(G!End(c, p - 1))
    BY <1>1, FitStep
  <2>2. G!End(c, p - 1) >= i - 1 /\ Slashes(G!End(c, p - 1)) = Slashes(i - 1)
    <3>1. NotBefore(c, p, i, Base, From)
      BY DEF OnTheWay
    <3>2. /\ G!End(c, Base) >= From /\ G!End(c, p - 1) = G!End(c, Base) + (p - 1 - Base)
          /\ i - 1 = From + (p - 1 - Base) /\ G!End(c, Base) \in Int /\ From \in Int /\ Base \in Int /\ p \in Int
      <4>1. Base \in 0..Len(pattern)
        BY PlacedAt
      <4>2. G!End(c, Base) \in 0..Len(s)
        BY <4>1, EndIs DEF G!Fits
      <4>3. G!End(c, Base) \in Int
        BY <4>2, Lengths
      <4> QED BY <3>1, <4>3, PlacedAt DEF NotBefore
    <3>3. G!End(c, p - 1) >= i - 1
      <4> DEFINE e == G!End(c, Base)  f == From  b == Base
      <4> HIDE DEF e, f, b
      <4>1. e >= f /\ G!End(c, p - 1) = e + (p - 1 - b) /\ i - 1 = f + (p - 1 - b) /\ e \in Int /\ f \in Int /\ b \in Int /\ p \in Int
        BY <3>2 DEF e, f, b
      <4> QED BY <4>1
    <3> QED BY <3>1, <3>3 DEF NotBefore
  <2>3. (p + 1) - 1 = p /\ p \in Nat
    BY PlacedAt
  <2> DEFINE e == G!End(c, p)
  <2>4. e \in Nat
    BY <2>1, Lengths
  <2>5. e = e + ((p + 1) - 1 - p)
    BY <2>3, <2>4
  <2>6. e >= i - 1
    <3>1. G!End(c, p - 1) \in Nat /\ i - 1 \in Nat
      BY <2>1, Lengths, PlacedAt
    <3> QED BY <2>1, <2>2, <2>4, <3>1
  <2>7. Slashes(e) = Slashes(i - 1)
    BY <2>1, <2>2
  <2> QED BY <2>3, <2>5, <2>6, <2>7 DEF NotBefore
<1>4. (p + 1) - 1 = p
  BY PlacedAt
<1>5. SoFar((p + 1) - 1, i - 1)
  BY <1>2, <1>4
<1> QED BY <1>2, <1>3, <1>5 DEF OnTheWay

LEMMA AtLiteral ==
  ASSUME G!GlobAssumption, Placed, OnTheWay(p, i, Base, From), p <= Len(pattern), i <= Len(s),
         pattern[p] # "*", pattern[p] = s[i]
  PROVE  OnTheWay(p + 1, i + 1, Base, From)
<1>1. /\ p \in 1..Len(pattern) /\ i \in 1..Len(s) /\ p - 1 \in 0..Len(pattern)
      /\ (p + 1) - 1 = p /\ (i + 1) - 1 = i /\ i - 1 \in Nat /\ (i - 1) + 1 = i
  BY PlacedAt
<1>2. SoFar(p, i)
  BY <1>1, LiteralEnd DEF OnTheWay
<1>3. ASSUME NEW c \in G!Fits PROVE NotBefore(c, p + 1, i + 1, Base, From)
  <2>1. /\ G!End(c, p) \in 0..Len(s) /\ G!End(c, p - 1) \in 0..Len(s)
        /\ G!End(c, p) = G!End(c, p - 1) + 1 /\ s[G!End(c, p)] = pattern[p]
    BY <1>1, FitStep
  <2>2. NotBefore(c, p, i, Base, From)
    BY DEF OnTheWay
  <2>3. Slashes(G!End(c, p)) = Slashes(i)
    <3>1. Slashes(G!End(c, p - 1)) = Slashes(i - 1)
      BY <2>2 DEF NotBefore
    <3>2. G!End(c, p - 1) \in Nat /\ i - 1 \in Nat
      BY <1>1, <2>1, Lengths
    <3>3. s[G!End(c, p - 1) + 1] = s[(i - 1) + 1]
      BY <1>1, <2>1
    <3>4. ASSUME NEW k \in Nat, NEW n \in Nat, s[k + 1] = s[n + 1], Slashes(k) = Slashes(n)
          PROVE  Slashes(k + 1) = Slashes(n + 1)
      <4>1. k <= k /\ n <= n
        OBVIOUS
      <4>2. /\ s[k + 1] = "/" => Slashes(k + 1) = Slashes(k) + 1
            /\ s[k + 1] # "/" => Slashes(k + 1) = Slashes(k)
        BY <4>1, SlashCount
      <4>3. /\ s[n + 1] = "/" => Slashes(n + 1) = Slashes(n) + 1
            /\ s[n + 1] # "/" => Slashes(n + 1) = Slashes(n)
        BY <4>1, SlashCount
      <4> QED BY <3>4, <4>2, <4>3
    <3> QED BY <1>1, <2>1, <3>1, <3>2, <3>3, <3>4
  <2>4. G!End(c, p) = G!End(c, Base) + ((p + 1) - 1 - Base)
    <3>1. Base \in 0..Len(pattern)
      BY PlacedAt
    <3>2. G!End(c, Base) \in 0..Len(s)
      BY <3>1, EndIs DEF G!Fits
    <3> DEFINE e == G!End(c, Base)  b == Base  f == G!End(c, p - 1)
    <3>3. f = e + (p - 1 - b) /\ G!End(c, p) = f + 1 /\ e \in Int /\ b \in Int /\ p \in Int
      BY <1>1, <2>1, <2>2, <3>1, <3>2, Lengths DEF NotBefore
    <3> HIDE DEF e, b, f
    <3>4. G!End(c, p) = e + ((p + 1) - 1 - b)
      BY <3>3
    <3> QED BY <3>4 DEF e, b
  <2>5. G!End(c, Base) >= From /\ Slashes(G!End(c, Base)) = Slashes(From)
    BY <2>2 DEF NotBefore
  <2>6. G!End(c, (p + 1) - 1) = G!End(c, p) /\ Slashes((i + 1) - 1) = Slashes(i)
    BY <1>1
  <2>7. /\ G!End(c, (p + 1) - 1) = G!End(c, Base) + ((p + 1) - 1 - Base)
        /\ Slashes(G!End(c, (p + 1) - 1)) = Slashes((i + 1) - 1)
    BY <2>3, <2>4, <2>6
  <2> QED BY <2>5, <2>7 DEF NotBefore
<1> QED BY <1>1, <1>2, <1>3 DEF OnTheWay

(* Where the pass fails, no way ends the last "*" where the pass does.     *)
LEMMA AtMismatch ==
  ASSUME G!GlobAssumption, Placed, OnTheWay(p, i, Base, From), p <= Len(pattern), i <= Len(s),
         pattern[p] # "*", pattern[p] # s[i], NEW c \in G!Fits
  PROVE  /\ G!End(c, Base) \in Nat /\ G!End(c, Base) >= From + 1
         /\ Slashes(G!End(c, Base)) = Slashes(From)
<1>1. p \in 1..Len(pattern) /\ Base \in 0..Len(pattern) /\ From \in Nat /\ Base \in Nat /\ p \in Nat
      /\ i - 1 = From + (p - 1 - Base) /\ (i - 1) + 1 = i
  BY PlacedAt
<1>2. G!End(c, Base) \in Nat
  <2>1. G!End(c, Base) \in 0..Len(s)
    BY <1>1, EndIs DEF G!Fits
  <2> QED BY <2>1, Lengths
<1>3. NotBefore(c, p, i, Base, From)
  BY DEF OnTheWay
<1>4. ASSUME G!End(c, Base) = From PROVE FALSE
  <2>1. G!End(c, p - 1) = i - 1
    BY <1>1, <1>3, <1>4 DEF NotBefore
  <2>2. G!End(c, p) = G!End(c, p - 1) + 1 /\ s[G!End(c, p)] = pattern[p]
    BY <1>1, FitStep
  <2>3. G!End(c, p) = i
    BY <1>1, <2>1, <2>2
  <2> QED BY <2>2, <2>3
<1>5. G!End(c, Base) >= From /\ Slashes(G!End(c, Base)) = Slashes(From)
  BY <1>3 DEF NotBefore
<1>6. G!End(c, Base) >= From + 1
  <2> DEFINE e == G!End(c, Base)  f == From
  <2>1. e \in Nat /\ f \in Nat /\ e >= f /\ e # f
    BY <1>1, <1>2, <1>4, <1>5
  <2> HIDE DEF e, f
  <2>2. e >= f + 1
    BY <2>1
  <2> QED BY <2>2 DEF e, f
<1> QED BY <1>2, <1>5, <1>6

LEMMA AtBackUp ==
  ASSUME G!GlobAssumption, Placed, OnTheWay(p, i, Base, From), p <= Len(pattern), i <= Len(s),
         pattern[p] # "*", pattern[p] # s[i], star # 0, s[sp] # "/"
  PROVE  OnTheWay(star, sp + 1, Base, From + 1)
<1>1. /\ Base = star - 1 /\ From = sp - 1 /\ star \in Nat /\ sp \in Nat /\ star >= 2 /\ sp >= 1 /\ sp <= i
      /\ pattern[star - 1] = "*"
  <2>1. star \in 0..p /\ sp \in 0..i /\ star >= 2 /\ sp >= 1 /\ pattern[star - 1] = "*"
    BY DEF Placed
  <2>2. p \in Nat /\ i \in Nat
    BY PlacedAt
  <2> QED BY <2>1, <2>2 DEF Base, From
<1>2. /\ From \in Nat /\ From + 1 = sp /\ From + 1 \in 0..Len(s) /\ (From + 1) - 1 = From
      /\ Base \in 1..Len(pattern) /\ star - 1 = Base /\ (sp + 1) - 1 = From + 1
  <2> DEFINE n == Len(s)  len == Len(pattern)
  <2>1. n \in Nat /\ len \in Nat /\ i \in Nat /\ i <= n /\ Base \in 0..len
    BY Lengths, PlacedAt
  <2> HIDE DEF n, len
  <2>2. /\ From \in Nat /\ From + 1 = sp /\ From + 1 \in 0..n /\ (From + 1) - 1 = From
        /\ Base \in 1..len /\ star - 1 = Base /\ (sp + 1) - 1 = From + 1
    BY <1>1, <2>1
  <2> QED BY <2>2 DEF n, len
<1>3. SoFar(Base, From + 1)
  <2>1. SoFar(Base, From) /\ pattern[Base] = "*" /\ s[From + 1] # "/" /\ From + 1 > 0
    BY <1>1, <1>2 DEF OnTheWay
  <2>2. SoFar(Base, (From + 1) - 1)
    BY <1>2, <2>1
  <2> QED BY <1>2, <2>1, <2>2, StarEnd
<1>4. Slashes(From + 1) = Slashes(From)
  <2>1. From <= From /\ s[From + 1] # "/"
    BY <1>2
  <2> QED BY <1>2, <2>1, SlashCount
<1>5. ASSUME NEW c \in G!Fits PROVE NotBefore(c, star, sp + 1, Base, From + 1)
  <2>1. /\ G!End(c, Base) \in Nat /\ G!End(c, Base) >= From + 1
        /\ Slashes(G!End(c, Base)) = Slashes(From)
    BY AtMismatch
  <2>2. G!End(c, Base) = G!End(c, Base) + (star - 1 - Base)
    <3> DEFINE e == G!End(c, Base)  b == Base
    <3>1. e \in Nat /\ b \in Nat /\ star \in Nat /\ star - 1 = b
      BY <1>1, <1>2, <2>1, PlacedAt
    <3> HIDE DEF e, b
    <3>2. e = e + (star - 1 - b)
      BY <3>1
    <3> QED BY <3>2 DEF e, b
  <2> QED BY <1>2, <1>4, <2>1, <2>2 DEF NotBefore
<1>6. SoFar(star - 1, (sp + 1) - 1)
  BY <1>2, <1>3
<1> QED BY <1>3, <1>5, <1>6 DEF OnTheWay

LEMMA AtGiveUp ==
  ASSUME G!GlobAssumption, Placed, OnTheWay(p, i, Base, From), p <= Len(pattern), i <= Len(s),
         pattern[p] # "*", pattern[p] # s[i], star = 0 \/ s[sp] = "/"
  PROVE  G!Fits = {}
<1> SUFFICES ASSUME NEW c \in G!Fits PROVE FALSE
  OBVIOUS
<1>1. /\ G!End(c, Base) \in Nat /\ G!End(c, Base) >= From + 1
      /\ Slashes(G!End(c, Base)) = Slashes(From)
  BY AtMismatch
<1>2. CASE star = 0
  <2>1. Base = 0 /\ From = 0
    BY <1>2 DEF Base, From
  <2>2. G!End(c, 0) = 0
    BY DEF G!End
  <2> QED BY <1>1, <2>1, <2>2
<1>3. CASE star # 0 /\ s[sp] = "/"
  <2>1. From = sp - 1 /\ sp \in 0..i /\ i \in Nat
    BY <1>3, PlacedAt DEF From, Placed
  <2>2. From \in Nat /\ From + 1 \in Nat /\ From + 1 = sp /\ From <= From
    BY <2>1, PlacedAt
  <2>3. Slashes(From + 1) = Slashes(From) + 1 /\ Slashes(From) \in Nat
    BY <1>3, <2>2, SlashCount
  <2>4. Slashes(From + 1) <= Slashes(G!End(c, Base))
    BY <1>1, <2>2, SlashCount
  <2> QED BY <1>1, <2>3, <2>4
<1> QED BY <1>2, <1>3

LEMMA AtPatternEnd ==
  ASSUME G!GlobAssumption, Placed, NEW j, NEW b, NEW v, OnTheWay(Len(pattern) + 1, j, b, v),
         v \in Nat, b \in 0..Len(pattern), j \in Nat, j - 1 = v + (Len(pattern) - b)
  PROVE  Shortest(j - 1)
<1>1. Len(pattern) \in Nat \ {0} /\ (Len(pattern) + 1) - 1 = Len(pattern)
  BY Lengths
<1>2. SoFar(Len(pattern), j - 1)
  BY <1>1 DEF OnTheWay
<1>3. ASSUME NEW c \in G!Fits PROVE c[Len(pattern)] >= j - 1
  <2> DEFINE e == G!End(c, b)  len == Len(pattern)  f == G!End(c, len)
  <2>1. e >= v /\ f = e + (len - b)
    BY <1>1 DEF OnTheWay, NotBefore
  <2>2. f = c[len]
    BY <1>1 DEF G!End
  <2>3. f \in Int /\ len \in Int /\ e \in Int /\ b \in Int
    <3>1. f \in 0..Len(s) /\ e \in 0..Len(s)
      BY <1>1, EndIs DEF G!Fits
    <3> QED BY <1>1, <3>1, Lengths
  <2> HIDE DEF e, len, f
  <2>4. f >= j - 1
    <3>1. j - 1 = v + (len - b)
      BY DEF len
    <3> QED BY <2>1, <2>3, <3>1
  <2> QED BY <2>2, <2>4 DEF len
<1> QED BY <1>2, <1>3 DEF Shortest

(* Where the string ends first, the rest of the pattern may take nothing.  *)
LEMMA AtStringEnd ==
  ASSUME G!GlobAssumption, Placed, OnTheWay(p, i, Base, From), p <= Len(pattern), i > Len(s)
  PROVE  /\ (\A k \in p..Len(pattern) : pattern[k] = "*") => Shortest(i - 1)
         /\ (\E k \in p..Len(pattern) : pattern[k] # "*") => G!Fits = {}
<1> DEFINE len == Len(pattern)  n == Len(s)
<1>1. len \in Nat \ {0} /\ n \in Nat /\ p \in 1..len /\ i - 1 = n /\ p - 1 \in 0..len
  <2>1. i \in 1..(n + 1) /\ n \in Nat
    BY Lengths, PlacedAt
  <2>2. i - 1 = n
    BY <2>1
  <2> QED BY <2>1, <2>2, Lengths, PlacedAt
(* All of the string is behind the pass, and so behind every way to fit.   *)
<1>2. ASSUME NEW c \in G!Fits PROVE G!End(c, p - 1) = n
  <2> DEFINE e == G!End(c, Base)  f == G!End(c, p - 1)  b == Base  v == From
  <2>1. e >= v /\ f = e + (p - 1 - b) /\ i - 1 = v + (p - 1 - b) /\ b \in 0..len /\ v \in Nat /\ p \in Nat
    BY PlacedAt DEF OnTheWay, NotBefore
  <2>2. f \in 0..n /\ e \in 0..n
    BY <1>1, <2>1, EndIs DEF G!Fits
  <2> HIDE DEF e, f, b, v
  <2>3. f = n
    BY <1>1, <2>1, <2>2
  <2> QED BY <2>3 DEF f
<1>3. ASSUME NEW c \in G!Fits, NEW k \in p..len
      PROVE  pattern[k] = "*" /\ G!End(c, k) = n
  <2> DEFINE Stray == {h \in p..len : ~(pattern[h] = "*" /\ G!End(c, h) = n)}
  <2>1. ASSUME NEW h \in Stray, \A g \in Stray : h <= g PROVE FALSE
    <3>1. h \in 1..len /\ h \in p..len /\ h - 1 \in Nat
      BY <1>1
    <3>2. G!End(c, h - 1) = n
      <4>1. CASE h = p
        BY <1>2, <4>1
      <4>2. CASE h # p
        <5>1. h - 1 \in p..len /\ ~(h <= h - 1)
          BY <1>1, <3>1, <4>2
        <5>2. h - 1 \notin Stray
          BY <2>1, <5>1
        <5> QED BY <5>1, <5>2
      <4> QED BY <4>1, <4>2
    <3>3. /\ G!End(c, h) \in 0..n
          /\ pattern[h] = "*" => G!End(c, h - 1) <= G!End(c, h)
          /\ pattern[h] # "*" => G!End(c, h) = G!End(c, h - 1) + 1
      BY <3>1, FitStep
    <3> QED BY <1>1, <3>2, <3>3
  <2>2. Stray \in SUBSET (1..len)
    BY <1>1
  <2> HIDE DEF Stray
  <2>3. Stray = {}
    <3>1. ASSUME Stray # {} PROVE FALSE
      <4>1. len \in Nat
        BY <1>1
      <4>2. \E h \in Stray : \A g \in Stray : h <= g
        BY <2>2, <3>1, <4>1, Least
      <4> QED BY <2>1, <4>2
    <3> QED BY <3>1
  <2> QED BY <2>3 DEF Stray
<1>4. (\E k \in p..len : pattern[k] # "*") => G!Fits = {}
  BY <1>3
<1>5. ASSUME \A k \in p..len : pattern[k] = "*" PROVE Shortest(i - 1)
  <2>1. SoFar(len, n)
    <3>1. PICK c \in G!Cuts : G!End(c, p - 1) = n /\ \A j \in 1..(p - 1) : G!Takes(c, j)
      BY <1>1 DEF OnTheWay, SoFar
    <3> DEFINE d == [k \in DOMAIN pattern |-> IF k < p THEN c[k] ELSE n]
    <3>2. d \in G!Cuts
      BY <1>1, Lengths DEF G!Cuts
    <3>3. /\ \A k \in 1..(p - 1) : d[k] = c[k]
          /\ \A k \in p..len : d[k] = n
      <4>1. DOMAIN pattern = 1..len /\ p \in Nat /\ len \in Nat /\ p >= 1
        BY <1>1, Lengths
      <4> QED BY <4>1
    <3> HIDE DEF d
    <3>4. /\ \A k \in 0..(p - 1) : G!End(d, k) = G!End(c, k)
          /\ \A k \in p..len : G!End(d, k) = n
      BY <1>1, <3>3 DEF G!End
    <3>5. ASSUME NEW j \in 1..len PROVE G!Takes(d, j)
      <4>1. CASE j < p
        <5>1. j \in 1..(p - 1) /\ j - 1 \in 0..(p - 1)
          BY <1>1, <4>1
        <5>2. G!Takes(c, j) /\ d[j] = c[j] /\ G!End(d, j - 1) = G!End(c, j - 1)
          BY <3>1, <3>3, <3>4, <5>1
        <5> QED BY <5>2 DEF G!Takes
      <4>2. CASE j >= p
        <5>1. j \in p..len /\ (j = p \/ j - 1 \in p..len)
          BY <1>1, <4>2
        <5>2. G!End(d, p - 1) = n
          BY <1>1, <3>1, <3>4
        <5>3. G!End(d, j - 1) = n /\ d[j] = n /\ pattern[j] = "*"
          BY <1>5, <3>3, <3>4, <5>1, <5>2
        <5>4. n <= n /\ (n + 1)..n = {}
          BY <1>1
        <5> QED BY <5>3, <5>4 DEF G!Takes
      <4> QED BY <1>1, <4>1, <4>2
    <3>6. G!End(d, len) = n
      BY <1>1, <3>4
    <3> QED BY <3>2, <3>5, <3>6 DEF SoFar
  <2>2. ASSUME NEW c \in G!Fits PROVE c[len] >= n
    <3>1. G!End(c, len) = n /\ len # 0
      BY <1>1, <1>3
    <3> QED BY <1>1, <3>1 DEF G!End
  <2> QED BY <1>1, <2>1, <2>2 DEF Shortest
<1> QED BY <1>4, <1>5

-----------------------------------------------------------------------------
(* The pattern and the string stay what they are.                          *)
LEMMA Carried ==
  ASSUME UNCHANGED <<pattern, s>>
  PROVE  /\ OnTheWay(p', i', Base', From') => OnTheWay(p, i, Base, From)'
         /\ Shortest(i' - 1) => Shortest(i - 1)'
         /\ G!Fits = {} => (G!Fits)' = {}
<1>1. /\ pattern' = pattern /\ s' = s
      /\ \A c, k : G!End(c, k)' = G!End(c, k)
      /\ \A c, k : G!Takes(c, k)' <=> G!Takes(c, k)
      /\ (G!Cuts)' = G!Cuts
  BY DEF G!Cuts, G!Takes, G!End
<1>2. (G!Fits)' = G!Fits
  BY <1>1 DEF G!Fits
<1>3. \A k, n : SoFar(k, n)' <=> SoFar(k, n)
  BY <1>1 DEF SoFar
<1>4. \A n : Slashes(n)' = Slashes(n)
  BY <1>1 DEF Slashes, SlashesTo
<1>5. \A c, q, j, b, v : NotBefore(c, q, j, b, v)' <=> NotBefore(c, q, j, b, v)
  BY <1>1, <1>4 DEF NotBefore
<1>6. \A q, j, b, v : OnTheWay(q, j, b, v)' <=> OnTheWay(q, j, b, v)
  BY <1>2, <1>3, <1>5 DEF OnTheWay
<1>7. \A n : Shortest(n)' <=> Shortest(n)
  BY <1>1, <1>2, <1>3 DEF Shortest
<1>8. OnTheWay(p', i', Base', From') => OnTheWay(p, i, Base, From)'
  <2>1. PICK q, j, b, v : q = p' /\ j = i' /\ b = Base' /\ v = From'
    OBVIOUS
  <2>2. OnTheWay(q, j, b, v)' => OnTheWay(p, i, Base, From)'
    BY <2>1 DEF OnTheWay, NotBefore
  <2> QED BY <1>6, <2>1, <2>2
<1>9. Shortest(i' - 1) => Shortest(i - 1)'
  <2>1. PICK n : n = i' - 1
    OBVIOUS
  <2>2. Shortest(n)' => Shortest(i - 1)'
    BY <2>1 DEF Shortest
  <2> QED BY <1>7, <2>1, <2>2
<1> QED BY <1>2, <1>8, <1>9

LEMMA PlacedNext ==
  G!GlobAssumption /\ Placed' =>
    /\ p' \in 1..(Len(pattern') + 1) /\ i' \in Nat /\ From' \in Nat /\ Base' \in 0..Len(pattern')
    /\ i' - 1 = From' + (p' - 1 - Base')
<1> DEFINE Now == /\ p \in 1..(Len(pattern) + 1) /\ i \in Nat /\ From \in Nat
                  /\ Base \in 0..Len(pattern) /\ i - 1 = From + (p - 1 - Base)
<1>1. G!GlobAssumption /\ Placed => Now
  BY PlacedAt
<1>2. (G!GlobAssumption /\ Placed => Now)'
  BY <1>1, PTL
<1>3. G!GlobAssumption => (G!GlobAssumption)'
  BY DEF G!GlobAssumption
<1> QED BY <1>2, <1>3

(* A step that goes on checks whether the pattern is used up.              *)
LEMMA Checked ==
  ASSUME G!GlobAssumption, Placed, UNCHANGED <<pattern, s>>, G!Check, Placed',
         OnTheWay(p', i', Base', From')
  PROVE  Right'
<1>1. OnTheWay(p, i, Base, From)'
  BY Carried
<1>2. CASE p' > Len(pattern)
  <2>1. state' = "matched"
    BY <1>2 DEF G!Check
  <2>2. /\ p' \in 1..(Len(pattern) + 1) /\ i' \in Nat /\ From' \in Nat /\ Base' \in 0..Len(pattern)
        /\ i' - 1 = From' + (p' - 1 - Base')
    BY PlacedNext
  <2>3. p' = Len(pattern) + 1
    BY <1>2, <2>2, Lengths
  <2>4. Shortest(i' - 1)
    <3>1. i' - 1 = From' + (Len(pattern) - Base')
      <4> DEFINE len == Len(pattern)
      <4>1. len \in Nat /\ Base' \in Int /\ p' = len + 1 /\ i' - 1 = From' + (p' - 1 - Base') /\ From' \in Nat
        BY <2>2, <2>3, Lengths
      <4> HIDE DEF len
      <4>2. i' - 1 = From' + (len - Base')
        BY <4>1
      <4> QED BY <4>2 DEF len
    <3>2. OnTheWay(Len(pattern) + 1, i', Base', From')
      BY <2>3
    <3> QED BY <2>2, <3>1, <3>2, AtPatternEnd
  <2> QED BY <2>1, <2>4, Carried DEF Right
<1>3. CASE ~(p' > Len(pattern))
  <2>1. state' = "matching"
    BY <1>3 DEF G!Check
  <2> QED BY <1>1, <2>1 DEF Right
<1> QED BY <1>2, <1>3

LEMMA MatcherKept ==
  ASSUME G!GlobAssumption, Placed, Right, [G!Next]_(G!vars)
  PROVE  Placed' /\ Right'
<1>1. CASE G!returned \/ UNCHANGED G!vars
  <2>1. UNCHANGED <<pattern, s, p, i, star, sp, state>>
    BY <1>1 DEF G!returned, G!vars, G!args
  <2>2. p' = p /\ i' = i /\ Base' = Base /\ From' = From
    BY <2>1 DEF Base, From
  <2>3. Placed'
    BY <2>1, <2>2 DEF Placed
  <2>4. /\ OnTheWay(p, i, Base, From) => OnTheWay(p, i, Base, From)'
        /\ Shortest(i - 1) => Shortest(i - 1)'
        /\ G!Fits = {} => (G!Fits)' = {}
    <3>1. (OnTheWay(p, i, Base, From) => OnTheWay(p', i', Base', From')) /\ i' - 1 = i - 1
      BY <2>2
    <3> QED BY <2>1, <3>1, Carried
  <2> QED BY <2>1, <2>3, <2>4 DEF Right
<1> DEFINE Going == /\ state = "matching" /\ p \in 1..Len(pattern) /\ p <= Len(pattern)
                    /\ OnTheWay(p, i, Base, From)
<1>2. state = "matching" => Going
  <2>1. state = "matching" => OnTheWay(p, i, Base, From) /\ p <= Len(pattern)
    BY DEF Right, Placed
  <2> QED BY <2>1, PlacedAt
<1>3. G!Looping => Going /\ i <= Len(s) /\ i \in 1..Len(s)
  BY <1>2, PlacedAt DEF G!Looping
<1>4. /\ Len(pattern) \in Nat /\ Len(s) \in Nat /\ p \in Nat /\ i \in Nat /\ Base \in 0..(p - 1)
      /\ From \in Nat /\ i - 1 = From + (p - 1 - Base) /\ i - 1 \in Nat
  BY Lengths, PlacedAt
<1>5. /\ pattern \in Patterns /\ s \in Strings /\ star \in 0..p /\ sp \in 0..i
      /\ star # 0 => star >= 2 /\ sp >= 1 /\ pattern[star - 1] = "*"
  BY DEF Placed
<1>6. CASE G!wildcard
  <2>1. /\ G!Looping /\ pattern[p] = "*" /\ p' = p + 1 /\ star' = p + 1 /\ sp' = i /\ G!Check
        /\ UNCHANGED <<pattern, s, i>>
    BY <1>6 DEF G!wildcard, G!args
  <2>2. Base' = p /\ From' = i - 1
    <3>1. star' # 0 /\ star' - 1 = p
      BY <1>4, <2>1
    <3> QED BY <2>1, <3>1 DEF Base, From
  <2>3. OnTheWay(p', i', Base', From')
    <3>1. OnTheWay(p + 1, i, p, i - 1)
      BY <1>3, <2>1, AtWildcard
    <3> QED BY <2>1, <2>2, <3>1
  <2>4. Placed'
    <3>1. p \in 1..Len(pattern) /\ i \in 1..(Len(s) + 1)
      BY <1>3, <2>1, PlacedAt
    <3>2. /\ p' \in 1..(Len(pattern) + 1) /\ star' \in 0..p' /\ sp' \in 0..i' /\ star' >= 2 /\ sp' >= 1
          /\ i' - 1 = From' + (p' - 1 - Base') /\ star' - 1 = p
      BY <1>4, <2>1, <2>2, <3>1
    <3>3. state' \in {"matching", "matched", "no match"} /\ (state' = "matching" => p' <= Len(pattern))
      BY <1>4, <2>1 DEF G!Check
    <3> QED BY <1>5, <2>1, <3>1, <3>2, <3>3 DEF Placed
  <2> QED BY <2>1, <2>3, <2>4, Checked
<1>7. CASE G!literal
  <2>1. /\ G!Looping /\ pattern[p] # "*" /\ pattern[p] = s[i] /\ p' = p + 1 /\ i' = i + 1 /\ G!Check
        /\ UNCHANGED <<pattern, s, star, sp>>
    BY <1>7 DEF G!literal, G!args, G!Same
  <2>2. Base' = Base /\ From' = From
    BY <2>1 DEF Base, From
  <2>3. OnTheWay(p', i', Base', From')
    <3>1. OnTheWay(p + 1, i + 1, Base, From)
      BY <1>3, <2>1, AtLiteral
    <3> QED BY <2>1, <2>2, <3>1
  <2>4. Placed'
    <3>1. p \in 1..Len(pattern) /\ i \in 1..Len(s)
      BY <1>3, <2>1
    <3>2. /\ p' \in 1..(Len(pattern) + 1) /\ i' \in 1..(Len(s) + 1) /\ star' \in 0..p' /\ sp' \in 0..i'
      BY <1>4, <1>5, <2>1, <3>1
    <3>3. i' - 1 = From' + (p' - 1 - Base')
      BY <1>4, <2>1, <2>2
    <3>4. state' \in {"matching", "matched", "no match"} /\ (state' = "matching" => p' <= Len(pattern))
      BY <1>4, <2>1 DEF G!Check
    <3> QED BY <1>5, <2>1, <3>2, <3>3, <3>4 DEF Placed
  <2> QED BY <2>1, <2>3, <2>4, Checked
<1>8. CASE G!back_up
  <2>1. /\ G!Looping /\ pattern[p] # "*" /\ pattern[p] # s[i] /\ star # 0 /\ s[sp] # "/"
        /\ p' = star /\ sp' = sp + 1 /\ i' = sp + 1 /\ G!Check /\ UNCHANGED <<pattern, s, star>>
    BY <1>8 DEF G!back_up, G!args, G!Same, G!CanBackUp
  <2>2. star \in Nat /\ sp \in Nat /\ star >= 2 /\ sp >= 1 /\ Base = star - 1 /\ From = sp - 1 /\ sp <= i
    BY <1>4, <1>5, <2>1 DEF Base, From
  <2>3. Base' = star - 1 /\ From' = From + 1
    <3>1. Base' = star' - 1 /\ From' = sp' - 1
      BY <2>1 DEF Base, From
    <3> QED BY <2>1, <2>2, <3>1
  <2>4. OnTheWay(p', i', Base', From')
    <3>1. OnTheWay(star, sp + 1, Base, From + 1)
      BY <1>3, <2>1, AtBackUp
    <3> QED BY <2>1, <2>2, <2>3, <3>1
  <2>5. Placed'
    <3>1. p \in 1..Len(pattern) /\ i \in 1..Len(s) /\ star <= p
      BY <1>3, <1>4, <1>5, <2>1
    <3>2. /\ p' \in 1..(Len(pattern) + 1) /\ i' \in 1..(Len(s) + 1) /\ star' \in 0..p' /\ sp' \in 0..i'
          /\ sp' >= 1
      BY <1>4, <2>1, <2>2, <3>1
    <3>3. i' - 1 = From' + (p' - 1 - Base')
      BY <1>4, <2>1, <2>2, <2>3
    <3>4. state' \in {"matching", "matched", "no match"} /\ (state' = "matching" => p' <= Len(pattern))
      BY <1>4, <2>1, <2>2 DEF G!Check
    <3> QED BY <1>5, <2>1, <2>2, <3>2, <3>3, <3>4 DEF Placed
  <2> QED BY <2>1, <2>4, <2>5, Checked
<1>9. CASE G!give_up
  <2>1. /\ G!Looping /\ pattern[p] # "*" /\ pattern[p] # s[i] /\ (star = 0 \/ s[sp] = "/")
        /\ state' = "no match" /\ UNCHANGED <<pattern, s, p, i, star, sp>>
    BY <1>9 DEF G!give_up, G!args, G!Same, G!CanBackUp
  <2>2. G!Fits = {}
    BY <1>3, <2>1, AtGiveUp
  <2>3. Base' = Base /\ From' = From
    BY <2>1 DEF Base, From
  <2>4. Placed'
    BY <2>1, <2>3 DEF Placed
  <2> QED BY <2>1, <2>2, <2>4, Carried DEF Right
<1>10. CASE G!at_end
  <2>1. /\ Going /\ i > Len(s) /\ UNCHANGED <<pattern, s, p, i, star, sp>>
        /\ state' = IF \A k \in p..Len(pattern) : pattern[k] = "*" THEN "matched" ELSE "no match"
    BY <1>2, <1>10 DEF G!at_end, G!args
  <2>2. /\ state' = "matched" => Shortest(i - 1)
        /\ state' = "no match" => G!Fits = {}
    BY <2>1, AtStringEnd
  <2>3. Base' = Base /\ From' = From /\ i' - 1 = i - 1
    BY <2>1 DEF Base, From
  <2>4. Placed'
    BY <2>1, <2>3 DEF Placed
  <2>5. /\ Shortest(i - 1) => Shortest(i - 1)'
        /\ G!Fits = {} => (G!Fits)' = {}
    BY <2>1, <2>3, Carried
  <2> QED BY <2>1, <2>2, <2>4, <2>5 DEF Right
<1> QED BY <1>1, <1>6, <1>7, <1>8, <1>9, <1>10 DEF G!Next

LEMMA MatcherStarts == ASSUME G!GlobAssumption, G!Init PROVE Placed /\ Right
<1> USE DEF G!Init
<1>1. Base = 0 /\ From = 0
  BY DEF Base, From
<1>2. /\ Len(pattern) \in Nat \ {0} /\ DOMAIN pattern = 1..Len(pattern)
      /\ Len(s) \in Nat /\ DOMAIN s = 1..Len(s)
  <2>1. pattern \in Patterns \cup Strings /\ s \in Patterns \cup Strings
    OBVIOUS
  <2>2. /\ Len(pattern) \in Nat /\ DOMAIN pattern = 1..Len(pattern) /\ Len(pattern) > 0
        /\ Len(s) \in Nat /\ DOMAIN s = 1..Len(s)
    BY <2>1 DEF G!GlobAssumption
  <2> QED BY <2>2
<1>3. Placed
  BY <1>1, <1>2 DEF Placed
<1>4. SoFar(0, 0)
  <2> DEFINE c == [k \in DOMAIN pattern |-> 0]
  <2>1. c \in G!Cuts
    BY <1>2 DEF G!Cuts
  <2> HIDE DEF c
  <2>2. \A j \in 1..0 : G!Takes(c, j)
    OBVIOUS
  <2> QED BY <2>1, <2>2 DEF SoFar, G!End
<1>5. OnTheWay(1, 1, 0, 0)
  <2>1. ASSUME NEW c \in G!Fits PROVE NotBefore(c, 1, 1, 0, 0)
    BY DEF NotBefore, G!End
  <2>2. 1 - 1 = 0
    OBVIOUS
  <2> QED BY <1>4, <2>1, <2>2 DEF OnTheWay
<1> QED BY <1>1, <1>3, <1>5 DEF Right

(* Whatever the pattern and the URL, a match accounts for the shortest     *)
(* prefix that fits the pattern, and there is none when glob_prefix        *)
(* answers no, though its one pass only ever backs up to the last "*"      *)
(* (aquatransport_config.c).                                               *)
THEOREM ShortestMatch ==
  ASSUME G!GlobAssumption
  PROVE  MCSpec => []MatchIsShortestPrefix
<1>1. MCInit => G!Init
  BY DEF MCInit
<1>2. [MCNext]_<<part, vars, reader, matcher, request>> => [G!Next]_(G!vars)
  BY DEF MCNext, matcher, G!vars, G!args
<1>3. ASSUME Placed, Right PROVE G!MatchIsShortestPrefix
  <2>1. ASSUME state = "matched"
        PROVE  G!Fitting # {} /\ G!consumed = G!Min(G!Fitting)
    <3>1. Shortest(i - 1) /\ Len(pattern) \in Nat \ {0} /\ DOMAIN pattern = 1..Len(pattern)
      BY <1>3, <2>1, Lengths DEF Right
    <3>2. PICK c \in G!Fits : c[Len(pattern)] = i - 1
      BY <3>1 DEF Shortest, SoFar, G!Fits, G!End
    <3>3. i - 1 \in G!Fitting
      BY <3>2 DEF G!Fitting
    <3>4. \A n \in G!Fitting : n \in Nat /\ i - 1 <= n
      <4> TAKE n \in G!Fitting
      <4>1. PICK d \in G!Fits : n = d[Len(pattern)]
        BY DEF G!Fitting
      <4>2. d \in G!Cuts /\ n >= i - 1
        BY <3>1, <4>1 DEF Shortest, G!Fits
      <4>3. n \in 0..Len(s)
        BY <3>1, <4>1, <4>2 DEF G!Cuts
      <4> QED BY <1>3, <4>2, <4>3, Lengths, PlacedAt
    <3>5. i - 1 \in Nat
      BY <1>3, PlacedAt
    <3>6. \A n \in G!Fitting : (\A k \in G!Fitting : n <= k) => n = i - 1
      BY <3>3, <3>4, <3>5
    <3> QED BY <3>3, <3>4, <3>6 DEF G!Min, G!consumed
  <2>2. state = "no match" => G!Fitting = {}
    BY <1>3 DEF Right, G!Fitting
  <2> QED BY <2>1, <2>2 DEF G!MatchIsShortestPrefix
<1> QED BY <1>1, <1>2, <1>3, MatcherStarts, MatcherKept, PTL DEF MCSpec, MatchIsShortestPrefix

(* How far the pass is: the place of its last "*", then where that backs   *)
(* up to, then the place in the string.  A step of the matcher only adds.  *)
Further ==
  \/ star' > star
  \/ star' = star /\ sp' > sp
  \/ star' = star /\ sp' = sp /\ i' > i
Within == star \in 0..(Len(pattern) + 1) /\ sp \in 0..(Len(s) + 1) /\ i \in 1..(Len(s) + 1)
Advances == UNCHANGED <<pattern, s>> /\ (state' = "matching" => Further)

LEMMA StepAdvances ==
  ASSUME G!GlobAssumption, Placed, state = "matching", G!Next
  PROVE  Advances
<1>1. p \in Nat /\ i \in Nat /\ star \in 0..p /\ sp \in 0..i
  BY PlacedAt DEF Placed
<1>2. CASE G!wildcard
  <2>1. star' = p + 1 /\ UNCHANGED <<pattern, s>>
    BY <1>2 DEF G!wildcard, G!args
  <2> QED BY <1>1, <2>1 DEF Advances, Further
<1>3. CASE G!literal
  <2>1. i' = i + 1 /\ UNCHANGED <<pattern, s, star, sp>>
    BY <1>3 DEF G!literal, G!args
  <2> QED BY <1>1, <2>1 DEF Advances, Further
<1>4. CASE G!back_up
  <2>1. sp' = sp + 1 /\ UNCHANGED <<pattern, s, star>>
    BY <1>4 DEF G!back_up, G!args
  <2> QED BY <1>1, <2>1 DEF Advances, Further
<1>5. CASE G!give_up
  <2>1. state' = "no match" /\ UNCHANGED <<pattern, s>>
    BY <1>5 DEF G!give_up, G!args
  <2> QED BY <2>1 DEF Advances
<1>6. CASE G!at_end
  <2>1. state' \in {"matched", "no match"} /\ UNCHANGED <<pattern, s>>
    BY <1>6 DEF G!at_end, G!args
  <2> QED BY <2>1 DEF Advances
<1>7. CASE G!returned
  BY <1>7 DEF G!returned
<1> QED BY <1>2, <1>3, <1>4, <1>5, <1>6, <1>7 DEF G!Next

(* The pass ends: each step of glob_prefix's loop either answers or gets   *)
(* further, by the last "*", by how much that has taken or by a byte of the*)
(* URL, none of which exceeds its string.  So a URL that backs up again and*)
(* again cannot keep it for ever (aquatransport_config.c).                 *)
THEOREM PassAdvances ==
  ASSUME G!GlobAssumption
  PROVE  G!Spec => []Within /\ [][state = "matching" => Advances]_(G!vars)
<1> DEFINE Known == Placed /\ Right
<1>1. Known => Within
  <2> SUFFICES ASSUME Placed PROVE Within
    OBVIOUS
  <2> DEFINE len == Len(pattern)  n == Len(s)
  <2>1. len \in Nat /\ n \in Nat
    BY Lengths
  <2>2. p \in 1..(len + 1) /\ i \in 1..(n + 1)
    BY PlacedAt
  <2>3. star \in 0..p /\ sp \in 0..i
    BY DEF Placed
  <2> HIDE DEF len, n
  <2>4. star \in 0..(len + 1) /\ sp \in 0..(n + 1) /\ i \in 1..(n + 1)
    BY <2>1, <2>2, <2>3
  <2> QED BY <2>4 DEF Within, len, n
<1>2. Known /\ [G!Next]_(G!vars) => [state = "matching" => Advances]_(G!vars)
  BY StepAdvances
<1>3. Known /\ [G!Next]_(G!vars) => Known'
  BY MatcherKept
<1>4. G!Init => Known
  BY MatcherStarts
<1> HIDE DEF Known
<1> QED BY <1>1, <1>2, <1>3, <1>4, PTL DEF G!Spec

-----------------------------------------------------------------------------
(* The rewriter (Rewrite), for any rules and requests.                     *)
Values == {"none", "app", "rule"}
Fields == [Headers -> Values]
RulesGiven == redirects \in RedirectRules /\ headerrules \in HeaderRules /\ gsa \in BOOLEAN

(* The first rule that fires is a rule.                                    *)
LEMMA RuleGives ==
  ASSUME R!RewriteAssumption, RulesGiven, NEW u \in Urls
  PROVE  /\ R!tf_apply_redirect(u) \in Urls /\ R!Target(u) \in Urls
         /\ \A hdr \in Fields : R!apply_header_rule(u, hdr) \in Fields
<1>1. R!tf_apply_redirect(u) \in Urls
  <2> DEFINE S == R!Matches(u)  len == Len(redirects)
  <2>1. redirects \in Seq([from : SUBSET Urls, to : Urls])
    BY DEF R!RewriteAssumption, RulesGiven
  <2>2. /\ len \in Nat /\ DOMAIN redirects = 1..len
        /\ \A k \in 1..len : redirects[k] \in [from : SUBSET Urls, to : Urls]
    <3>1. \A T, q : q \in Seq(T) => Len(q) \in Nat /\ DOMAIN q = 1..Len(q) /\ \A k \in 1..Len(q) : q[k] \in T
      OBVIOUS
    <3> QED BY <2>1, <3>1
  <2>2a. S \in SUBSET (1..len) /\ \A k \in 1..len : redirects[k].to \in Urls
    BY <2>2 DEF R!Matches
  <2>3. CASE S = {}
    BY <2>3 DEF R!tf_apply_redirect
  <2>4. CASE S # {}
    <3> HIDE DEF S, len
    <3>1. \E h \in S : \A j \in S : h <= j
      BY <2>2, <2>2a, <2>4, Least
    <3>2. R!Min(S) \in S
      BY <3>1 DEF R!Min
    <3>3. redirects[R!Min(S)].to \in Urls
      BY <2>2a, <3>2
    <3> QED BY <2>4, <3>3 DEF R!tf_apply_redirect, S
  <2> QED BY <2>3, <2>4
<1>2. R!Target(u) \in Urls
  BY <1>1 DEF R!Target, R!RewriteAssumption
<1>3. ASSUME NEW hdr \in Fields PROVE R!apply_header_rule(u, hdr) \in Fields
  <2> DEFINE S == {k \in DOMAIN headerrules : u \in headerrules[k].on}
             given == R!match_headers(u)
  <2>1. /\ DOMAIN headerrules = 1..Len(headerrules) /\ Len(headerrules) \in Nat
        /\ \A k \in DOMAIN headerrules : \A h \in DOMAIN headerrules[k].lines :
             headerrules[k].lines[h] \in Values
    BY DEF R!RewriteAssumption, RulesGiven, Values
  <2>2. \A h \in DOMAIN given : given[h] \in Values
    <3>1. CASE S = {}
      <4>1. given = << >>
        BY <3>1 DEF R!match_headers
      <4> QED BY <4>1
    <3>2. CASE S # {}
      <4>1. S \in SUBSET (1..Len(headerrules))
        BY <2>1
      <4>2. given = headerrules[R!Min(S)].lines
        BY <3>2 DEF R!match_headers
      <4> HIDE DEF S, given
      <4>3. \E h \in S : \A j \in S : h <= j
        BY <2>1, <3>2, <4>1, Least
      <4>4. R!Min(S) \in S
        BY <4>3 DEF R!Min
      <4> QED BY <2>1, <4>1, <4>2, <4>4
    <3> QED BY <3>1, <3>2
  <2>3. R!apply_header_rule(u, hdr) = [h \in Headers |-> IF h \in DOMAIN given THEN given[h] ELSE hdr[h]]
    BY DEF R!apply_header_rule
  <2> HIDE DEF given
  <2> QED BY <2>2, <2>3 DEF Fields
<1> QED BY <1>1, <1>2, <1>3

LEMMA RuleTwice ==
  ASSUME NEW u, NEW hdr
  PROVE  R!apply_header_rule(u, R!apply_header_rule(u, hdr)) = R!apply_header_rule(u, hdr)
<1> DEFINE given == R!match_headers(u)
<1>1. \A f : R!apply_header_rule(u, f) = [h \in Headers |-> IF h \in DOMAIN given THEN given[h] ELSE f[h]]
  BY DEF R!apply_header_rule
<1> HIDE DEF given
<1> QED BY <1>1

RequestTyped ==
  /\ role \in {"request", "message", "webkit"} /\ stage \in {"none", "building", "sent"}
  /\ req \in [url : Urls, hdr : Fields] /\ asked \in Urls

LEMMA RequestTypesKept ==
  ASSUME R!RewriteAssumption, RulesGiven, RequestTyped, [R!Next]_(R!vars)
  PROVE  RulesGiven' /\ RequestTyped'
<1>1. RulesGiven'
  BY DEF RulesGiven, R!Next, R!vars, R!rules, R!build, R!my_MsgCreate, R!set_url, R!set_header, R!my_MsgSetHeader,
     R!my_MutableCopy, R!my_CreateWithProps, R!send_message, R!WKExternalURLRewrite
<1>2. R!NoHeaders \in Fields
  BY DEF R!NoHeaders, Fields, Values
<1> USE DEF RequestTyped
<1>3. CASE UNCHANGED R!vars
  BY <1>1, <1>3 DEF R!vars, R!rules
<1>4. ASSUME NEW u \in Urls, R!build(u) PROVE RequestTyped'
  BY <1>2, <1>4 DEF R!build
<1>5. ASSUME NEW u \in Urls, R!my_MsgCreate(u) PROVE RequestTyped'
  BY <1>2, <1>5, RuleGives DEF R!my_MsgCreate
<1>6. ASSUME NEW u \in Urls, R!set_url(u) PROVE RequestTyped'
  BY <1>6 DEF R!set_url
<1>7. ASSUME NEW h \in Headers, NEW v \in {"app", "none"}, R!set_header(h, v) \/ R!my_MsgSetHeader(h, v)
      PROVE  RequestTyped'
  <2>1. [req EXCEPT !.hdr[h] = v] \in [url : Urls, hdr : Fields]
    BY DEF Fields, Values
  <2> QED BY <1>7, <2>1 DEF R!set_header, R!my_MsgSetHeader
<1>8. R!apply_rules(req) \in [url : Urls, hdr : Fields]
  <2> DEFINE to == R!Target(req.url)
             hdr == IF R!Rewrites(req.url) THEN [req.hdr EXCEPT ![Host] = "none"] ELSE req.hdr
  <2>1. to \in Urls /\ hdr \in Fields
    BY RuleGives DEF Fields, Values
  <2>2. R!apply_header_rule(to, hdr) \in Fields
    BY <2>1, RuleGives
  <2> QED BY <2>1, <2>2 DEF R!apply_rules
<1>9. CASE R!my_MutableCopy \/ R!my_CreateWithProps
  BY <1>1, <1>8, <1>9 DEF R!my_MutableCopy, R!my_CreateWithProps
<1>10. CASE R!send_message
  BY <1>1, <1>10 DEF R!send_message
<1>11. CASE R!WKExternalURLRewrite
  BY <1>1, <1>11, RuleGives DEF R!WKExternalURLRewrite
<1> QED BY <1>1, <1>3, <1>4, <1>5, <1>6, <1>7, <1>9, <1>10, <1>11 DEF R!Next

(* The rules do not change while a request is on its way, so what they say *)
(* of a URL does not.                                                      *)
LEMMA RulesStay ==
  ASSUME [R!Next]_(R!vars)
  PROVE  UNCHANGED <<redirects, headerrules, gsa>>
BY DEF R!Next, R!vars, R!rules, R!build, R!my_MsgCreate, R!set_url, R!set_header, R!my_MsgSetHeader,
   R!my_MutableCopy, R!my_CreateWithProps, R!send_message, R!WKExternalURLRewrite

Ruled(u, hdr) == R!apply_header_rule(u, hdr) = hdr

(* Where a request built on its own is, and how one that the rules have    *)
(* been through for the last time stands.                                  *)
Pending(a, u) == u = a \/ (~R!gsa_reserved_url(a) /\ u = R!Target(a))
Arrived(a, u, hdr) ==
  /\ u = IF R!gsa_reserved_url(a) THEN a ELSE R!Target(a)
  /\ R!gsa_reserved_url(u) \/ Ruled(u, hdr)

OnItsWay(st, k, a, u, hdr) ==
  /\ st = "building" /\ k = "request" => Pending(a, u)
  /\ st = "building" /\ k = "webkit" => u = a
  /\ st # "none" /\ k = "message" => Arrived(a, u, hdr)
  /\ st = "sent" /\ k = "request" => Arrived(a, u, hdr)
  /\ st = "sent" /\ k = "webkit" => u = R!tf_apply_redirect(a) /\ Ruled(u, hdr)

LEMMA SaysTheSame ==
  ASSUME UNCHANGED <<redirects, headerrules, gsa>>
  PROVE  /\ OnItsWay(stage', role', asked', req'.url, req'.hdr)
              => OnItsWay(stage, role, asked, req.url, req.hdr)'
         /\ R!IsTerminal => R!IsTerminal'
<1>1. /\ \A u : (R!gsa_reserved_url(u))' <=> R!gsa_reserved_url(u)
      /\ \A u : (R!tf_apply_redirect(u))' = R!tf_apply_redirect(u)
      /\ \A u, hdr : (R!apply_header_rule(u, hdr))' = R!apply_header_rule(u, hdr)
  BY DEF R!gsa_reserved_url, R!tf_apply_redirect, R!Matches, R!apply_header_rule, R!match_headers
<1>2. \A u : (R!Rewrites(u))' <=> R!Rewrites(u)
  BY DEF R!Rewrites, R!Matches
<1>3. \A u : (R!Target(u))' = R!Target(u)
  BY <1>1 DEF R!Target
<1>4. \A st, k, a, u, hdr : OnItsWay(st, k, a, u, hdr)' <=> OnItsWay(st, k, a, u, hdr)
  BY <1>1, <1>3 DEF OnItsWay, Pending, Arrived, Ruled
<1>5. OnItsWay(stage', role', asked', req'.url, req'.hdr)
        => OnItsWay(stage, role, asked, req.url, req.hdr)'
  <2>1. PICK st, k, a, u, hdr :
          st = stage' /\ k = role' /\ a = asked' /\ u = req'.url /\ hdr = req'.hdr
    OBVIOUS
  <2>2. OnItsWay(st, k, a, u, hdr)' => OnItsWay(stage, role, asked, req.url, req.hdr)'
    BY <2>1
  <2> QED BY <1>4, <2>1, <2>2
<1>6. R!IsTerminal => R!IsTerminal'
  <2>1. \A u : (R!Rewrites(R!Target(u)))' <=> R!Rewrites(R!Target(u))
    <3>1. ASSUME NEW u PROVE (R!Rewrites(R!Target(u)))' <=> R!Rewrites(R!Target(u))
      <4>1. PICK v : v = R!Target(u)
        OBVIOUS
      <4>2. (R!Target(u))' = v
        BY <1>3, <4>1
      <4> QED BY <1>2, <4>1, <4>2
    <3> QED BY <3>1
  <2> QED BY <1>2, <2>1 DEF R!IsTerminal
<1> QED BY <1>5, <1>6

(* No rule is left to fire on where the rules have sent a request.         *)
LEMMA SentForGood ==
  ASSUME R!IsTerminal, R!RewriteAssumption, RulesGiven, NEW u \in Urls
  PROVE  /\ ~R!Rewrites(R!Target(u))
         /\ R!Target(R!Target(u)) = R!Target(u)
         /\ R!tf_apply_redirect(R!Target(u)) = R!Target(u)
<1>1. ~R!Rewrites(u) => R!Target(u) = u
  BY DEF R!Rewrites, R!Target, R!tf_apply_redirect
<1>2. ~R!Rewrites(R!Target(u))
  BY <1>1 DEF R!IsTerminal
<1>3. \A v : ~R!Rewrites(v) => R!Target(v) = v /\ R!tf_apply_redirect(v) = v
  BY DEF R!Rewrites, R!Target, R!tf_apply_redirect
<1> QED BY <1>2, <1>3

(* A pass of the rules over a request of the application's own brings it   *)
(* where it is to go, however many it has been through before.             *)
LEMMA PassArrives ==
  ASSUME R!IsTerminal, R!RewriteAssumption, RulesGiven,
         NEW r \in [url : Urls, hdr : Fields], NEW a \in Urls, Pending(a, r.url)
  PROVE  Arrived(a, R!apply_rules(r).url, R!apply_rules(r).hdr)
<1> DEFINE to == R!Target(r.url)
           hdr == IF R!Rewrites(r.url) THEN [r.hdr EXCEPT ![Host] = "none"] ELSE r.hdr
           next == R!apply_header_rule(to, hdr)
<1>1. R!apply_rules(r) = IF R!gsa_reserved_url(r.url) THEN r ELSE [url |-> to, hdr |-> next]
  BY DEF R!apply_rules
<1>2. Ruled(to, next)
  BY RuleTwice DEF Ruled
<1>3. r.url = a \/ (~R!gsa_reserved_url(a) /\ r.url = R!Target(a) /\ to = R!Target(a))
  BY SentForGood DEF Pending
<1>4. r.url = a => to = R!Target(a)
  OBVIOUS
<1> HIDE DEF to, hdr, next
<1> QED BY <1>1, <1>2, <1>3, <1>4 DEF Arrived

LEMMA StaysOnItsWay ==
  ASSUME R!IsTerminal, R!RewriteAssumption, RulesGiven, RequestTyped,
         OnItsWay(stage, role, asked, req.url, req.hdr), [R!Next]_(R!vars)
  PROVE  OnItsWay(stage', role', asked', req'.url, req'.hdr)
<1> USE DEF OnItsWay
<1>1. CASE UNCHANGED R!vars
  BY <1>1 DEF R!vars, R!rules
<1>2. ASSUME NEW u \in Urls, R!build(u)
      PROVE  OnItsWay(stage', role', asked', req'.url, req'.hdr)
  <2>1. stage' = "building" /\ role' \in {"request", "webkit"} /\ req'.url = u /\ asked' = u
    BY <1>2 DEF R!build
  <2> QED BY <2>1 DEF Pending
<1>3. ASSUME NEW u \in Urls, R!my_MsgCreate(u)
      PROVE  OnItsWay(stage', role', asked', req'.url, req'.hdr)
  <2>1. Arrived(u, req'.url, req'.hdr)
    <3>1. CASE R!gsa_reserved_url(u)
      BY <1>3, <3>1 DEF R!my_MsgCreate, Arrived
    <3>2. CASE ~R!gsa_reserved_url(u)
      <4>1. req' = [url |-> R!Target(u), hdr |-> R!apply_header_rule(R!Target(u), R!NoHeaders)]
        BY <1>3, <3>2 DEF R!my_MsgCreate
      <4>2. Ruled(req'.url, req'.hdr)
        BY <4>1, RuleTwice DEF Ruled
      <4> QED BY <3>2, <4>1, <4>2 DEF Arrived
    <3> QED BY <3>1, <3>2
  <2>2. stage' = "building" /\ role' = "message" /\ asked' = u
    BY <1>3 DEF R!my_MsgCreate
  <2> QED BY <2>1, <2>2
<1>4. ASSUME NEW u \in Urls, R!set_url(u)
      PROVE  OnItsWay(stage', role', asked', req'.url, req'.hdr)
  <2>1. stage' = "building" /\ role' = "request" /\ req'.url = u /\ asked' = u
    BY <1>4 DEF R!set_url, RequestTyped
  <2> QED BY <2>1 DEF Pending
<1>5. ASSUME NEW h \in Headers, NEW v \in {"app", "none"}, R!set_header(h, v)
      PROVE  OnItsWay(stage', role', asked', req'.url, req'.hdr)
  <2>1. /\ stage = "building" /\ stage' = stage /\ role' = role /\ role # "message"
        /\ asked' = asked /\ req'.url = req.url
    BY <1>5 DEF R!set_header, RequestTyped
  <2> QED BY <2>1
<1>6. ASSUME NEW h \in Headers, NEW v \in {"app", "none"}, R!my_MsgSetHeader(h, v)
      PROVE  OnItsWay(stage', role', asked', req'.url, req'.hdr)
  <2>1. /\ stage = "building" /\ stage' = stage /\ role = "message" /\ role' = role
        /\ asked' = asked /\ req'.url = req.url
    BY <1>6 DEF R!my_MsgSetHeader, RequestTyped
  <2>2. Arrived(asked, req.url, req.hdr)
    BY <2>1
  <2>3. ~R!gsa_reserved_url(req.url) => Ruled(req.url, req'.hdr)
    <3> SUFFICES ASSUME ~R!gsa_reserved_url(req.url) PROVE Ruled(req.url, req'.hdr)
      OBVIOUS
    <3>1. R!tf_apply_redirect(req.url) = req.url /\ Ruled(req.url, req.hdr)
      <4>1. ~R!gsa_reserved_url(asked) => req.url = R!Target(asked)
        BY <2>2 DEF Arrived
      <4>2. R!gsa_reserved_url(asked) => req.url = asked
        BY <2>2 DEF Arrived
      <4> QED BY <2>2, <4>1, <4>2, SentForGood DEF Arrived, RequestTyped
    <3> DEFINE given == R!match_headers(req.url)
    <3>2. CASE h \in DOMAIN given
      BY <1>6, <3>1, <3>2 DEF R!my_MsgSetHeader
    <3>3. CASE h \notin DOMAIN given
      <4>1. req'.hdr = [req.hdr EXCEPT ![h] = v]
        BY <1>6, <3>1, <3>3 DEF R!my_MsgSetHeader, RequestTyped
      <4>2. \A f : R!apply_header_rule(req.url, f)
                   = [k \in Headers |-> IF k \in DOMAIN given THEN given[k] ELSE f[k]]
        BY DEF R!apply_header_rule
      <4>3. req.hdr = [k \in Headers |-> IF k \in DOMAIN given THEN given[k] ELSE req.hdr[k]]
        BY <3>1, <4>2 DEF Ruled
      <4> HIDE DEF given
      <4>4. req'.hdr = [k \in Headers |-> IF k \in DOMAIN given THEN given[k] ELSE req'.hdr[k]]
        BY <3>3, <4>1, <4>3
      <4> QED BY <4>2, <4>4 DEF Ruled
    <3> QED BY <3>2, <3>3
  <2> QED BY <2>1, <2>2, <2>3 DEF Arrived
<1>7. R!apply_rules(req) = req' => (Pending(asked, req.url) => Arrived(asked, req'.url, req'.hdr))
  BY PassArrives DEF RequestTyped
<1>8. CASE R!my_MutableCopy
  <2>1. Arrived(asked, req'.url, req'.hdr)
    BY <1>7, <1>8 DEF R!my_MutableCopy
  <2>2. stage' = "building" /\ role' = "request" /\ asked' = asked
    BY <1>8 DEF R!my_MutableCopy
  <2>3. Pending(asked', req'.url)
    BY <2>1, <2>2 DEF Arrived, Pending
  <2> QED BY <2>2, <2>3
<1>9. CASE R!my_CreateWithProps
  <2>1. Arrived(asked, req'.url, req'.hdr)
    BY <1>7, <1>9 DEF R!my_CreateWithProps
  <2>2. stage' = "sent" /\ role' = "request" /\ asked' = asked
    BY <1>9 DEF R!my_CreateWithProps
  <2> QED BY <2>1, <2>2
<1>10. CASE R!send_message
  BY <1>10 DEF R!send_message
<1>11. CASE R!WKExternalURLRewrite
  <2>1. /\ stage' = "sent" /\ role' = "webkit" /\ asked' = asked /\ req.url = asked
        /\ req'.url = R!tf_apply_redirect(req.url)
        /\ req'.hdr = R!apply_header_rule(R!tf_apply_redirect(req.url), req.hdr)
    BY <1>11 DEF R!WKExternalURLRewrite
  <2>2. Ruled(req'.url, req'.hdr)
    BY <2>1, RuleTwice DEF Ruled
  <2> QED BY <2>1, <2>2
<1> HIDE DEF OnItsWay
<1> QED BY <1>1, <1>2, <1>3, <1>4, <1>5, <1>6, <1>8, <1>9, <1>10, <1>11 DEF R!Next

RequestInv ==
  /\ RulesGiven /\ RequestTyped /\ R!IsTerminal
  /\ OnItsWay(stage, role, asked, req.url, req.hdr)

LEMMA RequestStarts ==
  ASSUME R!RewriteAssumption, R!Init
  PROVE  /\ RulesGiven /\ RequestTyped
         /\ Terminal => RequestInv
<1>1. R!NoHeaders \in Fields /\ TileServer \in Urls
  BY DEF R!NoHeaders, Fields, Values, R!RewriteAssumption
<1>2. RulesGiven /\ RequestTyped
  BY <1>1 DEF R!Init, RulesGiven, RequestTyped
<1>3. stage = "none" /\ (Terminal => R!IsTerminal)
  BY DEF R!Init
<1>4. OnItsWay(stage, role, asked, req.url, req.hdr)
  BY <1>3 DEF OnItsWay
<1> QED BY <1>2, <1>3, <1>4 DEF RequestInv

LEMMA RequestKept ==
  ASSUME R!RewriteAssumption, RequestInv, [R!Next]_(R!vars)
  PROVE  RequestInv'
<1>1. RulesGiven /\ RequestTyped /\ R!IsTerminal
  BY DEF RequestInv
<1>2. OnItsWay(stage', role', asked', req'.url, req'.hdr)
  BY <1>1, StaysOnItsWay DEF RequestInv
<1>3. RulesGiven' /\ RequestTyped'
  BY <1>1, RequestTypesKept
<1>4. UNCHANGED <<redirects, headerrules, gsa>>
  BY RulesStay
<1>5. R!IsTerminal' /\ OnItsWay(stage, role, asked, req.url, req.hdr)'
  BY <1>1, <1>2, <1>4, SaysTheSame
<1> QED BY <1>3, <1>5 DEF RequestInv

(* What is sent has arrived where the rules send it.                       *)
LEMMA SentHasArrived ==
  ASSUME RequestInv
  PROVE  SentAsRuled
<1>1. RequestTyped /\ OnItsWay(stage, role, asked, req.url, req.hdr)
  BY DEF RequestInv
<1>2. stage = "sent" =>
        \/ role = "webkit" /\ req.url = R!tf_apply_redirect(asked) /\ Ruled(req.url, req.hdr)
        \/ role # "webkit" /\ Arrived(asked, req.url, req.hdr)
  BY <1>1 DEF OnItsWay, RequestTyped
<1>3. R!RedirectedOnce
  BY <1>2 DEF R!RedirectedOnce, R!Sent, Arrived
<1>4. R!RuleHeadersWin
  BY <1>2 DEF R!RuleHeadersWin, R!Sent, Arrived, Ruled
<1> QED BY <1>3, <1>4 DEF SentAsRuled, R!SentAsRuled

LEMMA RequestSteps ==
  /\ MCInit => R!Init
  /\ [MCNext]_<<part, vars, reader, matcher, request>> => [R!Next]_(R!vars)
<1>1. MCInit => R!Init
  BY DEF MCInit
<1>2. request' = request => UNCHANGED R!vars
  BY DEF request, R!vars, R!rules
<1>3. [MCNext]_<<part, vars, reader, matcher, request>> => [R!Next]_(R!vars)
  BY <1>2 DEF MCNext
<1> QED BY <1>1, <1>3

(* Whatever the application does with a request, it stays one: a URL of    *)
(* its own or of a rule's, with headers of its own or of a rule's (the     *)
(* hooks of aquatransport_rewrite.c).                                      *)
THEOREM RequestTypes == ASSUME R!RewriteAssumption PROVE R!Spec => []R!TypeOK
<1>1. R!Init => RulesGiven /\ RequestTyped
  BY RequestStarts
<1>2. RulesGiven /\ RequestTyped /\ [R!Next]_(R!vars) => RulesGiven' /\ RequestTyped'
  BY RequestTypesKept
<1>3. RulesGiven /\ RequestTyped => R!TypeOK
  BY DEF RulesGiven, RequestTyped, R!TypeOK, Fields, Values
<1> QED BY <1>1, <1>2, <1>3, PTL DEF R!Spec

(* However often a request is copied, rewritten and written to before it   *)
(* is sent, it goes where one pass of the rules over the URL the           *)
(* application asked for sends it, with what the header rule of that URL   *)
(* says, as long as no rule redirects what a rule redirects to             *)
(* (apply_rules and the hooks around it in aquatransport_rewrite.c).       *)
THEOREM SentOnceAsRuled ==
  ASSUME R!RewriteAssumption, Terminal = TRUE
  PROVE  MCSpec => []SentAsRuled
<1>1. MCInit => RequestInv
  BY RequestSteps, RequestStarts
<1>2. RequestInv /\ [MCNext]_<<part, vars, reader, matcher, request>> => RequestInv'
  BY RequestSteps, RequestKept
<1>3. RequestInv => SentAsRuled
  BY SentHasArrived
<1> QED BY <1>1, <1>2, <1>3, PTL DEF MCSpec

-----------------------------------------------------------------------------
(* The file.  A run of lines is where it begins and where it ends; two     *)
(* runs of a file have nothing in common.                                  *)
Line == Nat \X Nat \X Nat
Spans == {r \in (Nat \ {0}) \X (Nat \ {0}) : r[1] <= r[2]}
Block(ls, r) == [k \in 1..(r[2] - r[1] + 1) |-> <<r[1] + k - 1, 0, ls[r[1] + k - 1]>>]

RunsOf(ls) == {r \in (DOMAIN ls) \X (DOMAIN ls) :
                 /\ r[1] <= r[2] /\ \A k \in r[1]..r[2] : ls[k] > 0
                 /\ r[1] > 1 => ls[r[1] - 1] = 0
                 /\ r[2] < Len(ls) => ls[r[2] + 1] = 0}
Long(r) == r[2] - r[1] >= 2

(* The runs that are over before a line is read, those that begin no       *)
(* sooner than a line, and the long ones that begin before it.             *)
Passed(ls, n) == {r \in RunsOf(ls) : r[2] + 1 < n}
Ahead(ls, n) == {r \in RunsOf(ls) : r[1] >= n}
LongBefore(ls, n) == {r \in RunsOf(ls) : Long(r) /\ r[1] < n}

(* A sequence lists runs: their blocks are its elements, in the order in   *)
(* which they begin.                                                       *)
Listing(bs, ls, RS) ==
  /\ bs \in Seq(Seq(Line)) /\ RS \subseteq RunsOf(ls)
  /\ \A k \in 1..Len(bs) : \E r \in RS : bs[k] = Block(ls, r)
  /\ \A r \in RS : \E k \in 1..Len(bs) : bs[k] = Block(ls, r)
  /\ \A k, n \in 1..Len(bs) : k < n => bs[k][1][1] < bs[n][1][1]

(* The block being read is the last c lines, which no other line precedes. *)
Gathered(ls, n, bk, c) ==
  /\ c \in 0..(n - 1) /\ bk \in Seq(Line) /\ Len(bk) = c
  /\ \A k \in 1..c : bk[k] = <<n - c + k - 1, 0, ls[n - c + k - 1]>> /\ ls[n - c + k - 1] > 0
  /\ n - c > 1 => ls[n - c - 1] = 0

AllFit(ls) == \A k \in DOMAIN ls : ls[k] < BufSize - 1

(* While the file is read its blocks are the runs passed; from then on the *)
(* rules are the long ones of the runs gone through, and the blocks are    *)
(* the others.                                                             *)
StillRead(ls, n, o, bk, bs, rs) ==
  /\ n \in 1..(Len(ls) + 1) /\ o = 0 /\ rs = <<>>
  /\ \E c \in Nat : Gathered(ls, n, bk, c)
  /\ Listing(bs, ls, Passed(ls, n))
GoneThrough(ls, n, bs, rs) ==
  /\ n = Len(ls) + 2
  /\ \E a \in Nat : Listing(bs, ls, Ahead(ls, a)) /\ Listing(rs, ls, LongBefore(ls, a))
FileInv(ls, n, o, bk, bs, rs) ==
  /\ ls \in Seq(Nat)
  /\ AllFit(ls) => StillRead(ls, n, o, bk, bs, rs) \/ GoneThrough(ls, n, bs, rs)

LEMMA RunIs ==
  ASSUME NEW ls \in Seq(Nat), NEW r \in RunsOf(ls)
  PROVE  /\ r[1] \in 1..Len(ls) /\ r[2] \in 1..Len(ls) /\ r[1] <= r[2] /\ r = <<r[1], r[2]>>
         /\ \A k \in r[1]..r[2] : ls[k] > 0
         /\ r[1] > 1 => ls[r[1] - 1] = 0
         /\ r[2] < Len(ls) => ls[r[2] + 1] = 0
         /\ r \in Spans
<1>1. Len(ls) \in Nat /\ DOMAIN ls = 1..Len(ls)
  BY LenProperties
<1>2. r \in (1..Len(ls)) \X (1..Len(ls))
  BY <1>1 DEF RunsOf
<1>3. r[1] \in 1..Len(ls) /\ r[2] \in 1..Len(ls) /\ r = <<r[1], r[2]>> /\ r[1] <= r[2]
  BY <1>2 DEF RunsOf
<1>4. r \in Spans
  BY <1>1, <1>3 DEF Spans
<1> QED BY <1>3, <1>4 DEF RunsOf

LEMMA BlockIs ==
  ASSUME NEW ls \in Seq(Nat), NEW r \in RunsOf(ls)
  PROVE  /\ Block(ls, r) \in Seq(Line) /\ Len(Block(ls, r)) = r[2] - r[1] + 1
         /\ Block(ls, r)[1][1] = r[1] /\ Block(ls, r) # <<>>
         /\ \A k \in 1..(r[2] - r[1] + 1) : Block(ls, r)[k] = <<r[1] + k - 1, 0, ls[r[1] + k - 1]>>
<1> DEFINE b == r[1]
           e == r[2]
           c == e - b + 1
           f == [k \in 1..c |-> <<b + k - 1, 0, ls[b + k - 1]>>]
<1>1. Len(ls) \in Nat /\ b \in 1..Len(ls) /\ e \in 1..Len(ls) /\ b <= e
      /\ \A k \in 1..Len(ls) : ls[k] \in Nat
  BY RunIs, LenProperties, ElementOfSeq
<1> HIDE DEF b, e
<1>2. c \in Nat /\ c >= 1
  BY <1>1
<1>3. ASSUME NEW k \in 1..c
      PROVE  b + k - 1 \in Nat /\ ls[b + k - 1] \in Nat
  <2>1. b + k - 1 \in 1..Len(ls)
    BY <1>1, <1>3
  <2> QED BY <1>1, <2>1
<1>4. f \in [1..c -> Line]
  <2>1. ASSUME NEW k \in 1..c
        PROVE  <<b + k - 1, 0, ls[b + k - 1]>> \in Line
    BY <1>3, <2>1 DEF Line
  <2> QED BY <2>1
<1>5. f \in Seq(Line) /\ Len(f) = c /\ DOMAIN f = 1..c
  BY <1>2, <1>4, FunctionIsSeq
<1>6. \A k \in 1..c : f[k] = <<b + k - 1, 0, ls[b + k - 1]>>
  OBVIOUS
<1>7. 1 \in 1..c /\ b + 1 - 1 = b
  BY <1>1, <1>2
<1>8. f[1] = <<b, 0, ls[b]>>
  BY <1>6, <1>7
<1>9. f[1][1] = b
  BY <1>8
<1>10. f # <<>>
  BY <1>2, <1>5, EmptySeq
<1>11. Block(ls, r) = f
  BY DEF Block, b, e
<1> QED BY <1>5, <1>6, <1>9, <1>10, <1>11 DEF b, e

(* Runs that begin, or end, on the same line are the same.                 *)
LEMMA RunsTell ==
  ASSUME NEW ls \in Seq(Nat), NEW r \in RunsOf(ls), NEW a \in RunsOf(ls)
  PROVE  /\ r[1] = a[1] => r = a
         /\ r[2] = a[2] => r = a
         /\ r[2] < a[2] => r[2] + 1 < a[1]
<1>1. Len(ls) \in Nat /\ r[1] \in Nat /\ r[2] \in Nat /\ a[1] \in Nat /\ a[2] \in Nat
  BY RunIs, LenProperties
<1>a. ASSUME NEW x \in RunsOf(ls)
      PROVE  /\ x[1] \in Nat /\ x[2] \in Nat /\ x[1] >= 1 /\ x[1] <= x[2] /\ x[2] <= Len(ls)
             /\ \A k \in x[1]..x[2] : ls[k] > 0
             /\ x[2] < Len(ls) => ls[x[2] + 1] = 0
             /\ x[1] > 1 => ls[x[1] - 1] = 0
  <2>1. x[1] \in 1..Len(ls) /\ x[2] \in 1..Len(ls)
    BY RunIs
  <2>2. x[1] \in Nat /\ x[2] \in Nat /\ x[1] >= 1 /\ x[2] <= Len(ls)
    BY <1>1, <2>1
  <2> QED BY <2>2, RunIs
<1>2. ASSUME NEW x \in RunsOf(ls), NEW y \in RunsOf(ls), x[2] < y[2]
      PROVE  x[2] + 1 < y[1]
  <2>1. /\ x[1] \in Nat /\ x[2] \in Nat /\ y[1] \in Nat /\ y[2] \in Nat
        /\ x[2] >= 1 /\ y[2] <= Len(ls) /\ x[1] <= x[2] /\ x[1] >= 1
        /\ \A k \in x[1]..x[2] : ls[k] > 0
        /\ \A k \in y[1]..y[2] : ls[k] > 0
        /\ x[2] < Len(ls) => ls[x[2] + 1] = 0
        /\ y[1] > 1 => ls[y[1] - 1] = 0
    <3>1. x[1] >= 1 /\ x[1] <= x[2] => x[2] >= 1
      BY <1>a
    <3> QED BY <1>a, <3>1
  <2>2. ls[x[2] + 1] = 0
    BY <1>1, <1>2, <2>1
  <2>3. x[2] + 1 \notin y[1]..y[2]
    BY <2>1, <2>2
  <2> QED BY <1>2, <2>1, <2>3
<1>3. ASSUME NEW x \in RunsOf(ls), NEW y \in RunsOf(ls), x[2] = y[2], x[1] < y[1]
      PROVE  FALSE
  <2>1. /\ x[1] \in Nat /\ x[2] \in Nat /\ y[1] \in Nat /\ y[2] \in Nat /\ x[1] >= 1
        /\ y[1] <= y[2]
        /\ \A k \in x[1]..x[2] : ls[k] > 0
        /\ y[1] > 1 => ls[y[1] - 1] = 0
    BY <1>a
  <2>2. ls[y[1] - 1] = 0
    BY <1>3, <2>1
  <2>3. y[1] - 1 \in x[1]..x[2]
    BY <1>3, <2>1
  <2> QED BY <2>1, <2>2, <2>3
<1>4. r = <<r[1], r[2]>> /\ a = <<a[1], a[2]>> /\ r[1] <= r[2] /\ a[1] <= a[2]
  BY RunIs
<1>5. r[2] = a[2] => r[1] = a[1]
  BY <1>1, <1>3
<1>6. r[2] < a[2] => r[2] + 1 < a[1]
  BY <1>2
<1>7. a[2] < r[2] => a[2] + 1 < r[1]
  BY <1>2
<1>8. r[1] = a[1] => r[2] = a[2]
  BY <1>1, <1>4, <1>6, <1>7
<1> QED BY <1>4, <1>5, <1>6, <1>8

LEMMA ListingStarts ==
  ASSUME NEW ls, NEW RS, RS = {}
  PROVE  Listing(<<>>, ls, RS)
BY EmptySeq DEF Listing

(* Where nothing is listed there is no run, and a listing is in the order  *)
(* in which its runs begin.                                                *)
LEMMA ListingEnds ==
  ASSUME NEW ls, NEW RS, Listing(<<>>, ls, RS)
  PROVE  RS = {}
BY EmptySeq DEF Listing

(* A run that begins after all those listed is listed by its block.        *)
LEMMA ListingGrows ==
  ASSUME NEW ls \in Seq(Nat), NEW RS, NEW bs, Listing(bs, ls, RS),
         NEW r \in RunsOf(ls), \A a \in RS : a[1] < r[1],
         NEW RT, RT = RS \cup {r}
  PROVE  Listing(Append(bs, Block(ls, r)), ls, RT)
<1> DEFINE b == Block(ls, r)
           bt == Append(bs, b)
           c == Len(bs)
<1>1. /\ bs \in Seq(Seq(Line)) /\ RS \subseteq RunsOf(ls)
      /\ \A k \in 1..c : \E a \in RS : bs[k] = Block(ls, a)
      /\ \A a \in RS : \E k \in 1..c : bs[k] = Block(ls, a)
      /\ \A k, n \in 1..c : k < n => bs[k][1][1] < bs[n][1][1]
  BY DEF Listing
<1>2. b \in Seq(Line) /\ b[1][1] = r[1]
  BY BlockIs
<1>3. c \in Nat
  BY <1>1, LenProperties
<1>4. /\ bt \in Seq(Seq(Line)) /\ Len(bt) = c + 1
      /\ (\A k \in 1..c : bt[k] = bs[k]) /\ bt[c + 1] = b
  BY <1>1, <1>2, AppendProperties
<1>5. RT \subseteq RunsOf(ls)
  BY <1>1
<1>6. ASSUME NEW k \in 1..(c + 1)
      PROVE  \E a \in RT : bt[k] = Block(ls, a)
  <2>1. CASE k = c + 1
    BY <1>4, <2>1
  <2>2. CASE k # c + 1
    <3>1. k \in 1..c
      BY <1>3, <2>2
    <3> QED BY <1>1, <1>4, <3>1
  <2> QED BY <2>1, <2>2
<1>7. ASSUME NEW a \in RT
      PROVE  \E k \in 1..(c + 1) : bt[k] = Block(ls, a)
  <2>1. CASE a = r
    <3>1. c + 1 \in 1..(c + 1)
      BY <1>3
    <3> QED BY <1>4, <2>1, <3>1
  <2>2. CASE a \in RS
    <3>1. PICK k \in 1..c : bs[k] = Block(ls, a)
      BY <1>1, <2>2
    <3>2. k \in 1..(c + 1)
      BY <1>3
    <3> QED BY <1>4, <3>1, <3>2
  <2> QED BY <2>1, <2>2
<1>8. ASSUME NEW k \in 1..(c + 1), NEW n \in 1..(c + 1), k < n
      PROVE  bt[k][1][1] < bt[n][1][1]
  <2>1. k \in 1..c
    BY <1>3, <1>8
  <2>2. CASE n = c + 1
    <3>1. PICK a \in RS : bs[k] = Block(ls, a)
      BY <1>1, <2>1
    <3>2. bs[k][1][1] = a[1]
      BY <1>1, <3>1, BlockIs
    <3>3. bt[k][1][1] = a[1] /\ bt[n][1][1] = r[1]
      BY <1>2, <1>4, <2>1, <2>2, <3>2
    <3> QED BY <3>3
  <2>3. CASE n # c + 1
    <3>1. n \in 1..c
      BY <1>3, <2>3
    <3> QED BY <1>1, <1>4, <1>8, <2>1, <3>1
  <2> QED BY <2>2, <2>3
<1> HIDE DEF bt, c
<1>9. Listing(bt, ls, RT)
  BY <1>4, <1>5, <1>6, <1>7, <1>8 DEF Listing
<1> QED BY <1>9 DEF bt, b

(* The first of a listing is the run that begins first, and the rest lists *)
(* those that begin after it.                                              *)
LEMMA ListingHeads ==
  ASSUME NEW ls \in Seq(Nat), NEW RS, NEW bs, Listing(bs, ls, RS), bs # <<>>
  PROVE  \E r \in RS : /\ Head(bs) = Block(ls, r)
                       /\ \A a \in RS : r[1] <= a[1]
                       /\ Listing(Tail(bs), ls, {a \in RS : r[1] < a[1]})
<1> DEFINE c == Len(bs)
           bt == Tail(bs)
<1>1. /\ bs \in Seq(Seq(Line)) /\ RS \subseteq RunsOf(ls)
      /\ \A k \in 1..c : \E a \in RS : bs[k] = Block(ls, a)
      /\ \A a \in RS : \E k \in 1..c : bs[k] = Block(ls, a)
      /\ \A k, n \in 1..c : k < n => bs[k][1][1] < bs[n][1][1]
  BY DEF Listing
<1>2. c \in Nat /\ c >= 1
  BY <1>1, EmptySeq
<1>3. 1 \in 1..c /\ Head(bs) = bs[1]
  BY <1>1, <1>2
<1>4. PICK r \in RS : bs[1] = Block(ls, r)
  BY <1>1, <1>3
<1>5. /\ bt \in Seq(Seq(Line)) /\ Len(bt) = c - 1
      /\ \A k \in 1..Len(bt) : bt[k] = bs[k + 1]
  BY <1>1, HeadTailProperties
<1>6. \A k \in 1..(c - 1) : bt[k] = bs[k + 1] /\ k + 1 \in 1..c
  BY <1>2, <1>5
<1>7. \A a \in RS : Block(ls, a)[1][1] = a[1] /\ a[1] \in Nat
  <2>1. ASSUME NEW a \in RunsOf(ls) PROVE Block(ls, a)[1][1] = a[1] /\ a[1] \in Nat
    BY BlockIs, RunIs, LenProperties
  <2> QED BY <1>1, <2>1
<1>8. ASSUME NEW a \in RS
      PROVE  \E k \in 1..c : bs[k] = Block(ls, a) /\ (k = 1 \/ r[1] < a[1])
  <2>1. PICK k \in 1..c : bs[k] = Block(ls, a)
    BY <1>1
  <2>2. k # 1 => bs[1][1][1] < bs[k][1][1]
    BY <1>1, <1>2, <1>3
  <2>3. bs[1][1][1] = r[1] /\ bs[k][1][1] = a[1]
    BY <1>4, <1>7, <2>1
  <2> QED BY <2>1, <2>2, <2>3
<1>9. \A a \in RS : r[1] <= a[1]
  <2>1. ASSUME NEW a \in RS PROVE r[1] <= a[1]
    <3>1. PICK k \in 1..c : bs[k] = Block(ls, a) /\ (k = 1 \/ r[1] < a[1])
      BY <1>8
    <3>2. k = 1 => Block(ls, a)[1][1] = Block(ls, r)[1][1]
      BY <1>4, <3>1
    <3>3. k = 1 => a[1] = r[1]
      BY <1>7, <3>2
    <3> QED BY <1>7, <3>1, <3>3
  <2> QED BY <2>1
<1> DEFINE RT == {a \in RS : r[1] < a[1]}
<1>10. ASSUME NEW k \in 1..(c - 1)
       PROVE  \E a \in RT : bt[k] = Block(ls, a)
  <2>1. k + 1 \in 1..c /\ 1 < k + 1 /\ bt[k] = bs[k + 1]
    BY <1>2, <1>6
  <2>2. PICK a \in RS : bs[k + 1] = Block(ls, a)
    BY <1>1, <2>1
  <2>3. bs[1][1][1] < bs[k + 1][1][1]
    BY <1>1, <1>3, <2>1
  <2>4. r[1] < a[1]
    BY <1>4, <1>7, <2>2, <2>3
  <2> QED BY <2>1, <2>2, <2>4
<1>11. ASSUME NEW a \in RT
       PROVE  \E k \in 1..(c - 1) : bt[k] = Block(ls, a)
  <2>1. a \in RS /\ r[1] < a[1]
    OBVIOUS
  <2>2. PICK k \in 1..c : bs[k] = Block(ls, a)
    BY <1>1, <2>1
  <2>3. k # 1
    BY <1>4, <1>7, <2>1, <2>2
  <2>4. k - 1 \in 1..(c - 1) /\ (k - 1) + 1 = k
    BY <1>2, <2>3
  <2> QED BY <1>6, <2>2, <2>4
<1>12. ASSUME NEW k \in 1..(c - 1), NEW n \in 1..(c - 1), k < n
       PROVE  bt[k][1][1] < bt[n][1][1]
  <2>1. /\ k + 1 \in 1..c /\ n + 1 \in 1..c /\ k + 1 < n + 1
        /\ bt[k] = bs[k + 1] /\ bt[n] = bs[n + 1]
    BY <1>2, <1>6, <1>12
  <2>2. bs[k + 1][1][1] < bs[n + 1][1][1]
    BY <1>1, <2>1
  <2> QED BY <2>1, <2>2
<1>13. RT \subseteq RunsOf(ls) /\ RT = {a \in RS : r[1] < a[1]}
  BY <1>1
<1> HIDE DEF RT, bt, c
<1>14. Listing(bt, ls, RT)
  BY <1>5, <1>10, <1>11, <1>12, <1>13 DEF Listing
<1> QED BY <1>3, <1>4, <1>9, <1>13, <1>14 DEF bt

(* Where a blank line or the end of the file is read, the block read is    *)
(* the only run that ends there, and all that came before it begin sooner. *)
LEMMA EndsHere ==
  ASSUME NEW ls \in Seq(Nat), NEW n \in 1..(Len(ls) + 1), n <= Len(ls) => ls[n] = 0,
         NEW c \in Nat, NEW bk, Gathered(ls, n, bk, c), c > 0
  PROVE  \E r \in RunsOf(ls) : /\ bk = Block(ls, r)
                               /\ \A a \in Passed(ls, n) : a[1] < r[1]
                               /\ Passed(ls, n + 1) = Passed(ls, n) \cup {r}
<1>1. Len(ls) \in Nat /\ DOMAIN ls = 1..Len(ls) /\ n \in Nat /\ n >= 1 /\ n <= Len(ls) + 1
  BY LenProperties
<1>2. /\ c \in 0..(n - 1) /\ bk \in Seq(Line) /\ Len(bk) = c
      /\ \A k \in 1..c : bk[k] = <<n - c + k - 1, 0, ls[n - c + k - 1]>> /\ ls[n - c + k - 1] > 0
      /\ n - c > 1 => ls[n - c - 1] = 0
  BY DEF Gathered
<1> DEFINE r == <<n - c, n - 1>>
<1>3. r[1] = n - c /\ r[2] = n - 1
  OBVIOUS
<1>4. r[1] \in 1..Len(ls) /\ r[2] \in 1..Len(ls) /\ r[1] <= r[2] /\ r[2] + 1 = n
  BY <1>1, <1>2
<1>5. \A k \in r[1]..r[2] : ls[k] > 0
  <2>1. ASSUME NEW k \in (n - c)..(n - 1) PROVE ls[k] > 0
    <3>1. k - (n - c) + 1 \in 1..c /\ n - c + (k - (n - c) + 1) - 1 = k
      BY <1>1, <1>2
    <3> QED BY <1>2, <3>1
  <2> QED BY <1>3, <2>1
<1>6. r[1] > 1 => ls[r[1] - 1] = 0
  BY <1>2, <1>3
<1>7. r[2] < Len(ls) => ls[r[2] + 1] = 0
  BY <1>1, <1>4
<1>8. r \in RunsOf(ls)
  BY <1>1, <1>4, <1>5, <1>6, <1>7 DEF RunsOf
<1>9. bk = Block(ls, r)
  <2>1. /\ Block(ls, r) \in Seq(Line) /\ Len(Block(ls, r)) = r[2] - r[1] + 1
        /\ \A k \in 1..(r[2] - r[1] + 1) : Block(ls, r)[k] = <<r[1] + k - 1, 0, ls[r[1] + k - 1]>>
    BY <1>8, BlockIs
  <2>2. r[2] - r[1] + 1 = c
    BY <1>1, <1>2, <1>3
  <2>3. Len(Block(ls, r)) = Len(bk) /\ \A k \in 1..Len(bk) : bk[k] = Block(ls, r)[k]
    BY <1>2, <1>3, <2>1, <2>2
  <2> HIDE DEF r
  <2> QED BY <1>2, <2>1, <2>3, SeqEqual
<1> HIDE DEF r
<1>10. ASSUME NEW a \in RunsOf(ls)
       PROVE  /\ a[1] \in Nat /\ a[2] \in Nat /\ a[1] <= a[2]
              /\ a[2] < r[2] => a[2] + 1 < r[1]
              /\ a[2] = r[2] => a = r
  BY <1>1, <1>8, RunIs, RunsTell
<1>11. \A a \in Passed(ls, n) : a[1] < r[1]
  <2>1. ASSUME NEW a \in Passed(ls, n) PROVE a[1] < r[1]
    <3>1. a \in RunsOf(ls) /\ a[2] + 1 < n
      BY DEF Passed
    <3>2. /\ a[1] \in Nat /\ a[2] \in Nat /\ a[1] <= a[2]
          /\ a[2] < r[2] => a[2] + 1 < r[1]
      BY <1>10, <3>1
    <3>3. r[1] \in Nat /\ r[2] \in Nat /\ n \in Nat
      BY <1>1, <1>4
    <3>4. a[2] < r[2]
      BY <1>4, <3>1, <3>2, <3>3
    <3>5. a[2] + 1 < r[1]
      BY <3>2, <3>4
    <3> QED BY <3>2, <3>3, <3>5
  <2> QED BY <2>1
<1>12. Passed(ls, n + 1) = Passed(ls, n) \cup {r}
  <2>1. ASSUME NEW a \in RunsOf(ls)
        PROVE  a[2] + 1 < n + 1 <=> a[2] + 1 < n \/ a = r
    BY <1>1, <1>4, <1>10
  <2> QED BY <1>8, <2>1 DEF Passed
<1> QED BY <1>8, <1>9, <1>11, <1>12

(* Where none is being read, or the next line has text, none ends there.   *)
LEMMA NoneEnds ==
  ASSUME NEW ls \in Seq(Nat), NEW n \in 1..(Len(ls) + 1),
         \/ n > 1 /\ ls[n - 1] = 0
         \/ n = 1
         \/ n <= Len(ls) /\ ls[n] > 0
  PROVE  Passed(ls, n + 1) = Passed(ls, n)
<1>1. Len(ls) \in Nat
  BY LenProperties
<1>2. ASSUME NEW a \in RunsOf(ls)
      PROVE  a[2] + 1 # n
  <2>1. /\ a[1] \in 1..Len(ls) /\ a[2] \in 1..Len(ls) /\ a[1] <= a[2]
        /\ \A k \in a[1]..a[2] : ls[k] > 0
        /\ a[2] < Len(ls) => ls[a[2] + 1] = 0
    BY RunIs
  <2>2. ls[a[2]] > 0
    BY <1>1, <2>1
  <2>3. a[2] + 1 = n => a[2] = n - 1
    BY <1>1, <2>1
  <2> QED BY <1>1, <2>1, <2>2, <2>3
<1>3. \A a \in RunsOf(ls) : a[2] \in Nat
  BY <1>1, RunIs
<1>4. ASSUME NEW a \in RunsOf(ls)
      PROVE  a[2] + 1 < n + 1 <=> a[2] + 1 < n
  <2>1. a[2] + 1 # n /\ a[2] \in Nat /\ n \in Nat
    BY <1>1, <1>2, <1>3
  <2> QED BY <2>1
<1> QED BY <1>4 DEF Passed

(* What read_blocks does at a line, and at the end.                        *)
Flushed(bk, bs) == IF bk = <<>> THEN bs ELSE Append(bs, bk)

LEMMA FlushLists ==
  ASSUME NEW ls \in Seq(Nat), NEW n \in 1..(Len(ls) + 1), n <= Len(ls) => ls[n] = 0,
         NEW o, NEW bk, NEW bs, NEW rs, StillRead(ls, n, o, bk, bs, rs)
  PROVE  Listing(Flushed(bk, bs), ls, Passed(ls, n + 1))
<1>1. PICK c \in Nat : Gathered(ls, n, bk, c)
  BY DEF StillRead
<1>2. Listing(bs, ls, Passed(ls, n))
  BY DEF StillRead
<1>3. bk \in Seq(Line) /\ Len(bk) = c /\ n \in Nat /\ (n - c > 1 => ls[n - c - 1] = 0)
  BY <1>1, LenProperties DEF Gathered
<1>4. bk = <<>> <=> c = 0
  BY <1>3, EmptySeq
<1>5. CASE c = 0
  <2>1. n > 1 => ls[n - 1] = 0
    BY <1>3, <1>5
  <2>2. n = 1 \/ n > 1
    OBVIOUS
  <2>3. Passed(ls, n + 1) = Passed(ls, n)
    BY <2>1, <2>2, NoneEnds
  <2> QED BY <1>2, <1>4, <1>5, <2>3 DEF Flushed
<1>6. CASE c # 0
  <2>1. c > 0
    BY <1>6
  <2>2. PICK r \in RunsOf(ls) : /\ bk = Block(ls, r)
                                /\ \A a \in Passed(ls, n) : a[1] < r[1]
                                /\ Passed(ls, n + 1) = Passed(ls, n) \cup {r}
    BY <1>1, <2>1, EndsHere
  <2>3. Listing(Append(bs, Block(ls, r)), ls, Passed(ls, n + 1))
    BY <1>2, <2>2, ListingGrows
  <2> QED BY <1>4, <1>6, <2>2, <2>3 DEF Flushed
<1> QED BY <1>5, <1>6

LEMMA AtBlankLine ==
  ASSUME NEW ls \in Seq(Nat), NEW n \in 1..Len(ls), ls[n] = 0,
         NEW o, NEW bk, NEW bs, NEW rs, StillRead(ls, n, o, bk, bs, rs)
  PROVE  StillRead(ls, n + 1, 0, <<>>, Flushed(bk, bs), rs)
<1>1. Len(ls) \in Nat
  BY LenProperties
<1>2. n \in 1..(Len(ls) + 1) /\ n + 1 \in 1..(Len(ls) + 1) /\ n + 1 - 0 - 1 = n
  BY <1>1
<1>3. Listing(Flushed(bk, bs), ls, Passed(ls, n + 1))
  BY <1>2, FlushLists
<1>4. Gathered(ls, n + 1, <<>>, 0)
  <2>1. 0 \in 0..(n + 1 - 1) /\ \A k \in 1..0 : FALSE
    BY <1>1
  <2>2. <<>> \in Seq(Line) /\ Len(<<>>) = 0
    BY EmptySeq
  <2> QED BY <1>2, <2>1, <2>2 DEF Gathered
<1>5. rs = <<>>
  BY DEF StillRead
<1> QED BY <1>2, <1>3, <1>4, <1>5 DEF StillRead

LEMMA AtTextLine ==
  ASSUME NEW ls \in Seq(Nat), NEW n \in 1..Len(ls), ls[n] > 0,
         NEW bk, NEW bs, NEW rs, StillRead(ls, n, 0, bk, bs, rs)
  PROVE  StillRead(ls, n + 1, 0, Append(bk, <<n, 0, ls[n]>>), bs, rs)
<1>1. Len(ls) \in Nat /\ ls[n] \in Nat
  BY LenProperties, ElementOfSeq
<1>2. PICK c \in Nat : Gathered(ls, n, bk, c)
  BY DEF StillRead
<1>3. /\ c \in 0..(n - 1) /\ bk \in Seq(Line) /\ Len(bk) = c
      /\ \A k \in 1..c : bk[k] = <<n - c + k - 1, 0, ls[n - c + k - 1]>> /\ ls[n - c + k - 1] > 0
      /\ n - c > 1 => ls[n - c - 1] = 0
  BY <1>2 DEF Gathered
<1> DEFINE piece == <<n, 0, ls[n]>>
           bt == Append(bk, piece)
<1>4. piece \in Line
  BY <1>1 DEF Line
<1> HIDE DEF piece
<1>5. /\ bt \in Seq(Line) /\ Len(bt) = c + 1
      /\ (\A k \in 1..c : bt[k] = bk[k]) /\ bt[c + 1] = piece
  <2>1. bk \in Seq(Line) /\ Len(bk) = c
    BY <1>3
  <2>2. /\ bt \in Seq(Line) /\ Len(bt) = Len(bk) + 1
        /\ (\A k \in 1..Len(bk) : bt[k] = bk[k]) /\ bt[Len(bk) + 1] = piece
    BY <1>4, <2>1, AppendProperties
  <2> HIDE DEF bt
  <2> QED BY <2>1, <2>2
<1>6. /\ c + 1 \in 0..(n + 1 - 1) /\ n + 1 - (c + 1) = n - c /\ n \in 1..(Len(ls) + 1)
      /\ n + 1 \in 1..(Len(ls) + 1) /\ c + 1 \in Nat /\ n - c + (c + 1) - 1 = n /\ n <= Len(ls)
  <2>1. n \in Nat /\ n >= 1 /\ n <= Len(ls) /\ c \in Nat /\ c <= n - 1
    BY <1>1, <1>3
  <2> QED BY <1>1, <2>1
<1>7. ASSUME NEW k \in 1..(c + 1)
      PROVE  /\ bt[k] = <<n - c + k - 1, 0, ls[n - c + k - 1]>>
             /\ ls[n - c + k - 1] > 0
  <2>1. CASE k = c + 1
    <3>1. bt[k] = <<n, 0, ls[n]>> /\ n - c + k - 1 = n
      BY <1>5, <1>6, <2>1 DEF piece
    <3> QED BY <3>1
  <2>2. CASE k # c + 1
    <3>1. k \in 1..c
      BY <2>2
    <3> QED BY <1>3, <1>5, <3>1
  <2> QED BY <2>1, <2>2
<1> HIDE DEF bt
<1>8. Gathered(ls, n + 1, bt, c + 1)
  <2>1. /\ c + 1 \in 0..((n + 1) - 1) /\ bt \in Seq(Line) /\ Len(bt) = c + 1
        /\ (n + 1) - (c + 1) > 1 => ls[(n + 1) - (c + 1) - 1] = 0
    <3>1. (n + 1) - (c + 1) = n - c /\ c + 1 \in 0..((n + 1) - 1)
      BY <1>6
    <3>2. n - c > 1 => ls[n - c - 1] = 0
      BY <1>3
    <3> QED BY <1>5, <3>1, <3>2
  <2>2. ASSUME NEW k \in 1..(c + 1)
        PROVE  /\ bt[k] = <<(n + 1) - (c + 1) + k - 1, 0, ls[(n + 1) - (c + 1) + k - 1]>>
               /\ ls[(n + 1) - (c + 1) + k - 1] > 0
    <3>1. (n + 1) - (c + 1) = n - c
      BY <1>6
    <3> QED BY <1>7, <3>1
  <2> QED BY <2>1, <2>2 DEF Gathered
<1>9. Passed(ls, n + 1) = Passed(ls, n)
  BY <1>6, NoneEnds
<1>10. StillRead(ls, n + 1, 0, bt, bs, rs)
  BY <1>6, <1>8, <1>9 DEF StillRead
<1> QED BY <1>10 DEF bt, piece

LEMMA AtEnd ==
  ASSUME NEW ls \in Seq(Nat), NEW n, n = Len(ls) + 1,
         NEW o, NEW bk, NEW bs, NEW rs, StillRead(ls, n, o, bk, bs, rs)
  PROVE  GoneThrough(ls, n + 1, Flushed(bk, bs), rs)
<1>1. Len(ls) \in Nat
  BY LenProperties
<1>2. n \in 1..(Len(ls) + 1) /\ ~(n <= Len(ls)) /\ n + 1 = Len(ls) + 2
  BY <1>1
<1>3. Listing(Flushed(bk, bs), ls, Passed(ls, n + 1))
  BY <1>2, FlushLists
<1>4. \A r \in RunsOf(ls) : r[1] >= 0 /\ ~(r[1] < 0) /\ r[2] + 1 < n + 1
  BY <1>1, RunIs
<1>5. Passed(ls, n + 1) = Ahead(ls, 0) /\ LongBefore(ls, 0) = {}
  BY <1>4 DEF Passed, Ahead, LongBefore
<1>6. Listing(<<>>, ls, LongBefore(ls, 0))
  BY <1>5, ListingStarts
<1>7. rs = <<>>
  BY DEF StillRead
<1> QED BY <1>2, <1>3, <1>5, <1>6, <1>7 DEF GoneThrough

(* A block gone through becomes a rule where its run is long.              *)
LEMMA AtBlock ==
  ASSUME NEW ls \in Seq(Nat), NEW n, NEW bs, NEW rs, GoneThrough(ls, n, bs, rs), bs # <<>>,
         NEW rt, rt = IF Len(Head(bs)) >= 3 THEN Append(rs, Head(bs)) ELSE rs
  PROVE  GoneThrough(ls, n, Tail(bs), rt)
<1>1. PICK b \in Nat : Listing(bs, ls, Ahead(ls, b)) /\ Listing(rs, ls, LongBefore(ls, b))
  BY DEF GoneThrough
<1>2. PICK r \in Ahead(ls, b) : /\ Head(bs) = Block(ls, r)
                                /\ \A a \in Ahead(ls, b) : r[1] <= a[1]
                                /\ Listing(Tail(bs), ls, {a \in Ahead(ls, b) : r[1] < a[1]})
  BY <1>1, ListingHeads
<1>3. r \in RunsOf(ls) /\ r[1] >= b
  BY DEF Ahead
<1>4. \A a \in RunsOf(ls) : a[1] \in Nat /\ a[2] \in Nat /\ (a[1] = r[1] => a = r)
  BY <1>3, RunIs, RunsTell, LenProperties
<1>5. r[1] \in Nat /\ r[2] \in Nat /\ r[1] + 1 \in Nat
  BY <1>3, <1>4
<1>6. Ahead(ls, r[1] + 1) = {a \in Ahead(ls, b) : r[1] < a[1]}
  <2>1. \A a \in RunsOf(ls) : a[1] >= r[1] + 1 <=> a[1] >= b /\ r[1] < a[1]
    BY <1>3, <1>4, <1>5
  <2> QED BY <2>1 DEF Ahead
<1>7. LongBefore(ls, r[1] + 1) = LongBefore(ls, b) \cup (IF Long(r) THEN {r} ELSE {})
  <2>1. ASSUME NEW a \in RunsOf(ls)
        PROVE  a[1] < r[1] + 1 <=> a[1] < b \/ a = r
    <3>1. a[1] >= b => r[1] <= a[1]
      BY <1>2 DEF Ahead
    <3> QED BY <1>3, <1>4, <1>5, <3>1
  <2> QED BY <1>3, <2>1 DEF LongBefore
<1>8. \A a \in LongBefore(ls, b) : a[1] < r[1]
  <2>1. ASSUME NEW a \in LongBefore(ls, b) PROVE a[1] < r[1]
    <3>1. a \in RunsOf(ls) /\ a[1] < b
      BY DEF LongBefore
    <3> QED BY <1>3, <1>4, <1>5, <3>1
  <2> QED BY <2>1
<1>9. Len(Head(bs)) >= 3 <=> Long(r)
  <2>1. Len(Head(bs)) = r[2] - r[1] + 1
    BY <1>2, <1>3, BlockIs
  <2> QED BY <1>5, <2>1 DEF Long
<1>10. Listing(rt, ls, LongBefore(ls, r[1] + 1))
  <2>1. CASE Long(r)
    <3>1. LongBefore(ls, r[1] + 1) = LongBefore(ls, b) \cup {r}
      BY <1>7, <2>1
    <3>2. Listing(Append(rs, Block(ls, r)), ls, LongBefore(ls, r[1] + 1))
      BY <1>1, <1>3, <1>8, <3>1, ListingGrows
    <3> QED BY <1>2, <1>9, <2>1, <3>2
  <2>2. CASE ~Long(r)
    <3>1. LongBefore(ls, r[1] + 1) = LongBefore(ls, b)
      BY <1>7, <2>2
    <3> QED BY <1>1, <1>9, <2>2, <3>1
  <2> QED BY <2>1, <2>2
<1>11. n = Len(ls) + 2
  BY DEF GoneThrough
<1> QED BY <1>2, <1>5, <1>6, <1>10, <1>11 DEF GoneThrough

(* Where no block is left, the rules are those of the long runs.           *)
LEMMA AllGoneThrough ==
  ASSUME NEW ls \in Seq(Nat), NEW n, NEW rs, GoneThrough(ls, n, <<>>, rs)
  PROVE  Listing(rs, ls, {r \in RunsOf(ls) : Long(r)})
<1>1. PICK b \in Nat : Listing(<<>>, ls, Ahead(ls, b)) /\ Listing(rs, ls, LongBefore(ls, b))
  BY DEF GoneThrough
<1>2. Ahead(ls, b) = {}
  BY <1>1, ListingEnds
<1>3. \A r \in RunsOf(ls) : r[1] \in Nat
  BY RunIs, LenProperties
<1>4. \A r \in RunsOf(ls) : r[1] < b
  BY <1>2, <1>3 DEF Ahead
<1>5. LongBefore(ls, b) = {r \in RunsOf(ls) : Long(r)}
  BY <1>4 DEF LongBefore
<1> QED BY <1>1, <1>5

FileRight == FileInv(lines, line, off, cur, blocks, rules)

LEMMA FileStarts == ASSUME F!RuleFileAssumption, F!Init PROVE FileRight
<1>1. /\ lines \in Seq(Nat) /\ line = 1 /\ off = 0 /\ cur = <<>> /\ blocks = <<>>
      /\ rules = <<>>
  BY DEF F!RuleFileAssumption, F!Init
<1>2. Len(lines) \in Nat
  BY <1>1, LenProperties
<1>3. Gathered(lines, 1, <<>>, 0)
  <2>1. 0 \in 0..(1 - 1) /\ ~(1 - 0 > 1) /\ \A k \in 1..0 : FALSE
    OBVIOUS
  <2>2. <<>> \in Seq(Line) /\ Len(<<>>) = 0
    BY EmptySeq
  <2> QED BY <2>1, <2>2 DEF Gathered
<1>4. Passed(lines, 1) = {}
  <2>1. \A r \in RunsOf(lines) : ~(r[2] + 1 < 1)
    BY <1>1, <1>2, RunIs
  <2> QED BY <2>1 DEF Passed
<1>5. Listing(<<>>, lines, Passed(lines, 1))
  BY <1>4, ListingStarts
<1>6. 1 \in 1..(Len(lines) + 1)
  BY <1>2
<1> QED BY <1>1, <1>3, <1>5, <1>6 DEF FileRight, FileInv, StillRead

LEMMA FileKept == ASSUME F!RuleFileAssumption, FileRight, [F!Next]_(F!vars) PROVE FileRight'
<1>1. lines \in Seq(Nat) /\ BufSize \in Nat /\ BufSize > 2
  BY DEF FileRight, FileInv, F!RuleFileAssumption
<1>2. lines' = lines
  BY DEF F!Next, F!vars, F!blank_line, F!text_line, F!end_of_file, F!keep_block, F!kept
<1>3. Len(lines) \in Nat /\ DOMAIN lines = 1..Len(lines) /\ \A k \in 1..Len(lines) : lines[k] \in Nat
  BY <1>1, LenProperties, ElementOfSeq
<1>4. SUFFICES ASSUME AllFit(lines)
               PROVE  \/ StillRead(lines, line', off', cur', blocks', rules')
                      \/ GoneThrough(lines, line', blocks', rules')
  BY <1>1, <1>2 DEF FileRight, FileInv
<1>5. \/ StillRead(lines, line, off, cur, blocks, rules)
      \/ GoneThrough(lines, line, blocks, rules)
  BY <1>4 DEF FileRight, FileInv
<1>6. StillRead(lines, line, off, cur, blocks, rules) => line \in 1..(Len(lines) + 1) /\ off = 0
  BY DEF StillRead
<1>7. GoneThrough(lines, line, blocks, rules) => line = Len(lines) + 2
  BY DEF GoneThrough
<1>8. F!Flush = Flushed(cur, blocks)
  BY DEF F!Flush, Flushed
<1>9. ASSUME F!fgets
      PROVE  /\ StillRead(lines, line, 0, cur, blocks, rules) /\ off = 0
             /\ line \in 1..Len(lines)
             /\ line' = line + 1 /\ off' = 0 /\ F!Length = lines[line]
  <2>1. line <= Len(lines)
    BY <1>9 DEF F!fgets, F!Reading
  <2>2. line # Len(lines) + 2
    BY <1>3, <2>1
  <2>3. StillRead(lines, line, off, cur, blocks, rules)
    BY <1>5, <1>7, <2>2
  <2>4. off = 0 /\ line \in 1..Len(lines)
    BY <1>3, <1>6, <2>1, <2>3
  <2>5. lines[line] \in Nat /\ lines[line] < BufSize - 1
    BY <1>3, <1>4, <2>4 DEF AllFit
  <2>6. F!Left = lines[line] /\ F!Whole
    BY <2>4, <2>5 DEF F!Left, F!Whole
  <2> QED BY <1>9, <2>3, <2>4, <2>6 DEF F!fgets, F!Length
<1>10. CASE F!blank_line
  <2>1. /\ F!fgets /\ F!Length = 0 /\ blocks' = F!Flush /\ cur' = <<>> /\ rules' = rules
    BY <1>10 DEF F!blank_line
  <2>2. StillRead(lines, line + 1, 0, <<>>, Flushed(cur, blocks), rules)
    BY <1>1, <1>9, <2>1, AtBlankLine
  <2> QED BY <1>8, <1>9, <2>1, <2>2
<1>11. CASE F!text_line
  <2>1. /\ F!fgets /\ F!Length > 0 /\ cur' = Append(cur, <<line, off, F!Length>>)
        /\ blocks' = blocks /\ rules' = rules
    BY <1>11 DEF F!text_line
  <2>2. StillRead(lines, line + 1, 0, Append(cur, <<line, 0, lines[line]>>), blocks, rules)
    BY <1>1, <1>9, <2>1, AtTextLine
  <2> QED BY <1>9, <2>1, <2>2
<1>12. CASE F!end_of_file
  <2>1. /\ line = Len(lines) + 1 /\ line' = line + 1 /\ blocks' = F!Flush /\ rules' = rules
    BY <1>12 DEF F!end_of_file
  <2>2. StillRead(lines, line, off, cur, blocks, rules)
    BY <1>3, <1>5, <1>7, <2>1
  <2>3. GoneThrough(lines, line + 1, Flushed(cur, blocks), rules)
    BY <1>1, <2>1, <2>2, AtEnd
  <2> QED BY <1>8, <2>1, <2>3
<1>13. CASE F!keep_block
  <2>1. /\ line > Len(lines) + 1 /\ blocks # <<>>
        /\ rules' = IF Len(Head(blocks)) >= 3 THEN Append(rules, Head(blocks)) ELSE rules
        /\ blocks' = Tail(blocks) /\ line' = line
    BY <1>13 DEF F!keep_block, F!Read, F!IsRule
  <2>2. GoneThrough(lines, line, blocks, rules)
    BY <1>3, <1>5, <1>6, <2>1
  <2>3. GoneThrough(lines, line, Tail(blocks), rules')
    BY <1>1, <2>1, <2>2, AtBlock
  <2> QED BY <2>1, <2>3
<1>14. CASE UNCHANGED F!vars
  <2>1. line' = line /\ off' = off /\ cur' = cur /\ blocks' = blocks /\ rules' = rules
    BY <1>14 DEF F!vars
  <2> QED BY <1>5, <2>1
<1> QED BY <1>10, <1>11, <1>12, <1>13, <1>14 DEF F!Next, F!kept

LEMMA FileKeptIsRules == ASSUME FileRight PROVE RulesAsWritten
<1>1. SUFFICES ASSUME F!Read, blocks = <<>>, F!Fits
               PROVE  F!ToSet(rules) = {F!Pieces(r) : r \in F!LongRuns} /\ F!InFileOrder(rules)
  BY DEF RulesAsWritten, F!RulesAsWritten
<1>2. lines \in Seq(Nat)
  BY DEF FileRight, FileInv
<1>3. Len(lines) \in Nat /\ DOMAIN lines = 1..Len(lines)
  BY <1>2, LenProperties
<1>4. AllFit(lines)
  BY <1>1 DEF AllFit, F!Fits
<1>5. \/ StillRead(lines, line, off, cur, blocks, rules)
      \/ GoneThrough(lines, line, blocks, rules)
  BY <1>4 DEF FileRight, FileInv
<1>6. ~StillRead(lines, line, off, cur, blocks, rules)
  BY <1>1, <1>3 DEF StillRead, F!Read
<1>7. Listing(rules, lines, {r \in RunsOf(lines) : Long(r)})
  BY <1>1, <1>2, <1>5, <1>6, AllGoneThrough
<1>8. F!LongRuns = {r \in RunsOf(lines) : Long(r)}
  BY DEF F!LongRuns, F!Runs, RunsOf, Long
<1>9. \A r \in F!LongRuns : F!Pieces(r) = Block(lines, r)
  BY DEF F!Pieces, Block
<1>10. /\ rules \in Seq(Seq(Line))
       /\ \A k \in 1..Len(rules) : \E r \in F!LongRuns : rules[k] = Block(lines, r)
       /\ \A r \in F!LongRuns : \E k \in 1..Len(rules) : rules[k] = Block(lines, r)
       /\ \A k, n \in 1..Len(rules) : k < n => rules[k][1][1] < rules[n][1][1]
  BY <1>7, <1>8 DEF Listing
<1>11. DOMAIN rules = 1..Len(rules)
  BY <1>10, LenProperties
<1>12. F!ToSet(rules) = {rules[k] : k \in 1..Len(rules)}
  BY <1>11 DEF F!ToSet
<1>13. {rules[k] : k \in 1..Len(rules)} = {F!Pieces(r) : r \in F!LongRuns}
  BY <1>9, <1>10
<1>14. F!InFileOrder(rules)
  BY <1>10, <1>11 DEF F!InFileOrder
<1> QED BY <1>12, <1>13, <1>14

LEMMA FileSteps ==
  /\ MCInit => F!Init
  /\ [MCNext]_<<part, vars, reader, matcher, request>> => [F!Next]_(F!vars)
<1>1. MCInit => F!Init
  BY DEF MCInit
<1>2. reader' = reader => UNCHANGED F!vars
  BY DEF reader, F!vars
<1>3. [MCNext]_<<part, vars, reader, matcher, request>> => [F!Next]_(F!vars)
  BY <1>2 DEF MCNext
<1> QED BY <1>1, <1>3

(* Whatever a file holds, as long as each of its lines fits the buffer,    *)
(* the rules kept of it are its runs of three or more lines, each once, in *)
(* their order and whole (read_blocks, tf_redirects and tf_headerrules of  *)
(* aquatransport_config.c).                                                *)
THEOREM RulesAreRuns == ASSUME F!RuleFileAssumption PROVE MCSpec => []RulesAsWritten
<1>1. MCInit => FileRight
  BY FileSteps, FileStarts
<1>2. FileRight /\ [MCNext]_<<part, vars, reader, matcher, request>> => FileRight'
  BY FileSteps, FileKept
<1>3. FileRight => RulesAsWritten
  BY FileKeptIsRules
<1> QED BY <1>1, <1>2, <1>3, PTL DEF MCSpec
=============================================================================

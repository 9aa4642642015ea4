----------------------------- MODULE RuleCache -----------------------------
(***************************************************************************)
(* The cached rule and flag files of aquatransport_config.c: tf_redirects, *)
(* tf_headerrules and tf_flag, called by any thread of a process while an  *)
(* administrator saves and removes the file.                               *)
(*                                                                         *)
(* A cache is one file, one lock and what was last read.  A save replaces  *)
(* the file, so a reader's open file is one version of it, and stamps it   *)
(* with the second it is made in.  A version is the number of the edit     *)
(* that made it; an absent or unreadable file is one with no rules.        *)
(***************************************************************************)
EXTENDS Integers

CONSTANTS
  Threads, NoThread,
  OnceASecond,    \* TRUE when no two saves fall into one second
  MaxTime,        \* bound: seconds
  MaxEdits        \* bound: saves and removals

ASSUME RuleCacheAssumption ==
  /\ NoThread \notin Threads /\ OnceASecond \in BOOLEAN
  /\ MaxTime \in Nat \ {0} /\ MaxEdits \in Nat

VARIABLES
  kind,      \* "rules" for redirects.txt and headers.txt, "flags" for flags.txt
  file,      \* the file: whether it is there, its version, its modification time
  clock,     \* time(NULL)
  saved,     \* the second of the last save
  settled,   \* history: the file's version when the current second began
  gMtime, gCheck, gLoaded,
  gRules,    \* the version loaded, whether it has rules, and which allocation holds them
  lock, pc,
  m, mt,     \* stat_mtime's and read_blocks' modification times
  read,      \* what read_blocks has read
  got,       \* what the caller was given
  owed       \* history: what the caller could count on when it called

world  == <<kind, file, clock, saved, settled>>
cache  == <<gMtime, gCheck, gLoaded, gRules>>
locals == <<m, mt, read>>
vars   == <<world, cache, lock, pc, locals, got, owed>>

Unset == -1        \* what a stat that failed left in a time_t
Empty == [edit |-> 0, any |-> FALSE]
Contents == [edit |-> file.edit, any |-> file.there]
NoRules == [edit |-> 0, any |-> FALSE, block |-> 0]

Init ==
  /\ kind \in {"rules", "flags"}
  /\ file = [there |-> TRUE, edit |-> 0, mtime |-> 1]
  /\ clock = 1 /\ saved = 1 /\ settled = 0
  /\ gMtime = 0 /\ gCheck = 0 /\ gLoaded = FALSE /\ gRules = NoRules
  /\ lock = NoThread /\ pc = [t \in Threads |-> "idle"]
  /\ m = Unset /\ mt = Unset /\ read = Empty
  /\ got = [t \in Threads |-> NoRules] /\ owed = [t \in Threads |-> 0]

At(t, where) == pc[t] = where
Goto(t, where) == pc' = [pc EXCEPT ![t] = where]

-----------------------------------------------------------------------------
(* A call takes the lock; within a second of the last check it uses what   *)
(* is loaded.                                                              *)
Due_rarely == clock > gCheck + 1
Due == clock # gCheck

call(t) ==
  /\ At(t, "idle") /\ lock = NoThread
  /\ lock' = t
  /\ owed' = [owed EXCEPT ![t] = settled]
  /\ IF gLoaded /\ ~Due THEN Goto(t, "unlock") /\ UNCHANGED gCheck
     ELSE /\ Goto(t, "stat")
          /\ gCheck' = IF gLoaded THEN clock ELSE gCheck
  /\ UNCHANGED <<world, gMtime, gLoaded, gRules, locals, got>>

(* A changed file's rules are freed and read again; an absent one's are    *)
(* freed, if there are any.                                                *)
Changed == IF file.there THEN file.mtime # gMtime ELSE gRules.any

stat_changed(t) ==
  /\ At(t, "stat") /\ (~gLoaded \/ Changed)
  /\ m' = IF file.there THEN file.mtime ELSE Unset
  /\ gRules' = [NoRules EXCEPT !.block = gRules.block + 1]
  /\ Goto(t, IF kind = "rules" THEN "stat again" ELSE "open")
  /\ UNCHANGED <<world, gMtime, gCheck, gLoaded, lock, mt, read, got, owed>>

(* With no file and no rules loaded, what is loaded is what the file says. *)
stat_unchanged(t) ==
  /\ At(t, "stat") /\ gLoaded /\ ~Changed
  /\ gRules' = IF file.there THEN gRules ELSE [gRules EXCEPT !.edit = file.edit]
  /\ Goto(t, "unlock")
  /\ UNCHANGED <<world, gMtime, gCheck, gLoaded, lock, locals, got, owed>>

(* read_blocks looks at the file again before it opens it.                 *)
stat_again(t) ==
  /\ At(t, "stat again")
  /\ mt' = IF file.there THEN file.mtime ELSE Unset
  /\ read' = [edit |-> file.edit, any |-> FALSE]
  /\ Goto(t, IF file.there THEN "open" ELSE "store")
  /\ UNCHANGED <<world, cache, lock, m, got, owed>>

open(t) ==
  /\ At(t, "open")
  /\ read' = Contents
  /\ Goto(t, "store")
  /\ UNCHANGED <<world, cache, lock, m, mt, got, owed>>

(* The time kept with the rules is one from before they were read.         *)
Stamp_late == IF file.there THEN file.mtime ELSE 0
Seen == IF kind = "rules" THEN mt ELSE m
Stamp == IF Seen = Unset THEN 0 ELSE Seen

store(t) ==
  /\ At(t, "store")
  /\ gRules' = [edit |-> read.edit, any |-> read.any, block |-> gRules.block]
  /\ gMtime' = Stamp /\ gLoaded' = TRUE
  /\ m' = Unset /\ mt' = Unset /\ read' = Empty
  /\ Goto(t, "unlock")
  /\ UNCHANGED <<world, gCheck, lock, got, owed>>

(* The caller gets the array itself, and walks it after the unlock; a flag *)
(* is looked up before it.                                                 *)
unlock(t) ==
  /\ At(t, "unlock")
  /\ lock' = NoThread
  /\ got' = [got EXCEPT ![t] = gRules]
  /\ Goto(t, "use")
  /\ UNCHANGED <<world, cache, locals, owed>>

used(t) ==
  /\ At(t, "use")
  /\ got' = [got EXCEPT ![t] = NoRules] /\ owed' = [owed EXCEPT ![t] = 0]
  /\ Goto(t, "idle")
  /\ UNCHANGED <<world, cache, lock, locals>>

-----------------------------------------------------------------------------
(* The administrator, and time.                                            *)
save ==
  /\ file.edit < MaxEdits /\ (OnceASecond => clock > saved)
  /\ file' = [there |-> TRUE, edit |-> file.edit + 1, mtime |-> clock]
  /\ saved' = clock
  /\ UNCHANGED <<kind, clock, settled, cache, lock, pc, locals, got, owed>>

remove ==
  /\ file.edit < MaxEdits /\ file.there
  /\ file' = [there |-> FALSE, edit |-> file.edit + 1, mtime |-> file.mtime]
  /\ UNCHANGED <<kind, clock, saved, settled, cache, lock, pc, locals, got, owed>>

second ==
  /\ clock < MaxTime /\ clock' = clock + 1
  /\ settled' = file.edit
  /\ UNCHANGED <<kind, file, saved, cache, lock, pc, locals, got, owed>>

Next ==
  \/ \E t \in Threads :
       \/ call(t) \/ stat_changed(t) \/ stat_unchanged(t) \/ stat_again(t)
       \/ open(t) \/ store(t) \/ unlock(t) \/ used(t)
  \/ save \/ remove \/ second

Spec == Init /\ [][Next]_vars

-----------------------------------------------------------------------------
(* Every variable has its type.                                            *)
Versions == [edit : 0..MaxEdits, any : BOOLEAN]
Loaded == [edit : 0..MaxEdits, any : BOOLEAN, block : Nat]
WorldOK ==
  /\ kind \in {"rules", "flags"}
  /\ file \in [there : BOOLEAN, edit : 0..MaxEdits, mtime : 1..MaxTime]
  /\ clock \in 1..MaxTime /\ saved \in 1..MaxTime /\ settled \in 0..MaxEdits
CacheOK ==
  /\ gMtime \in 0..MaxTime /\ gCheck \in 0..MaxTime /\ gLoaded \in BOOLEAN
  /\ gRules \in Loaded
LocalsOK ==
  /\ m \in {Unset} \cup (1..MaxTime) /\ mt \in {Unset} \cup (1..MaxTime)
  /\ read \in Versions
CallsOK ==
  /\ lock \in Threads \cup {NoThread}
  /\ pc \in [Threads -> {"idle", "stat", "stat again", "open", "store", "unlock", "use"}]
  /\ got \in [Threads -> Loaded] /\ owed \in [Threads -> 0..MaxEdits]
TypeOK == WorldOK /\ CacheOK /\ LocalsOK /\ CallsOK

(* "Re-read whenever their mtime changes": a cache whose time is the       *)
(* file's holds the file's rules, although the file may be replaced        *)
(* between either look at it and its opening.  Otherwise an edit would be  *)
(* missed for good.                                                        *)
StampIsContents ==
  lock = NoThread /\ gLoaded /\ file.there /\ gMtime = file.mtime => gRules.edit = file.edit

(* "An edit applies without restarting anything ... throttled to once a    *)
(* second": a call gets the file as it was when the second it was made in  *)
(* began, or as it is since.                                               *)
ServedWithinSecond == \A t \in Threads : At(t, "use") => got[t].edit >= owed[t]

(* "Callers must not free the returned arrays": nor does the cache, while  *)
(* one of them still walks the array it was given.                         *)
ArrayOutlivesCaller ==
  \A t \in Threads :
    At(t, "use") /\ kind = "rules" /\ got[t].any => got[t].block = gRules.block
=============================================================================

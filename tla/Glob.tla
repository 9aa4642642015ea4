-------------------------------- MODULE Glob --------------------------------
(***************************************************************************)
(* glob_prefix of aquatransport_config.c, the matcher of every redirect    *)
(* and header rule: one pass over the URL that backs up to the last "*"    *)
(* when it fails, and how tf_apply_redirect uses the length it reports.    *)
(***************************************************************************)
EXTENDS Integers, FiniteSetsExt, Sequences

CONSTANTS
  Patterns,   \* not empty: read_blocks keeps no empty line
  Strings

GlobAssumption ==
  /\ \A t \in Patterns \cup Strings : Len(t) \in Nat /\ DOMAIN t = 1..Len(t)
  /\ \A t \in Patterns : Len(t) > 0

VARIABLES
  pattern, s,   \* the arguments
  p, i,         \* how far the pass is in each
  star, sp,     \* where it backs up to, or 0
  state         \* "matching", "matched" or "no match"

args == <<pattern, s>>
vars == <<args, p, i, star, sp, state>>

Init ==
  /\ pattern \in Patterns /\ s \in Strings
  /\ p = 1 /\ i = 1 /\ star = 0 /\ sp = 0 /\ state = "matching"

Looping == state = "matching" /\ i <= Len(s)
Same == pattern[p] = s[i]

(* A pattern used up has matched a prefix.                                 *)
Check == state' = IF p' > Len(pattern) THEN "matched" ELSE "matching"

wildcard ==
  /\ Looping /\ pattern[p] = "*"
  /\ p' = p + 1 /\ star' = p + 1 /\ sp' = i /\ Check
  /\ UNCHANGED <<args, i>>

literal ==
  /\ Looping /\ pattern[p] # "*" /\ Same
  /\ p' = p + 1 /\ i' = i + 1 /\ Check
  /\ UNCHANGED <<args, star, sp>>

(* The last "*" takes one more byte, but never a slash.                    *)
CanBackUp_anywhere == star # 0
CanBackUp == star # 0 /\ s[sp] # "/"

back_up ==
  /\ Looping /\ pattern[p] # "*" /\ ~Same /\ CanBackUp
  /\ p' = star /\ sp' = sp + 1 /\ i' = sp + 1 /\ Check
  /\ UNCHANGED <<args, star>>

give_up ==
  /\ Looping /\ pattern[p] # "*" /\ ~Same /\ ~CanBackUp
  /\ state' = "no match" /\ UNCHANGED <<args, p, i, star, sp>>

(* The string is used up: what is left of the pattern may only be "*".     *)
at_end ==
  /\ state = "matching" /\ i > Len(s)
  /\ state' = IF \A k \in p..Len(pattern) : pattern[k] = "*" THEN "matched" ELSE "no match"
  /\ UNCHANGED <<args, p, i, star, sp>>

consumed == i - 1

(* Its answer is all a call leaves behind.                                 *)
returned == state # "matching" /\ UNCHANGED vars

Next == wildcard \/ literal \/ back_up \/ give_up \/ at_end \/ returned
Spec == Init /\ [][Next]_vars

-----------------------------------------------------------------------------
(* A pattern fits a prefix of the string when each of its characters has   *)
(* its run of the string, one after the other: a "*" any run without a     *)
(* slash, another character itself.  c[k] is where the k-th run ends.      *)
End(c, k) == IF k = 0 THEN 0 ELSE c[k]
Takes(c, k) ==
  IF pattern[k] = "*"
  THEN End(c, k - 1) <= c[k] /\ \A j \in (End(c, k - 1) + 1)..c[k] : s[j] # "/"
  ELSE c[k] = End(c, k - 1) + 1 /\ s[c[k]] = pattern[k]
Cuts == [DOMAIN pattern -> 0..Len(s)]
Fits == {c \in Cuts : \A k \in DOMAIN pattern : Takes(c, k)}
Fitting == {c[Len(pattern)] : c \in Fits}

(* "'*' matches any run of characters other than '/'" (config.h:40): the   *)
(* one pass finds a match exactly when some prefix of the URL fits the     *)
(* pattern, though it backs up to the last "*" only, and what it reports   *)
(* is the shortest such prefix, so that what tf_apply_redirect splices on  *)
(* is the longest tail.                                                    *)
MatchIsShortestPrefix ==
  /\ state = "matched" => Fitting # {} /\ consumed = Min(Fitting)
  /\ state = "no match" => Fitting = {}
=============================================================================

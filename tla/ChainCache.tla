---------------------------- MODULE ChainCache -----------------------------
(***************************************************************************)
(* verify_chain and the verified-chain cache it consults: gChainOk,        *)
(* chain_ok_digest, chain_ok_get and chain_ok_put (aquatransport_engine.c).*)
(*                                                                         *)
(* A question is what a handshake asks of Security: which side is asking,  *)
(* the peer name, and the chain the peer sent.  Handshakes on different    *)
(* threads ask at once; the evaluation runs outside the cache's lock.      *)
(* Security's verdict on a chain changes as certificates expire and are    *)
(* revoked.  The cache measures age on the wall clock, time(NULL), which   *)
(* may be set; real time is kept beside it.                                *)
(***************************************************************************)
EXTENDS Integers, FiniteSets

CONSTANTS
  Threads,
  Questions,     \* [side, host, chain]: what handshakes ask of Security
  MAXCHOK,       \* slots of gChainOk
  CHAIN_OK_TTL,
  StepBack,      \* TRUE when the wall clock may be set back
  MaxTime,       \* bound: both clocks
  MaxUses        \* bound: how often the cache is used

ChainCacheAssumption ==
  /\ MAXCHOK \in Nat \ {0} /\ CHAIN_OK_TTL \in Nat
  /\ Questions # {} /\ \A q \in Questions : q.side \in {"client", "server"}
  /\ \A p, q \in Questions : p.side = q.side /\ p.host = q.host /\ p.chain = q.chain => p = q
  /\ StepBack \in BOOLEAN /\ MaxTime \in Nat /\ MaxUses \in Nat

VARIABLES
  gChainOk, gChainOkClock,
  now,      \* the wall clock
  real,     \* real time
  pc, asks, \* per thread: where verify_chain is, and the question it has
  read,     \* chain_ok_get's now
  last,     \* history: Security's last verdict on each question, and when it last accepted it
  answer    \* history: what verify_chain answered in this step, and how it came to it

vars == <<gChainOk, gChainOkClock, now, real, pc, asks, read, last, answer>>
clocks == <<now, real>>

Slots == 1..MAXCHOK
Digest == {<<q.host, q.chain>> : q \in Questions}
Idle == CHOOSE q \in Questions : TRUE
NoDigest == <<>>
Verdicts == {"none", "good", "bad", "revoked"}
NoAnswer == [how |-> "none", side |-> "client", ok |-> FALSE, age |-> 0, last |-> "none"]
Unused == [used |-> FALSE, dg |-> NoDigest, when |-> 0, lastUse |-> 0]

Init ==
  /\ gChainOk = [i \in Slots |-> Unused] /\ gChainOkClock = 0
  /\ now = 0 /\ real = 0
  /\ pc = [t \in Threads |-> "idle"]
  /\ asks = [t \in Threads |-> Idle]
  /\ read = [t \in Threads |-> 0]
  /\ last = [q \in Questions |-> [verdict |-> "none", goodAt |-> 0]]
  /\ answer = NoAnswer

-----------------------------------------------------------------------------
(* What the answer depends on: the peer name and the chain.  A server's    *)
(* question about a client is never cached.                                *)
chain_ok_digest(q) == <<q.host, q.chain>>
HaveDigest(q) == q.side = "client"

Answer(t, how, ok) ==
  /\ pc' = [pc EXCEPT ![t] = "idle"]
  /\ asks' = [asks EXCEPT ![t] = Idle] /\ read' = [read EXCEPT ![t] = 0]
  /\ answer' = [how |-> how, side |-> asks[t].side, ok |-> ok,
                age |-> real - last[asks[t]].goodAt, last |-> last[asks[t]].verdict]

(* A connection whose caller took the check on itself is not evaluated.    *)
verify_chain_waived(t) ==
  /\ pc[t] = "idle"
  /\ answer' = [NoAnswer EXCEPT !.how = "waived", !.ok = TRUE]
  /\ UNCHANGED <<gChainOk, gChainOkClock, clocks, pc, asks, read, last>>

(* Any other handshake asks; with a digest, the time is read before the    *)
(* lock is taken.                                                          *)
verify_chain(t, q) ==
  /\ pc[t] = "idle" /\ gChainOkClock < MaxUses
  /\ asks' = [asks EXCEPT ![t] = q]
  /\ answer' = NoAnswer
  /\ pc' = [pc EXCEPT ![t] = IF HaveDigest(q) THEN "get" ELSE "evaluate"]
  /\ read' = [read EXCEPT ![t] = IF HaveDigest(q) THEN now ELSE 0]
  /\ UNCHANGED <<gChainOk, gChainOkClock, clocks, last>>

Tick == gChainOkClock' = gChainOkClock + 1

Hits(dg) == {i \in Slots : gChainOk[i].used /\ gChainOk[i].dg = dg}
FirstOf(S) == CHOOSE i \in S : \A j \in S : i <= j
FreeSlots == {i \in Slots : ~gChainOk[i].used}
LeastRecent == {i \in Slots : \A j \in Slots : gChainOk[i].lastUse <= gChainOk[j].lastUse}

Fresh(t, i) == read[t] - gChainOk[i].when <= CHAIN_OK_TTL

(* A fresh entry answers, and is stamped; an expired one is let go.        *)
chain_ok_get_hit(t) ==
  LET hits == Hits(chain_ok_digest(asks[t])) IN
  /\ pc[t] = "get" /\ hits # {} /\ Fresh(t, FirstOf(hits))
  /\ Tick
  /\ gChainOk' = [gChainOk EXCEPT ![FirstOf(hits)].lastUse = gChainOkClock']
  /\ Answer(t, "cache", TRUE)
  /\ UNCHANGED <<clocks, last>>

chain_ok_get_miss(t) ==
  LET hits == Hits(chain_ok_digest(asks[t])) IN
  /\ pc[t] = "get"
  /\ IF hits = {} THEN UNCHANGED gChainOk
     ELSE /\ ~Fresh(t, FirstOf(hits))
          /\ gChainOk' = [gChainOk EXCEPT ![FirstOf(hits)].used = FALSE]
  /\ pc' = [pc EXCEPT ![t] = "evaluate"]
  /\ read' = [read EXCEPT ![t] = 0] /\ answer' = NoAnswer
  /\ UNCHANGED <<gChainOkClock, clocks, asks, last>>

-----------------------------------------------------------------------------
(* SecTrustEvaluate gives its verdict; an acceptance with a digest is      *)
(* recorded, anything else is only answered.                               *)
Accepted(v) == v.verdict \in {"good", "revoked"}

Recorded_always(q, ok) == HaveDigest(q)
Recorded(q, ok) == ok /\ HaveDigest(q)

SecTrustEvaluate(t, ok) ==
  LET q == asks[t] IN
  /\ pc[t] = "evaluate"
  /\ last' = [last EXCEPT ![q] =
       IF ok THEN [verdict |-> "good", goodAt |-> real]
       ELSE [@ EXCEPT !.verdict = IF Accepted(last[q]) THEN "revoked" ELSE "bad"]]
  /\ IF Recorded(q, ok) THEN pc' = [pc EXCEPT ![t] = "put"] /\ answer' = NoAnswer /\ UNCHANGED <<asks, read>>
                        ELSE Answer(t, "evaluated", ok)
  /\ UNCHANGED <<gChainOk, gChainOkClock, clocks>>

PutSlot_free_first(dg) ==
  IF FreeSlots # {} THEN FirstOf(FreeSlots)
  ELSE IF Hits(dg) # {} THEN FirstOf(Hits(dg)) ELSE FirstOf(LeastRecent)
PutSlot(dg) ==
  IF Hits(dg) # {} THEN FirstOf(Hits(dg))
  ELSE IF FreeSlots # {} THEN FirstOf(FreeSlots) ELSE FirstOf(LeastRecent)

chain_ok_put(t) ==
  LET dg == chain_ok_digest(asks[t]) IN
  /\ pc[t] = "put"
  /\ Tick
  /\ gChainOk' = [gChainOk EXCEPT ![PutSlot(dg)] =
       [used |-> TRUE, dg |-> dg, when |-> now, lastUse |-> gChainOkClock']]
  /\ Answer(t, "evaluated", TRUE)
  /\ UNCHANGED <<clocks, last>>

-----------------------------------------------------------------------------
(* Time passes, and the clock is set.  An acceptance is recorded in the    *)
(* second it was given, and a lookup is made in the second it read.        *)
Prompt == \A t \in Threads : pc[t] \notin {"get", "put"}

Second ==
  /\ Prompt /\ real < MaxTime /\ now < MaxTime
  /\ real' = real + 1 /\ now' = now + 1
  /\ answer' = NoAnswer
  /\ UNCHANGED <<gChainOk, gChainOkClock, pc, asks, read, last>>

SetClock ==
  /\ \E n \in 0..MaxTime : (n > now \/ StepBack) /\ n # now /\ now' = n
  /\ answer' = NoAnswer
  /\ UNCHANGED <<gChainOk, gChainOkClock, real, pc, asks, read, last>>

Next ==
  \/ \E t \in Threads :
       \/ verify_chain_waived(t)
       \/ \E q \in Questions : verify_chain(t, q)
       \/ chain_ok_get_hit(t) \/ chain_ok_get_miss(t)
       \/ \E ok \in BOOLEAN : SecTrustEvaluate(t, ok)
       \/ chain_ok_put(t)
  \/ Second \/ SetClock

Spec == Init /\ [][Next]_vars

-----------------------------------------------------------------------------
(* Every variable has its type.                                            *)
TypeOK ==
  /\ gChainOk \in [Slots -> [used : BOOLEAN, dg : Digest \cup {NoDigest}, when : 0..MaxTime, lastUse : Nat]]
  /\ gChainOkClock \in Nat
  /\ now \in 0..MaxTime /\ real \in 0..MaxTime
  /\ pc \in [Threads -> {"idle", "get", "evaluate", "put"}]
  /\ asks \in [Threads -> Questions] /\ read \in [Threads -> 0..MaxTime]
  /\ last \in [Questions -> [verdict : Verdicts, goodAt : 0..MaxTime]]
  /\ answer \in [how : {"none", "waived", "cache", "evaluated"}, side : {"client", "server"}, ok : BOOLEAN,
                 age : 0..MaxTime, last : Verdicts]

(* verify_chain accepts from the cache only what Security itself has       *)
(* accepted, for this name, this chain and this side, and no longer than   *)
(* CHAIN_OK_TTL seconds before ("The key covers everything the decision    *)
(* depends on", "Only successes are cached", "The TTL bounds how long a    *)
(* newly-expired or newly-revoked certificate could ride a cached          *)
(* success").                                                              *)
CachedWasAccepted ==
  answer.how = "cache" =>
    answer.side = "client" /\ answer.last \in {"good", "revoked"} /\ answer.age <= CHAIN_OK_TTL
=============================================================================

---------------------------- MODULE MCConnection ----------------------------
(***************************************************************************)
(* A connection, and the two caches handshakes consult, of sessions and of *)
(* verified chains, on small instances.  They share no state: a behaviour  *)
(* uses one of the three, and the others rest as they begin.               *)
(***************************************************************************)
EXTENDS Connection, UseOrders, TLC

CONSTANTS
  Threads, Questions, MAXCHOK, CHAIN_OK_TTL, StepBack, MaxTime, MaxUses,
  Conns, Keys, Sessions, NoKey, NoSess, MAXSESS, MaxTicks
VARIABLES
  part, gChainOk, gChainOkClock, now, real, pcs, asks, read, last, answer,
  gSess, gSessClock, peerID, hasX509, bypassed, check, accepted, phase, held, cached, drop, tls,
  refs, made, vetted

Chains == INSTANCE ChainCache WITH pc <- pcs
Cache == INSTANCE SessionCache WITH
  clientX509 <- hasX509, clientBypass <- bypassed, approved <- accepted
ASSUME Chains!ChainCacheAssumption /\ Cache!SessionCacheAssumption

chains == <<gChainOk, gChainOkClock, now, real, pcs, asks, read, last, answer>>
sessions == <<gSess, gSessClock, peerID, hasX509, bypassed, check, accepted, phase, held, cached, drop,
              tls, refs, made, vetted>>

(* Three questions, of two hosts and both sides.                           *)
Asks(side, name) == [side |-> side, host |-> name, chain |-> "x"]
BothSides == {Asks("client", "h1"), Asks("client", "h2"), Asks("server", "h1")}

(* Two endpoints whose peer ids share a prefix.                            *)
PlainKey  == <<1>>
LongerKey == <<1, 2>>
TwoKeys   == {PlainKey, LongerKey}

Alike == Permutations(Threads) \cup Permutations(Conns)

MCInit ==
  /\ part \in {"connection", "chains", "sessions"} /\ Chains!Init /\ Cache!Init /\ Init
  /\ part # "connection" => ~serverSide /\ ~serverTls /\ config = CHOOSE c \in Configs : TRUE
MCNext ==
  /\ UNCHANGED part
  /\ \/ part = "connection" /\ Next /\ UNCHANGED <<chains, sessions>>
     \/ part = "chains" /\ Chains!Next /\ UNCHANGED <<vars, sessions>>
     \/ part = "sessions" /\ Cache!Next /\ UNCHANGED <<vars, chains>>
MCSpec == MCInit /\ [][MCNext]_<<part, vars, chains, sessions>>

(* What the steps and the properties of this run depend on: who checked a  *)
(* peer, and whether a check was left to the engine or waived, is history. *)
MadeFor == [s \in Sessions |-> <<made[s].peer, made[s].ident>>]
Pausing == [c \in Conns |-> check[c] = "app"]
Seen == <<part, vars, chains, gSess, gSessClock, peerID, hasX509, bypassed, Pausing, accepted, phase,
          held, cached, drop, tls, refs, MadeFor>>

Used == {i \in Chains!Slots : gChainOk[i].used}
UseOrder ==
  OrderOfUse(Used, [i \in Used |-> gChainOk[i].lastUse], [i \in Used |-> gChainOk[i].dg])

Registry == INSTANCE LruRegistry WITH Key <- Chains!Digest, Cap <- MAXCHOK, order <- UseOrder

Stored == {i \in Cache!Slots : gSess[i].sess # NoSess}
SessionOrder ==
  OrderOfUse(Stored, [i \in Stored |-> gSess[i].lastUse], [i \in Stored |-> gSess[i].key])

SessionRegistry == INSTANCE LruRegistry WITH Key <- Keys, Cap <- MAXSESS, order <- SessionOrder

(* What verify_chain accepts from the cache Security accepted before, for  *)
(* this name, chain and side, and no longer ago than the time to live.     *)
CachedWasAccepted == Chains!CachedWasAccepted

(* The slots, stamps and scans of the chain cache behave as an LRU         *)
(* registry of digests, where an expired entry is one forgotten, and those *)
(* of the session cache as one of endpoints.                               *)
ImplementsRegistry == Registry!Spec /\ SessionRegistry!Spec

(* Every pointer sess_get and sess_put hand about has its reference, so    *)
(* none is freed under another thread and none leaks.                      *)
RefsExact == Cache!RefsExact

(* Sessions stay with the endpoint and the certificate they were made for. *)
SessionFits == Cache!SessionFits
=============================================================================

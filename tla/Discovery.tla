------------------------------ MODULE Discovery ------------------------------
(***************************************************************************)
(* The search for modern AirDrop peers in sharingd (AQDiscovery.inc) and   *)
(* the endpoints that connect and connectx scope to TAP (AQSocket.inc).    *)
(*                                                                         *)
(* A peer Bonjour shows without a name gets a probe, which resolves it,    *)
(* asks it over HTTP and tells the native browser the name it answers.     *)
(* All of it runs on the main run loop, one callback at a time; what       *)
(* Bonjour shows, what a peer answers and the TAP interface are the        *)
(* environment's.  A probe object is used again once nothing refers to it. *)
(***************************************************************************)
EXTENDS Integers, FiniteSets

CONSTANTS
  Peers,          \* service names
  Probes,         \* probe objects
  Addrs,          \* link-local addresses with their ports
  NoPeer, NoProbe, NoAddr,
  MAXPROBES,      \* probes of one browser
  ENDPOINTS,      \* entries of the table
  MaxTap,         \* bound: indices of the TAP interface; 0 is none
  MaxFails        \* bound: attempts that fail

DiscoveryAssumption ==
  /\ NoPeer \notin Peers /\ NoProbe \notin Probes /\ NoAddr \notin Addrs
  /\ IsFiniteSet(Probes)
  /\ MAXPROBES \in Nat /\ ENDPOINTS \in Nat /\ MaxTap \in Nat \ {0} /\ MaxFails \in Nat

VARIABLES
  browser,        \* the browser lives
  shown,          \* the services Bonjour shows it
  told,           \* the probe whose answer named each to it, or NoProbe
  items,          \* its dictionary of probes
  probe,
  endpoints,
  tap,            \* if_nametoindex("tap0")
  failed          \* the attempts that have failed

vars == <<browser, shown, told, items, probe, endpoints, tap, failed>>

Slots == 1..ENDPOINTS

(* A probe resolves or asks; scheduled, a block of the main queue is to    *)
(* start it.  Token 0 is no endpoint.                                      *)
Fresh == [peer |-> NoPeer, busy |-> "no", scheduled |-> FALSE, named |-> FALSE,
          cancelled |-> FALSE, token |-> 0, addr |-> NoAddr]

Init ==
  /\ browser = TRUE /\ shown = {} /\ told = [p \in Peers |-> NoProbe]
  /\ items = [p \in Peers |-> NoProbe] /\ probe = [b \in Probes |-> Fresh]
  /\ endpoints = [i \in Slots |-> [addr |-> NoAddr, scope |-> 0, refs |-> 0]]
  /\ tap = 1 /\ failed = 0

-----------------------------------------------------------------------------
(* The endpoint table.  release_endpoint gives back the tokens of probes.  *)
release_endpoint(table, probes) ==
  [i \in Slots |-> [table[i] EXCEPT !.refs = @ - Cardinality({b \in probes : probe[b].token = i})]]

First(S) == CHOOSE i \in S : \A j \in S : i <= j
InUse(table, addr) == {i \in Slots : table[i].refs > 0 /\ table[i].addr = addr}

(* The entry in use for an address on TAP, or else the first free one.     *)
TokenFor(table, addr) ==
  LET same == {i \in InUse(table, addr) : table[i].scope = tap}
      free == {i \in Slots : table[i].refs = 0}
  IN IF tap = 0 \/ same \cup free = {} THEN 0
     ELSE IF same # {} THEN First(same) ELSE First(free)

retain_endpoint(table, token, addr) ==
  IF token = 0 THEN table
  ELSE [table EXCEPT ![token] = [addr |-> addr, scope |-> tap, refs |-> @.refs + 1]]

(* The scope scoped_connect gives a connection to an address; 0 leaves the *)
(* connection as it is.                                                    *)
scoped_connect(addr) ==
  IF InUse(endpoints, addr) = {} THEN 0 ELSE endpoints[First(InUse(endpoints, addr))].scope

-----------------------------------------------------------------------------
(* A probe is kept by the dictionary, by a queued block and by the         *)
(* connection it is the delegate of; dealloc, when the last lets go,       *)
(* releases the endpoint.                                                  *)
Settle(newItems, newProbe, table) ==
  LET gone == {b \in Probes : /\ \A p \in Peers : newItems[p] # b
                              /\ ~newProbe[b].scheduled /\ newProbe[b].busy # "asking"}
  IN /\ items' = newItems
     /\ probe' = [b \in Probes |-> IF b \in gone THEN Fresh ELSE newProbe[b]]
     /\ endpoints' = release_endpoint(table, {b \in gone : newProbe[b].token # 0})

(* After retry the service and the connection are stopped; unless the      *)
(* probe was given up or a start is queued, one is.                        *)
retry(b) ==
  [probe EXCEPT ![b].busy = "no", ![b].scheduled = @ \/ (browser /\ ~probe[b].cancelled)]

cancelled_none(probes) == probe
cancelled(probes) ==
  [b \in Probes |-> IF b \notin probes THEN probe[b]
                    ELSE [probe[b] EXCEPT !.cancelled = TRUE, !.busy = "no", !.token = 0]]

Fails == failed < MaxFails /\ failed' = failed + 1

start(b) ==
  /\ probe[b].scheduled
  /\ Settle(items, [probe EXCEPT ![b].scheduled = FALSE,
                      ![b].busy = IF probe[b].cancelled \/ ~browser THEN @ ELSE "resolving"], endpoints)
  /\ UNCHANGED <<browser, shown, told, tap, failed>>

didNotResolve(b) ==
  /\ probe[b].busy = "resolving" /\ Fails
  /\ Settle(items, retry(b), endpoints)
  /\ UNCHANGED <<browser, shown, told, tap>>

(* A service that has no usable address is tried again; else the endpoint  *)
(* of an earlier attempt is given back, this one's taken and the peer asked*)
LetGo(b) == release_endpoint(endpoints, {b})
netServiceDidResolveAddress(b, addr) ==
  /\ probe[b].busy = "resolving"
  /\ LET token == TokenFor(LetGo(b), addr)
     IN Settle(items, [probe EXCEPT ![b].busy = "asking", ![b].token = token, ![b].addr = addr],
               retain_endpoint(LetGo(b), token, addr))
  /\ UNCHANGED <<browser, shown, told, tap, failed>>

(* An error, a status other than 200, a body too long or without a name.   *)
connectionFails_quietly(b) ==
  /\ probe[b].busy = "asking" /\ Fails
  /\ Settle(items, [probe EXCEPT ![b].busy = "no"], endpoints)
  /\ UNCHANGED <<browser, shown, told, tap>>
connectionFails(b) ==
  /\ probe[b].busy = "asking" /\ Fails
  /\ Settle(items, retry(b), endpoints)
  /\ UNCHANGED <<browser, shown, told, tap>>

connectionDidFinishLoading(b) ==
  /\ probe[b].busy = "asking"
  /\ Settle(items, [probe EXCEPT ![b].busy = "no", ![b].named = browser], endpoints)
  /\ told' = IF browser THEN [told EXCEPT ![probe[b].peer] = b] ELSE told
  /\ UNCHANGED <<browser, shown, tap, failed>>

-----------------------------------------------------------------------------
(* The browser's hooks.                                                    *)

(* Bonjour shows a service without a name, or its TXT record again.        *)
Kept == {items[p] : p \in Peers} \ {NoProbe}
person_changed(p) ==
  LET b == items[p]
  IN /\ browser
     /\ shown' = shown \cup {p}
     /\ told' = [told EXCEPT ![p] = IF b # NoProbe /\ probe[b].named THEN b ELSE NoProbe]
     /\ IF b = NoProbe /\ Cardinality(Kept) < MAXPROBES
        THEN \E n \in Probes :
               /\ probe[n] = Fresh /\ items' = [items EXCEPT ![p] = n]
               /\ probe' = [probe EXCEPT ![n].peer = p, ![n].scheduled = TRUE]
        ELSE UNCHANGED <<items, probe>>
     /\ UNCHANGED <<browser, endpoints, tap, failed>>

Forget(peers) ==
  LET gone == {items[p] : p \in peers} \ {NoProbe}
  IN /\ Settle([p \in Peers |-> IF p \in peers THEN NoProbe ELSE items[p]],
               cancelled(gone), release_endpoint(endpoints, gone))
     /\ shown' = shown \ peers
     /\ told' = [p \in Peers |-> IF p \in peers THEN NoProbe ELSE told[p]]
     /\ UNCHANGED <<browser, tap, failed>>

remove_service(p) == browser /\ p \in shown /\ Forget({p})
cancel_discovery == browser /\ Forget(Peers)

(* The browser is destroyed with its dictionary, without a stop.           *)
BrowserEnds ==
  /\ browser /\ browser' = FALSE
  /\ Settle([p \in Peers |-> NoProbe], probe, endpoints)
  /\ shown' = {} /\ told' = [p \in Peers |-> NoProbe]
  /\ UNCHANGED <<tap, failed>>

(* OWL ends or starts, and TAP with it.                                    *)
TapChanges ==
  /\ tap' \in (0..MaxTap) \ {tap}
  /\ UNCHANGED <<browser, shown, told, items, probe, endpoints, failed>>

Resolves(b) == \E addr \in Addrs : netServiceDidResolveAddress(b, addr)
ProbeSteps(b) ==
  start(b) \/ didNotResolve(b) \/ Resolves(b) \/ connectionFails(b) \/ connectionDidFinishLoading(b)
Next ==
  \/ \E b \in Probes : ProbeSteps(b)
  \/ \E p \in Peers : person_changed(p) \/ remove_service(p)
  \/ cancel_discovery \/ BrowserEnds \/ TapChanges

Spec == Init /\ [][Next]_vars

(* The main queue runs; a resolution and a request end within their        *)
(* timeouts, and no more than MaxFails of them without an answer.          *)
Fairness == \A b \in Probes : WF_vars(ProbeSteps(b))

-----------------------------------------------------------------------------
(* Every variable has its type.                                            *)
TypeOK ==
  /\ browser \in BOOLEAN /\ shown \subseteq Peers /\ told \in [Peers -> Probes \cup {NoProbe}]
  /\ items \in [Peers -> Probes \cup {NoProbe}]
  /\ probe \in [Probes -> [peer : Peers \cup {NoPeer}, busy : {"no", "resolving", "asking"},
                           scheduled : BOOLEAN, named : BOOLEAN, cancelled : BOOLEAN,
                           token : 0..ENDPOINTS, addr : Addrs \cup {NoAddr}]]
  /\ endpoints \in [Slots -> [addr : Addrs \cup {NoAddr}, scope : 0..MaxTap, refs : Nat]]
  /\ tap \in 0..MaxTap /\ failed \in 0..MaxFails

(* The native browser has a name only for a service it still shows, from   *)
(* the probe it has for it now: an answer that comes after the service was *)
(* removed, or has come back with another identity, names nobody.  And     *)
(* that probe's endpoint is still its own, counted once by each probe that *)
(* has it: one released too often gives a connected peer's scope to        *)
(* another, one never released is lost to the table.                       *)
NamedIsReachable ==
  /\ \A p \in Peers : told[p] # NoProbe => p \in shown /\ items[p] = told[p]
  /\ \A i \in Slots : endpoints[i].refs = Cardinality({b \in Probes : probe[b].token = i})
  /\ \A b \in Probes : probe[b].token # 0 => scoped_connect(probe[b].addr) # 0

(* A peer that has a probe is named in the end, or gone: no failure, late  *)
(* answer or cancelled attempt leaves a probe with nothing to come.        *)
PeerIsNamed(p) == items[p] # NoProbe ~> (items[p] = NoProbe \/ told[p] # NoProbe)
PeersAreNamed == \A p \in Peers : PeerIsNamed(p)
=============================================================================

----------------------------- MODULE MCAirDrop -----------------------------
(***************************************************************************)
(* The AirDrop adapter on small instances: how it comes into a process, and*)
(* once it is there its transfers and modes, its search for peers, and the *)
(* connections of a stopped receiver.  A behaviour uses one of the four,   *)
(* and the others rest as they begin.                                      *)
(***************************************************************************)
EXTENDS TransferMode

CONSTANTS Threads, Main, Machines, Envs,
          Peers, Probes, Addrs, NoPeer, NoProbe, NoAddr, MAXPROBES, ENDPOINTS, MaxTap, MaxFails,
          Conns, ATTEMPTS, MaxStarts, MaxStops
VARIABLES part, machine, env, phase, watching, plugin, rebound, scheduled, once, job, left,
          loaded, installed, native_mode, modern_active, adapter_active, answer,
          browser, shown, told, items, probe, endpoints, tap, failed,
          alive, http, conns, closing, receives, leases, leasable, put_off, flushing,
          generation, stopped, checks

Adapter == INSTANCE AirDropLoading WITH queued <- scheduled
Search == INSTANCE Discovery
Drain == INSTANCE ServerDrain WITH deferred <- put_off
ASSUME Adapter!MachinesAssumption /\ Search!DiscoveryAssumption /\ Drain!DrainAssumption

adapter == <<machine, env, phase, watching, plugin, rebound, scheduled, once, job, left,
             loaded, installed, native_mode, modern_active, adapter_active, answer>>
search == <<browser, shown, told, items, probe, endpoints, tap, failed>>
drain == <<alive, http, conns, closing, receives, leases, leasable, put_off, flushing,
           generation, stopped, checks>>

(* The sharingd the adapter was written for; the same without the UUID,    *)
(* without the API, with another name, on another system, and in 32 bits.  *)
Meant == [darwin |-> 13, pointer_bytes |-> 8, executable |-> "sharingd", uuid |-> TRUE,
          api |-> TRUE]
MCMachines == {Meant, [Meant EXCEPT !.uuid = FALSE], [Meant EXCEPT !.api = FALSE],
  [Meant EXCEPT !.executable = "Finder"], [Meant EXCEPT !.executable = "other"],
  [Meant EXCEPT !.darwin = 12], [Meant EXCEPT !.pointer_bytes = 4]}
Ready == [off |-> FALSE, tap |-> TRUE, runtime |-> TRUE, file |-> TRUE, radios |-> 1,
          controllers |-> 1]
MCEnvs == {Ready, [Ready EXCEPT !.off = TRUE], [Ready EXCEPT !.tap = FALSE],
  [Ready EXCEPT !.runtime = FALSE, !.radios = 2], [Ready EXCEPT !.file = FALSE, !.controllers = 0]}

MCInit ==
  /\ part \in {"transfers", "loading", "search", "drain"}
  /\ part # "loading" => machine = Meant /\ env = Ready /\ native_mode = FALSE
  /\ Adapter!Init /\ Search!Init /\ Drain!Init /\ Init

(* Nothing tells operations apart before they begin, so the first to begin *)
(* may bear any one name.                                                  *)
FirstBegins ==
  (\E o \in Ops : op'[o] # NoLease) => op'[CHOOSE o \in Ops : TRUE] # NoLease

MCNext ==
  /\ UNCHANGED part
  /\ \/ part = "transfers" /\ Next /\ FirstBegins /\ UNCHANGED <<adapter, search, drain>>
     \/ part = "loading" /\ Adapter!Next /\ UNCHANGED <<vars, search, drain>>
     \/ part = "search" /\ Search!Next /\ UNCHANGED <<vars, adapter, drain>>
     \/ part = "drain" /\ Drain!Next /\ UNCHANGED <<vars, adapter, search>>
     \/ part = "drain" /\ ~alive /\ UNCHANGED <<vars, adapter, search, drain>>
MCSpec == /\ MCInit /\ [][MCNext]_<<part, vars, adapter, search, drain>>
          /\ Fairness /\ Search!Fairness /\ Drain!Fairness

(* When tf_airdrop_active answers yes the adapter is installed and modern. *)
AnswerIsModern ==
  [][\A t \in Threads : answer[t] # "yes" /\ answer'[t] = "yes" =>
       loaded /\ installed /\ ~native_mode]_adapter

(* A peer's name is from the probe its service has now, and each probe's   *)
(* endpoint is its own.                                                    *)
NamedIsReachable == Search!NamedIsReachable

(* A peer that has a probe is named in the end, or gone: one peer stands   *)
(* for all, which nothing tells apart.                                     *)
PeersAreNamed == Search!PeerIsNamed(CHOOSE p \in Peers : TRUE)

(* A stopped receiver's connections are closed in the end, or the checks   *)
(* have come as often as they may.                                         *)
HeldIsClosed == Drain!HeldIsClosed
=============================================================================

---------------------------- MODULE TransferMode ----------------------------
(***************************************************************************)
(* The AirDrop adapter inside sharingd: which transfers own the radio and  *)
(* the receivers (AQTransferLease.inc), and the switch between the modern  *)
(* and the native protocol (AQMode.inc), with the start and stop of        *)
(* receivers and browsers (AQAirDrop.m) and their retry                    *)
(* (AQPendingRetry.inc).                                                   *)
(*                                                                         *)
(* sharingd starts and stops receivers and browsers on its main thread,    *)
(* whose queue also runs the adapter's own blocks.  A transfer begins and  *)
(* ends on the queue of its connection, one critical section at a time.    *)
(* Whether the radio can be had is the environment's; only who owns it is  *)
(* kept here.                                                              *)
(***************************************************************************)
EXTENDS Integers, Sequences, FiniteSets

CONSTANTS
  Servers, Browsers,
  Ops,            \* the operations: each transfers once
  NoServer,
  MaxRequests     \* bound: requests for a mode

ASSUME TransferModeAssumption ==
  /\ IsFiniteSet(Servers) /\ IsFiniteSet(Browsers) /\ IsFiniteSet(Ops)
  /\ NoServer \notin Servers /\ MaxRequests \in Nat

VARIABLES
  native,         \* native_mode
  requested,      \* requested_mode: "none" (-1), "modern" (0) or "native" (1)
  queued,         \* mode_transition_queued
  activeTransfers, receivingTransfers,
  leased,         \* leased_transfer_servers: how often each server is leased
  transferServers,
  deferred,       \* deferred_transfer_servers
  active, pending,   \* active_ and pending_ servers and browsers
  running,        \* those whose original start was called last
  owners,         \* radio_owners; a transfer's token is its operation
  op,             \* the operations and their leases
  mainQueue,      \* the adapter's blocks on the main queue
  mainPc,         \* "idle", "apply" before apply_pending_mode, or "stop" within stop_server
  stopping,       \* the server stop_server is about to stop
  requests

modeVars   == <<native, requested, queued, requests>>
leaseVars  == <<activeTransfers, receivingTransfers, leased, transferServers, deferred>>
objectVars == <<active, pending, running, owners>>
mainVars   == <<mainQueue, mainPc, stopping>>
vars == <<modeVars, leaseVars, objectVars, op, mainVars>>

NoLease == [pc |-> "new", native |-> FALSE, incoming |-> FALSE, servers |-> {}]

Init ==
  /\ native = FALSE /\ requested = "none" /\ queued = FALSE /\ requests = 0
  /\ activeTransfers = 0 /\ receivingTransfers = 0
  /\ leased = [s \in Servers |-> 0] /\ transferServers = {} /\ deferred = {}
  /\ active = {} /\ pending = {} /\ running = {} /\ owners = {}
  /\ op = [o \in Ops |-> NoLease]
  /\ mainQueue = <<>> /\ mainPc = "idle" /\ stopping = NoServer

(* The main thread takes up something new; an operation's next step.       *)
MainFree == mainPc = "idle"
At(o, pc) == op[o].pc = pc
Goto(o, pc) == op' = [op EXCEPT ![o].pc = pc]

(* apply_pending_mode, up to the dispatch of its block.                    *)
apply_pending_mode ==
  IF queued \/ requested = "none" \/ activeTransfers > 0
  THEN UNCHANGED <<queued, mainQueue>>
  ELSE queued' = TRUE /\ mainQueue' = Append(mainQueue, "mode")

-----------------------------------------------------------------------------
(* Transfers.                                                              *)

(* begin_transfer reads the mode and counts itself in one critical section.*)
begin_transfer(o, incoming) ==
  /\ At(o, "new")
  /\ op' = [op EXCEPT ![o] = [pc |-> IF native THEN "owned" ELSE "counted", native |-> native, incoming |-> incoming, servers |-> {}]]
  /\ activeTransfers' = activeTransfers + 1
  /\ UNCHANGED <<modeVars, receivingTransfers, leased, transferServers, deferred, objectVars, mainVars>>

acquire_radio(o) ==
  /\ At(o, "counted")
  /\ \/ owners' = owners \cup {o} /\ Goto(o, "owned")
     \/ owners' = owners \ {o} /\ Goto(o, "failing")
  /\ UNCHANGED <<modeVars, leaseVars, active, pending, running, mainVars>>

(* Without the radio the transfer goes ahead unleased.                     *)
begin_fails_uncount_lost(o) ==
  /\ At(o, "failing") /\ Goto(o, "failed")
  /\ UNCHANGED <<modeVars, leaseVars, objectVars, mainVars>>
begin_fails_uncount(o) ==
  /\ At(o, "failing") /\ Goto(o, "failed")
  /\ activeTransfers' = activeTransfers - 1
  /\ UNCHANGED <<modeVars, receivingTransfers, leased, transferServers, deferred, objectVars, mainVars>>
begin_fails(o) ==
  /\ At(o, "failed") /\ Goto(o, "done")
  /\ apply_pending_mode
  /\ UNCHANGED <<native, requested, requests, leaseVars, objectVars, mainPc, stopping>>

(* The lease: an incoming modern transfer also takes every receiver.       *)
take_lease(o) ==
  /\ At(o, "owned")
  /\ LET incoming == op[o].incoming /\ ~op[o].native
         taken == IF incoming THEN transferServers ELSE {}
     IN /\ op' = [op EXCEPT ![o].pc = "leased", ![o].incoming = incoming, ![o].servers = taken]
        /\ receivingTransfers' = receivingTransfers + (IF incoming THEN 1 ELSE 0)
        /\ leased' = [s \in Servers |-> leased[s] + (IF s \in taken THEN 1 ELSE 0)]
  /\ UNCHANGED <<modeVars, activeTransfers, transferServers, deferred, objectVars, mainVars>>

(* finish: at the transfer's terminal event, its stop or its lease's end.  *)
finish_release(o) ==
  /\ At(o, "leased") /\ Goto(o, "released")
  /\ owners' = owners \ {o}
  /\ UNCHANGED <<modeVars, leaseVars, active, pending, running, mainVars>>

finish_uncount(o) ==
  /\ At(o, "released") /\ Goto(o, "uncounted")
  /\ activeTransfers' = activeTransfers - 1
  /\ UNCHANGED <<modeVars, receivingTransfers, leased, transferServers, deferred, objectVars, mainVars>>

finish_apply(o) ==
  /\ At(o, "uncounted") /\ Goto(o, IF op[o].incoming THEN "applied" ELSE "done")
  /\ apply_pending_mode
  /\ UNCHANGED <<native, requested, requests, leaseVars, objectVars, mainPc, stopping>>

finish_unlease(o) ==
  /\ At(o, "applied")
  /\ op' = [op EXCEPT ![o].pc = "flushing", ![o].servers = {}]
  /\ receivingTransfers' = receivingTransfers - 1
  /\ leased' = [s \in Servers |-> leased[s] - (IF s \in op[o].servers THEN 1 ELSE 0)]
  /\ UNCHANGED <<modeVars, activeTransfers, transferServers, deferred, objectVars, mainVars>>

flush_if_last(o) ==
  /\ At(o, "flushing") /\ Goto(o, "done")
  /\ mainQueue' = IF activeTransfers = 0 THEN Append(mainQueue, "flush") ELSE mainQueue
  /\ UNCHANGED <<modeVars, leaseVars, objectVars, mainPc, stopping>>
flush_transfer_servers(o) ==
  /\ At(o, "flushing") /\ Goto(o, "done")
  /\ mainQueue' = Append(mainQueue, "flush")
  /\ UNCHANGED <<modeVars, leaseVars, objectVars, mainPc, stopping>>

-----------------------------------------------------------------------------
(* Receivers and browsers, on the main thread.  StartIn starts "objects"   *)
(* in a mode, "ok" being those of them that get the radio; StoppedNow are  *)
(* those of "objects" whose stop is not deferred.                          *)
StartIn(mode, objects, ok, pending0, running0, owners0, transfer0, deferred0) ==
  LET up == IF mode THEN objects ELSE ok
      down == objects \ up
  IN /\ pending' = (pending0 \ (IF mode THEN up \ Servers ELSE up)) \cup down
     /\ running' = running0 \cup up
     /\ owners' = IF mode THEN owners0 ELSE (owners0 \ objects) \cup ok
     /\ transferServers' = IF mode THEN transfer0 ELSE transfer0 \cup (ok \cap Servers)
     /\ deferred' = IF mode THEN deferred0 ELSE deferred0 \ ok

start(x) ==
  /\ MainFree
  /\ active' = active \cup {x}
  /\ \E ok \in SUBSET {x} : StartIn(native, {x}, ok, pending, running, owners, transferServers, deferred)
  /\ UNCHANGED <<modeVars, activeTransfers, receivingTransfers, leased, op, mainVars>>

stop_browser(b) ==
  /\ MainFree
  /\ active' = active \ {b} /\ pending' = pending \ {b} /\ running' = running \ {b}
  /\ owners' = IF native THEN owners ELSE owners \ {b}
  /\ UNCHANGED <<modeVars, leaseVars, op, mainVars>>

(* defer_transfer_server_stop, and then the stop itself.                   *)
Deferrable(s) == leased[s] > 0

stop_server(s) ==
  /\ MainFree
  /\ active' = active \ {s} /\ pending' = pending \ {s}
  /\ IF native
     THEN running' = running \ {s} /\ UNCHANGED <<deferred, mainPc, stopping>>
     ELSE /\ UNCHANGED running
          /\ IF Deferrable(s)
             THEN deferred' = deferred \cup {s} /\ UNCHANGED <<mainPc, stopping>>
             ELSE mainPc' = "stop" /\ stopping' = s /\ UNCHANGED deferred
  /\ UNCHANGED <<modeVars, activeTransfers, receivingTransfers, leased, transferServers, owners, op, mainQueue>>

stop_server_now ==
  /\ mainPc = "stop"
  /\ transferServers' = transferServers \ {stopping}
  /\ running' = running \ {stopping} /\ owners' = owners \ {stopping}
  /\ mainPc' = "idle" /\ stopping' = NoServer
  /\ UNCHANGED <<modeVars, activeTransfers, receivingTransfers, leased, deferred, active, pending, op, mainQueue>>

(* The timer and sharingd's notice that Wi-Fi is on, while someone browses.*)
retry_pending_radio ==
  /\ MainFree /\ ~native
  /\ active \cap Browsers # {} /\ pending # {}
  /\ active' = active \cup pending
  /\ \E ok \in SUBSET pending : StartIn(FALSE, pending, ok, pending, running, owners, transferServers, deferred)
  /\ UNCHANGED <<modeVars, activeTransfers, receivingTransfers, leased, op, mainVars>>

-----------------------------------------------------------------------------
(* The main queue's blocks.                                                *)

FlushBlock_leaking ==
  /\ running' = running \ deferred /\ owners' = owners
  /\ transferServers' = transferServers \ deferred /\ deferred' = {}
FlushBlock ==
  IF receivingTransfers > 0 THEN UNCHANGED <<running, owners, transferServers, deferred>>
  ELSE /\ running' = running \ deferred /\ owners' = owners \ deferred
       /\ transferServers' = transferServers \ deferred /\ deferred' = {}

flush ==
  /\ MainFree /\ mainQueue # <<>> /\ Head(mainQueue) = "flush"
  /\ mainQueue' = Tail(mainQueue)
  /\ FlushBlock
  /\ UNCHANGED <<modeVars, activeTransfers, receivingTransfers, leased, active, pending, op, mainPc, stopping>>

(* Every browser and receiver is stopped in the old mode and started in    *)
(* the new one, under the lock, and what was requested meanwhile follows.  *)
MayTransit_unchecked == requested # "none"
MayTransit == requested # "none" /\ activeTransfers = 0

Transit(next) ==
  LET kept == IF native THEN {} ELSE {s \in active \cap Servers : Deferrable(s)}
      stopped == active \ kept
  IN /\ native' = next
     /\ \E ok \in SUBSET active :
          StartIn(next, active, ok, pending \ active, running \ stopped,
                  IF native THEN owners ELSE owners \ stopped,
                  IF native THEN transferServers ELSE transferServers \ stopped,
                  deferred \cup kept)
     /\ UNCHANGED active

transit ==
  /\ MainFree /\ mainQueue # <<>> /\ Head(mainQueue) = "mode"
  /\ mainQueue' = Tail(mainQueue) /\ queued' = FALSE
  /\ IF MayTransit
     THEN /\ requested' = "none"
          /\ IF native = (requested = "native")
             THEN UNCHANGED <<native, objectVars, transferServers, deferred, mainPc>>
             ELSE Transit(requested = "native") /\ mainPc' = "apply"
     ELSE UNCHANGED <<requested, native, objectVars, transferServers, deferred, mainPc>>
  /\ UNCHANGED <<requests, activeTransfers, receivingTransfers, leased, op, stopping>>

(* A request by Finder, or by its heartbeat's silence.                     *)
modeRequested(m) ==
  /\ MainFree /\ requests < MaxRequests /\ requests' = requests + 1
  /\ requested' = m /\ mainPc' = "apply"
  /\ UNCHANGED <<native, queued, leaseVars, objectVars, op, mainQueue, stopping>>

expire_mode_owner ==
  /\ MainFree /\ (native \/ requested = "native")
  /\ requests < MaxRequests /\ requests' = requests + 1
  /\ requested' = "modern" /\ mainPc' = "apply"
  /\ UNCHANGED <<native, queued, leaseVars, objectVars, op, mainQueue, stopping>>

apply_on_main ==
  /\ mainPc = "apply" /\ mainPc' = "idle"
  /\ apply_pending_mode
  /\ UNCHANGED <<native, requested, requests, leaseVars, objectVars, op, stopping>>

OpSteps(o) ==
  \/ acquire_radio(o) \/ begin_fails_uncount(o) \/ begin_fails(o) \/ take_lease(o)
  \/ finish_release(o) \/ finish_uncount(o) \/ finish_apply(o)
  \/ finish_unlease(o) \/ flush_transfer_servers(o)

Blocks == flush \/ transit

Next ==
  \/ \E o \in Ops : OpSteps(o) \/ \E incoming \in BOOLEAN : begin_transfer(o, incoming)
  \/ \E x \in Servers \cup Browsers : start(x)
  \/ \E b \in Browsers : stop_browser(b)
  \/ \E s \in Servers : stop_server(s)
  \/ stop_server_now \/ retry_pending_radio
  \/ \E m \in {"modern", "native"} : modeRequested(m)
  \/ expire_mode_owner \/ apply_on_main \/ Blocks

Spec == Init /\ [][Next]_vars

(* A transfer ends, by its peer or by a timeout; the main thread finishes  *)
(* a call it is in, and gets to each block of its queue however often      *)
(* sharingd has calls for it.                                              *)
Fairness ==
  /\ \A o \in Ops : WF_vars(OpSteps(o))
  /\ WF_vars(stop_server_now) /\ WF_vars(apply_on_main)
  /\ SF_vars(Blocks)
FairSpec == Spec /\ Fairness

-----------------------------------------------------------------------------
(* Every variable has its type.                                            *)
TypeOK ==
  /\ native \in BOOLEAN /\ requested \in {"none", "modern", "native"} /\ queued \in BOOLEAN
  /\ activeTransfers \in Nat /\ receivingTransfers \in Nat
  /\ leased \in [Servers -> Nat]
  /\ transferServers \subseteq Servers /\ deferred \subseteq Servers
  /\ active \subseteq Servers \cup Browsers /\ pending \subseteq Servers \cup Browsers
  /\ running \subseteq Servers \cup Browsers
  /\ owners \subseteq Servers \cup Browsers \cup Ops
  /\ op \in [Ops -> [pc : {"new", "counted", "failing", "failed", "owned", "leased",
                           "released", "uncounted", "applied", "flushing", "done"}, native : BOOLEAN,
                     incoming : BOOLEAN, servers : SUBSET Servers]]
  /\ mainQueue \in Seq({"mode", "flush"})
  /\ mainPc \in {"idle", "apply", "stop"} /\ stopping \in Servers \cup {NoServer}
  /\ requests \in Nat

Counted(o) == op[o].pc \in {"counted", "failing", "owned", "leased", "released"}
Receiving(o) == op[o].incoming /\ op[o].pc \in {"leased", "released", "uncounted", "applied"}
CountOf(P(_)) == Cardinality({o \in Ops : P(o)})

(* active_transfers, receiving_transfers and leased_transfer_servers count *)
(* exactly the operations in progress, through begins that fail and ends   *)
(* that interleave; a count left over would put off every mode switch or   *)
(* every deferred stop for good.                                           *)
CountsExact ==
  /\ activeTransfers = CountOf(Counted)
  /\ receivingTransfers = CountOf(Receiving)
  /\ \A s \in Servers : leased[s] = CountOf(LAMBDA o : Receiving(o) /\ s \in op[o].servers)

(* "Active modern and native transfers delay a protocol switch until they  *)
(* finish": a transfer ends in the mode in which it read native_mode.      *)
SwitchWaitsForTransfers == \A o \in Ops : Counted(o) => op[o].native = native

(* A requested mode is never forgotten: while one is pending, a block is   *)
(* queued for it, or someone is still to call apply_pending_mode.          *)
RequestIsScheduled ==
  requested # "none" =>
    queued \/ mainPc = "apply" \/ \E o \in Ops : Counted(o) \/ op[o].pc \in {"failed", "uncounted"}

(* Nor is a deferred stop: a flush is queued, or a receive is still to end.*)
DeferredIsScheduled ==
  deferred # {} =>
    receivingTransfers > 0 \/ (\E i \in DOMAIN mainQueue : mainQueue[i] = "flush")
      \/ \E o \in Ops : op[o].pc = "flushing"

(* Only receivers and browsers in use own the radio; one left among the    *)
(* owners would keep Wi-Fi taken for ever.                                 *)
OwnedIsUsed == owners \subseteq active \cup deferred \cup {stopping} \cup Ops

(* A requested mode is in force, or asked for in vain, in the end; and a   *)
(* deferred stop is made or cancelled, whichever transfer ends last.       *)
RequestsEnd == requested # "none" ~> requested = "none"
DeferralsEnd == \A s \in Servers : s \in deferred ~> s \notin deferred
NothingPutOffForever == RequestsEnd /\ DeferralsEnd
=============================================================================

----------------------------- MODULE ServerDrain -----------------------------
(***************************************************************************)
(* What becomes of the connections an AirDrop receiver still holds when it *)
(* has been stopped (AQServerDrain.inc): while there are any, Mavericks    *)
(* starts no other receiver.                                               *)
(*                                                                         *)
(* One receiver, its hooks on the main thread, whose queue is also its own.*)
(* Its server and its table of connections are sharingd's; a receive on    *)
(* one of them leases the receiver if it was running (AQTransferLease.inc) *)
(* and puts off its stop.  Time is not measured: a check that is due five  *)
(* seconds from now may come at any later step.  The mode is modern: in    *)
(* native mode a stop neither waits nor drains.                            *)
(***************************************************************************)
EXTENDS Integers, FiniteSets

CONSTANTS
  Conns,          \* connections
  ATTEMPTS,       \* AQ_SERVER_DRAIN_ATTEMPTS
  MaxStarts, MaxStops   \* bounds: calls of start, and stops that begin to drain

DrainAssumption == ATTEMPTS \in Nat /\ MaxStarts \in Nat /\ MaxStops \in Nat

VARIABLES
  alive,          \* the receiver exists
  http,           \* its _server: it is running
  conns,          \* its _connections
  closing,        \* those of them that were invalidated
  receives,       \* those with a receive in progress
  leases,         \* the receives that lease this receiver
  leasable,       \* it is in transfer_servers
  deferred,       \* its stop is put off
  flushing,       \* flush_transfer_servers has queued its block
  generation,     \* of the drain state; 0: none yet
  stopped,        \* the generation of the last stop that was made
  checks          \* the drain's checks, queued or over

vars == <<alive, http, conns, closing, receives, leases, leasable, deferred, flushing,
          generation, stopped, checks>>
tableVars == <<conns, closing, receives, leases>>

NoCheck == [generation |-> 0, attempt |-> 0, queued |-> FALSE]

Init ==
  /\ alive = TRUE /\ http = FALSE /\ conns = {} /\ closing = {} /\ receives = {} /\ leases = {}
  /\ leasable = FALSE /\ deferred = FALSE /\ flushing = FALSE
  /\ generation = 0 /\ stopped = 0 /\ checks = [i \in 1..MaxStops |-> NoCheck]

(* prepare_server_drain, and then the start if the radio can be had.       *)
(* sharingd may put a start off while the table holds connections.         *)
start_server(radio) ==
  /\ alive /\ generation < MaxStarts /\ generation' = generation + 1
  /\ IF radio
     THEN /\ leasable' = TRUE /\ deferred' = FALSE
          /\ http' \in {TRUE} \cup (IF conns = {} THEN {} ELSE {http})
     ELSE UNCHANGED <<leasable, deferred, http>>
  /\ UNCHANGED <<alive, tableVars, flushing, stopped, checks>>

(* The bound on stops leaves one check for a stop that is put off.         *)
Unused == {i \in 1..MaxStops : checks[i] = NoCheck}

(* The original stop, drain_after_stop and drain_server.                   *)
StopNow ==
  /\ http' = FALSE /\ leasable' = FALSE /\ stopped' = generation
  /\ IF generation = 0 THEN UNCHANGED checks
     ELSE \E i \in Unused :
            checks' = [checks EXCEPT ![i] = [generation |-> generation, attempt |-> 0, queued |-> TRUE]]

stop_server ==
  /\ alive /\ Cardinality(Unused) > IF deferred /\ leases = {} THEN 1 ELSE 0
  /\ IF leases # {} THEN deferred' = TRUE /\ UNCHANGED <<http, leasable, stopped, checks>>
     ELSE StopNow /\ UNCHANGED deferred
  /\ UNCHANGED <<alive, tableVars, flushing, generation>>

flush_transfer_servers ==
  /\ flushing /\ flushing' = FALSE
  /\ IF receives = {} /\ deferred THEN deferred' = FALSE /\ StopNow
     ELSE UNCHANGED <<deferred, http, leasable, stopped, checks>>
  /\ UNCHANGED <<alive, tableVars, generation>>

(* One check.  It ends with the receiver, its generation, a restart, an    *)
(* empty table or the last attempt; else it closes everything, unless a    *)
(* receive is in progress, and comes again.                                *)
Over(c) ==
  ~alive \/ generation # c.generation \/ http \/ conns = {} \/ c.attempt >= ATTEMPTS

Again_idle(c) == ~Over(c) /\ receives = {}
Again(c) == ~Over(c)
drain_server(i) ==
  LET c == checks[i]
  IN /\ c.queued
     /\ closing' = IF ~Over(c) /\ receives = {} THEN conns ELSE closing
     /\ checks' = [checks EXCEPT ![i] = IF Again(c) THEN [c EXCEPT !.attempt = @ + 1]
                                        ELSE [c EXCEPT !.queued = FALSE]]
     /\ UNCHANGED <<alive, http, conns, receives, leases, leasable, deferred, flushing,
                    generation, stopped>>

-----------------------------------------------------------------------------
(* sharingd's side: connections come, ask to send, and end.                *)
Connects(c) ==
  /\ http /\ c \notin conns /\ conns' = conns \cup {c}
  /\ UNCHANGED <<alive, http, closing, receives, leases, leasable, deferred, flushing,
                 generation, stopped, checks>>

begin_transfer(c) ==
  /\ c \in conns \ receives /\ receives' = receives \cup {c}
  /\ leases' = IF leasable THEN leases \cup {c} ELSE leases
  /\ UNCHANGED <<alive, http, conns, closing, leasable, deferred, flushing, generation, stopped, checks>>

finish(c) ==
  /\ receives' = receives \ {c} /\ leases' = leases \ {c}
  /\ flushing' = (flushing \/ c \in receives)
  /\ UNCHANGED <<alive, http, leasable, deferred, generation, stopped, checks>>

ReceiveEnds(c) == c \in receives /\ finish(c) /\ UNCHANGED <<conns, closing>>

(* A connection that has ended, or was invalidated, leaves the table.      *)
Closes(c) == c \in conns /\ finish(c) /\ conns' = conns \ {c} /\ closing' = closing \ {c}

(* The receiver is destroyed: its own stop finds no drain state any more.  *)
Destroyed ==
  /\ alive /\ ~http /\ receives = {} /\ ~deferred /\ alive' = FALSE /\ conns' = {} /\ closing' = {}
  /\ UNCHANGED <<http, receives, leases, leasable, deferred, flushing, generation, stopped, checks>>

Next ==
  \/ \E radio \in BOOLEAN : start_server(radio)
  \/ stop_server \/ flush_transfer_servers \/ Destroyed
  \/ \E i \in 1..MaxStops : drain_server(i)
  \/ \E c \in Conns : Connects(c) \/ begin_transfer(c) \/ ReceiveEnds(c) \/ Closes(c)

Spec == Init /\ [][Next]_vars

(* The queue runs its blocks, and native close handling follows an         *)
(* invalidation; peers may leave their connections open for ever.          *)
Fairness ==
  /\ WF_vars(flush_transfer_servers)
  /\ \A i \in 1..MaxStops : WF_vars(drain_server(i))
  /\ \A c \in Conns : WF_vars(c \in closing /\ Closes(c))

-----------------------------------------------------------------------------
(* Every variable has its type.                                            *)
TypeOK ==
  /\ alive \in BOOLEAN /\ http \in BOOLEAN /\ conns \subseteq Conns /\ closing \subseteq conns
  /\ receives \subseteq Conns /\ leases \subseteq receives
  /\ leasable \in BOOLEAN /\ deferred \in BOOLEAN /\ flushing \in BOOLEAN
  /\ generation \in 0..MaxStarts /\ stopped \in 0..generation
  /\ checks \in [1..MaxStops -> [generation : 0..MaxStarts, attempt : 0..ATTEMPTS, queued : BOOLEAN]]

(* Stopped, and not started again since, with connections left.            *)
Holds == alive /\ ~http /\ conns # {} /\ generation > 0 /\ stopped = generation
GaveUp == \E i \in 1..MaxStops : checks[i].generation = generation /\ checks[i].attempt = ATTEMPTS

(* "closes connections the stopped server still holds" (docs/AIRDROP.md):  *)
(* whether the stop was made at once or after a receive, and whatever      *)
(* receives begin meanwhile, a stopped receiver's connections are closed   *)
(* in the end, or the checks have come twelve times.                       *)
HeldIsClosed == Holds ~> (~Holds \/ GaveUp)
=============================================================================

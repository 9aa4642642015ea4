------------------------------- MODULE Radio -------------------------------
(***************************************************************************)
(* The AirDrop radio: sharingd's side of a session (AQRadio.inc) and the   *)
(* root helper that runs it (AQHelper.m, AQHelperPower.inc).               *)
(*                                                                         *)
(* sharingd asks under radio_lock and waits up to eight seconds for the    *)
(* answer; a request it has given up on may be served later.  The helper   *)
(* is one thread: it serves a request, or looks after its session, with    *)
(* the power notifications drained before.  A tick is the heartbeat's      *)
(* fifteen seconds, and the three of a release end within one.  A session  *)
(* is "stale" once the hardware was reset under it.                        *)
(***************************************************************************)
EXTENDS Integers, SequencesExt

CONSTANTS
  Owners,      \* browsers, receivers and transfers
  LEASE,       \* the helper's lease, in ticks
  Raced,       \* other threads may take the lock within acquire_radio, and before a heartbeat's block
  Unowned,     \* names may be looked up and registered when nobody owns the radio
  MaxFaults    \* bound: what goes wrong

RadioAssumption == LEASE \in Nat \ {0} /\ Raced \in BOOLEAN /\ Unowned \in BOOLEAN /\ MaxFaults \in Nat

VARIABLES
  stage,          \* the owners: "out", "added" or "failed" within acquire_radio, "in"
  radio_running, heartbeat,
  beat,           \* the source's block: "no", "due", "waiting" for the lock, or "lost" between its requests
  release,        \* the block of release_radio whose generation is the latest
  session,        \* owlPID: "none", "fresh", "stale" or "exited"
  lease, powerSleeping,
  notices,        \* the power notifications not yet drained
  late,           \* requests sharingd has given up on
  power, wifi, console, faults   \* the machine

sharingd == <<stage, radio_running, heartbeat, beat, release>>
helper   == <<session, lease, powerSleeping, notices, late>>
machine  == <<power, wifi, console, faults>>
vars     == <<sharingd, helper, machine>>

Init ==
  /\ stage = [o \in Owners |-> "out"]
  /\ radio_running = FALSE /\ heartbeat = FALSE /\ beat = "no" /\ release = FALSE
  /\ session = "none" /\ lease = 0 /\ powerSleeping = FALSE /\ notices = <<>> /\ late = <<>>
  /\ power = "on" /\ wifi = TRUE /\ console = TRUE /\ faults = 0

radio_owners == {o \in Owners : stage[o] # "out"}
Fault == faults < MaxFaults /\ faults' = faults + 1
Awake == power # "asleep"

-----------------------------------------------------------------------------
(* The helper.  Draining ends a session at WillSleep and at HasPoweredOn.  *)
Ends == \E n \in ToSet(notices) : n \in {"WillSleep", "HasPoweredOn"}
Drained == IF Ends THEN "none" ELSE session
SleepingThen == IF notices = <<>> THEN powerSleeping ELSE Last(notices) # "HasPoweredOn"

requireRadioAwake_undrained(s) == ~powerSleeping /\ s = session
requireRadioAwake(s) == ~SleepingThen /\ s = Drained
drainPowerEvents == notices' = <<>> /\ powerSleeping' = SleepingThen

(* Each command, served or refused; a start may also fail on the way.      *)
Granted(s) == session' = s /\ lease' = LEASE
Refused == session' = Drained /\ lease' = lease

start(ok) ==
  /\ drainPowerEvents
  /\ IF ok
     THEN \E s \in {"none", "fresh", "stale", "exited"} :
            /\ console /\ requireRadioAwake(s)
            /\ IF s = "none" THEN wifi /\ Granted("fresh") ELSE Granted(s)
     ELSE Refused
Startable == console /\ ~SleepingThen /\ (wifi \/ Drained # "none")

beats(ok) ==
  /\ drainPowerEvents
  /\ \/ ok /\ console /\ \E s \in {"fresh", "stale", "exited"} : requireRadioAwake(s) /\ Granted(s)
     \/ ~ok /\ ~(console /\ ~SleepingThen /\ Drained # "none") /\ Refused

stop(ok) ==
  /\ drainPowerEvents
  /\ ok = console /\ lease' = lease
  /\ session' = IF ok THEN "none" ELSE Drained

Serve(command, ok) ==
  \/ command = "start" /\ start(ok)
  \/ command = "heartbeat" /\ beats(ok)
  \/ command = "stop" /\ stop(ok)

(* helper(): the answer, or none after eight seconds.  A start that the    *)
(* hardware does not allow, and a request that is late or lost, are faults.*)
Answered(command, ok) ==
  /\ Awake /\ late = <<>> /\ Serve(command, ok) /\ UNCHANGED late
  /\ IF command = "start" /\ ~ok /\ Startable THEN Fault ELSE UNCHANGED faults
Unanswered(command) ==
  /\ Awake /\ Fault
  /\ \/ Len(late) < 2 /\ late' = Append(late, command)
     \/ UNCHANGED late
  /\ UNCHANGED <<session, lease, powerSleeping, notices>>
Asked(command, ok) == Answered(command, ok) \/ (~ok /\ Unanswered(command))

serve_late ==
  /\ Awake /\ late # <<>> /\ late' = Tail(late)
  /\ \E ok \in BOOLEAN : Serve(Head(late), ok)
  /\ UNCHANGED <<sharingd, machine>>

(* Its loop, once a second: the notifications, and a session that is over. *)
IsOver == lease = 0 \/ ~console \/ Drained = "exited" \/ ~wifi
loop ==
  /\ Awake /\ (notices # <<>> \/ (session # "none" /\ IsOver))
  /\ drainPowerEvents
  /\ session' = IF IsOver THEN "none" ELSE Drained
  /\ UNCHANGED <<lease, late, sharingd, machine>>

-----------------------------------------------------------------------------
(* sharingd, each step under radio_lock.                                   *)
Unlocked == Awake /\ beat # "lost"
Free == Unlocked /\ (Raced \/ \A o \in Owners : stage[o] \in {"out", "in"})
tap0 == session \in {"fresh", "stale"}
Cancel == heartbeat' = FALSE /\ beat' = IF beat = "due" THEN "no" ELSE beat

start_radio_session == \E ok \in BOOLEAN : Asked("start", ok) /\ radio_running' = ok

ensure_radio ==
  IF radio_running \/ ~wifi
  THEN UNCHANGED <<radio_running, heartbeat, helper, faults>>
  ELSE start_radio_session /\ heartbeat' = (heartbeat \/ radio_running')

acquire_radio(o) ==
  /\ Free /\ stage[o] = "out"
  /\ stage' = [stage EXCEPT ![o] = "added"] /\ release' = FALSE
  /\ UNCHANGED <<radio_running, heartbeat, beat, helper, machine>>
acquire_ensures(o) ==
  /\ Unlocked /\ stage[o] = "added"
  /\ ensure_radio
  /\ stage' = [stage EXCEPT ![o] = IF radio_running' /\ tap0' THEN "in" ELSE "failed"]
  /\ UNCHANGED <<beat, release, power, wifi, console>>
acquire_fails(o) ==
  /\ Unlocked /\ stage[o] = "failed"
  /\ stage' = [stage EXCEPT ![o] = "out"]
  /\ UNCHANGED <<radio_running, heartbeat, beat, release, helper, machine>>

(* A name is looked up or registered.  The DNSService hooks do not ask who *)
(* does it; unless Unowned, it is an owner, or one just gone.              *)
lookup ==
  /\ Free /\ (Unowned \/ release \/ \E o \in Owners : stage[o] = "in")
  /\ ensure_radio
  /\ UNCHANGED <<stage, beat, release, power, wifi, console>>

release_radio_unscheduled(o) ==
  /\ Free /\ stage[o] = "in"
  /\ stage' = [stage EXCEPT ![o] = "out"] /\ release' = FALSE
  /\ UNCHANGED <<radio_running, heartbeat, beat, helper, machine>>
release_radio(o) ==
  /\ Free /\ stage[o] = "in"
  /\ stage' = [stage EXCEPT ![o] = "out"]
  /\ release' = (release \/ radio_owners = {o})
  /\ UNCHANGED <<radio_running, heartbeat, beat, helper, machine>>

StopSession ==
  /\ Cancel /\ radio_running' = FALSE
  /\ IF radio_running THEN \E ok \in BOOLEAN : Asked("stop", ok) ELSE UNCHANGED <<helper, faults>>

release_block ==
  /\ Free /\ release /\ release' = FALSE
  /\ IF radio_owners = {} THEN StopSession ELSE UNCHANGED <<radio_running, heartbeat, beat, helper, faults>>
  /\ UNCHANGED <<stage, power, wifi, console>>

(* The switch to the native protocol, which has released every owner.      *)
force_stop_radio ==
  /\ Free /\ radio_owners = {} /\ (heartbeat \/ radio_running)
  /\ release' = FALSE /\ StopSession
  /\ UNCHANGED <<stage, power, wifi, console>>

(* The heartbeat's block renews the lease, and starts a lost session anew  *)
(* for the owners there are; one request or two.                           *)
waits ==
  /\ Raced /\ Awake /\ beat = "due" /\ beat' = "waiting"
  /\ UNCHANGED <<stage, radio_running, heartbeat, release, helper, machine>>
Lost == radio_running /\ ~radio_running'
Beats == radio_running /\ \E ok \in BOOLEAN : Asked("heartbeat", ok) /\ radio_running' = ok
Recovers ==
  IF radio_owners # {} /\ wifi THEN start_radio_session
  ELSE UNCHANGED <<radio_running, helper, faults>>
heartbeat_handler ==
  /\ Free /\ beat \in {"due", "waiting"}
  /\ \/ Beats /\ beat' = IF Lost THEN "lost" ELSE "no"
     \/ ~radio_running /\ Recovers /\ beat' = "no"
  /\ UNCHANGED <<stage, heartbeat, release, power, wifi, console>>
heartbeat_recovers ==
  /\ Awake /\ beat = "lost" /\ beat' = "no"
  /\ Recovers
  /\ UNCHANGED <<stage, heartbeat, release, power, wifi, console>>

-----------------------------------------------------------------------------
(* Time, once what was due within the tick is done.                        *)
Tick ==
  /\ Awake /\ (session # "none" \/ heartbeat)
  /\ beat = "no" /\ ~release /\ late = <<>> /\ radio_owners = {o \in Owners : stage[o] = "in"}
  /\ notices = <<>> /\ (session = "none" \/ ~IsOver)
  /\ lease' = IF lease > 0 THEN lease - 1 ELSE 0
  /\ beat' = IF heartbeat THEN "due" ELSE "no"
  /\ UNCHANGED <<stage, radio_running, heartbeat, release, session, powerSleeping, notices, late, machine>>

(* The machine: power, Wi-Fi, the console's user, and processes that end.  *)
Told(n) == notices' = Append(notices, n)
WillSleep ==
  /\ power = "on" /\ Fault /\ power' = "sleepy" /\ Told("WillSleep")
  /\ UNCHANGED <<sharingd, session, lease, powerSleeping, late, wifi, console>>

(* The hardware is reset, with the sleep acknowledged or not, or untold.   *)
Sleeps ==
  /\ \/ power = "sleepy" /\ "WillSleep" \notin ToSet(notices) /\ UNCHANGED faults
     \/ power \in {"on", "sleepy"} /\ Fault
  /\ power' = "asleep"
  /\ session' = IF session = "fresh" THEN "stale" ELSE session
  /\ UNCHANGED <<sharingd, lease, powerSleeping, notices, late, wifi, console>>
Wakes ==
  /\ power = "asleep" /\ power' = "waking" /\ Told("WillPowerOn")
  /\ UNCHANGED <<sharingd, session, lease, powerSleeping, late, wifi, console, faults>>
PowersOn ==
  /\ power = "waking" /\ power' = "on" /\ Told("HasPoweredOn")
  /\ UNCHANGED <<sharingd, session, lease, powerSleeping, late, wifi, console, faults>>

Toggles ==
  /\ Fault
  /\ \/ wifi' = ~wifi /\ UNCHANGED console
     \/ console' = ~console /\ UNCHANGED wifi
  /\ UNCHANGED <<sharingd, helper, power>>
OwlExits ==
  /\ tap0 /\ Fault /\ session' = "exited"
  /\ UNCHANGED <<sharingd, lease, powerSleeping, notices, late, power, wifi, console>>
HelperDies ==
  /\ Awake /\ Fault
  /\ session' = "none" /\ lease' = 0 /\ powerSleeping' = FALSE /\ notices' = <<>> /\ late' = <<>>
  /\ UNCHANGED <<sharingd, power, wifi, console>>
SharingdDies ==
  /\ Awake /\ Fault
  /\ stage' = [o \in Owners |-> "out"]
  /\ radio_running' = FALSE /\ heartbeat' = FALSE /\ beat' = "no" /\ release' = FALSE
  /\ UNCHANGED <<helper, power, wifi, console>>

-----------------------------------------------------------------------------
Acquiring(o) == acquire_ensures(o) \/ acquire_fails(o)
Blocks == release_block \/ heartbeat_recovers
Machine == WillSleep \/ Sleeps \/ Wakes \/ Toggles \/ OwlExits \/ HelperDies \/ SharingdDies

Next ==
  \/ \E o \in Owners : acquire_radio(o) \/ Acquiring(o) \/ release_radio(o)
  \/ lookup \/ force_stop_radio \/ waits \/ heartbeat_handler \/ Blocks
  \/ serve_late \/ loop \/ Tick \/ PowersOn \/ Machine
Spec == Init /\ [][Next]_vars

(* Blocks, the helper's thread and time go on, and a block that waits for  *)
(* the lock gets it, and time passes, however often others take it or come *)
(* and go.  Nothing obliges an owner, or the machine beyond finishing its  *)
(* power-on.                                                               *)
Fairness ==
  /\ \A o \in Owners : WF_vars(Acquiring(o))
  /\ WF_vars(Blocks) /\ SF_vars(heartbeat_handler)
  /\ WF_vars(serve_late) /\ WF_vars(loop) /\ SF_vars(Tick) /\ WF_vars(PowersOn)
FairSpec == Spec /\ Fairness

-----------------------------------------------------------------------------
(* Every variable has its type.                                            *)
TypeOK ==
  /\ stage \in [Owners -> {"out", "added", "failed", "in"}]
  /\ radio_running \in BOOLEAN /\ heartbeat \in BOOLEAN /\ release \in BOOLEAN
  /\ beat \in {"no", "due", "waiting", "lost"}
  /\ session \in {"none", "fresh", "stale", "exited"} /\ lease \in 0..LEASE
  /\ powerSleeping \in BOOLEAN
  /\ notices \in Seq({"WillSleep", "WillPowerOn", "HasPoweredOn"})
  /\ late \in Seq({"start", "heartbeat", "stop"})
  /\ power \in {"on", "sleepy", "asleep", "waking"}
  /\ wifi \in BOOLEAN /\ console \in BOOLEAN /\ faults \in 0..MaxFaults

(* "a heartbeat must never renew the pre-sleep OWL/Bluetooth session after *)
(* the hardware has reset" (AQHelperPower.inc:2-3), whichever of the       *)
(* notifications came, came late or was missed, and however late a request *)
(* is served.                                                              *)
NoStaleRenewal == [][lease' > lease => session' # "stale"]_vars

(* "Wi-Fi is restored shortly" (AQRadio.inc:54-55) once nobody owns the    *)
(* radio, though requests, answers or processes are lost.                  *)
RadioGivenBack == radio_owners = {} ~> session = "none" \/ radio_owners # {} \/ power = "asleep"

(* "A surviving browser/server must recover after helper exit or lease     *)
(* expiry" (AQRadio.inc:28-29): an owner that stays has a session in the   *)
(* end, when nothing more goes wrong.                                      *)
Served(o) == stage[o] = "in" /\ wifi /\ console /\ power = "on"
OwnersServed == \A o \in Owners : <>[]Served(o) => <>[](session = "fresh")

(* The radio follows its owners, both ways.                                *)
RadioFollowsOwners == RadioGivenBack /\ OwnersServed
=============================================================================

----------------------------- MODULE MCStreams -----------------------------
(***************************************************************************)
(* What must happen in the end, on small instances: what a caller is told  *)
(* over one connection, what becomes of the bytes it writes, the shadows   *)
(* of connections that are over (before 10.8), and the AirDrop radio.  A   *)
(* behaviour uses one of the four, and the others rest as they begin.      *)
(***************************************************************************)
EXTENDS WriteQueue

CONSTANTS
  Alerts, MaxRead, MaxPayload, MaxRecords,
  Owners, LEASE, Raced, Unowned, MaxFaults,
  Addr, Shadows, Threads, NoAddr, NoShadow, MAXSH, ClockMod, MaxTicks, CFContexts, Debug
VARIABLES part, serverSide, breakAuth, approved, shadow, errs, cause, call, want, answer, records,
          sock, partial, pending, parked,
          stage, radio_running, heartbeat, beat, release, session, lease, powerSleeping, notices,
          late, power, wifi, console, faults,
          live, gTab, gClock, allocated, ctx, lastUse, refcount, place, op, at, held, doomed

Told == INSTANCE Session WITH state <- shadow, pc <- call, ret <- answer
Air == INSTANCE Radio
Shadowed == INSTANCE ShadowTable WITH pc <- place
ASSUME Told!SessionAssumption /\ Air!RadioAssumption

told == <<serverSide, breakAuth, approved, shadow, errs, cause, call, want, answer, records,
          sock, partial, pending, parked>>
radio == <<stage, radio_running, heartbeat, beat, release, session, lease, powerSleeping, notices,
           late, power, wifi, console, faults>>
shadows == <<live, gTab, gClock, allocated, ctx, lastUse, refcount, place, op, at, held, doomed>>

MCInit ==
  /\ part \in {"session", "writes", "radio", "shadows"}
  /\ Init /\ Told!Init /\ Air!Init /\ Shadowed!Init
  /\ part # "session" => ~serverSide /\ ~breakAuth /\ errs = Told!NoError
MCNext ==
  /\ UNCHANGED part
  /\ \/ part = "session" /\ Told!Next /\ UNCHANGED <<vars, radio, shadows>>
     \/ part = "writes" /\ Next /\ UNCHANGED <<told, radio, shadows>>
     \/ part = "radio" /\ Air!Next /\ UNCHANGED <<vars, told, shadows>>
     \/ part = "shadows" /\ Shadowed!Next /\ UNCHANGED <<vars, told, radio>>
MCSpec ==
  /\ MCInit /\ [][MCNext]_<<part, vars, told, radio, shadows>>
  /\ Fairness /\ Told!Fairness /\ Air!Fairness /\ Shadowed!Fairness

(* Each answer of SSLHandshake and SSLRead tells what ended this call,     *)
(* whatever an earlier call left on the thread's queue.                    *)
AnswersOwnOutcome == Told!AnswersOwnOutcome

(* A shadow out of the table is freed in the end, whoever holds it last.   *)
UnlinkedIsFreed == Shadowed!UnlinkedIsFreed

(* A caller that waits for its socket when SSLGetBufferedReadSize says     *)
(* zero is given everything that has arrived.                              *)
AllDelivered == Told!AllDelivered

(* "a heartbeat must never renew the pre-sleep OWL/Bluetooth session after *)
(* the hardware has reset" (AQHelperPower.inc:2-3), whichever of the       *)
(* notifications came, came late or was missed, and however late a request *)
(* is served.                                                              *)
NoStaleRenewal == [][lease' > lease => session' # "stale"]_radio

(* The radio is given back once nobody owns it, and an owner that stays    *)
(* has a session in the end, whatever was lost.                            *)
RadioFollowsOwners == Air!RadioFollowsOwners
=============================================================================

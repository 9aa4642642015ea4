--------------------------- MODULE AirDropLoading ---------------------------
(***************************************************************************)
(* Whether a process gets the AirDrop adapter, and what tf_airdrop_active  *)
(* tells the server-side TLS hooks about it (aquatransport_airdrop.c, its  *)
(* policy and hardware headers).  sharingd loads the adapter once, at its  *)
(* first call of CFNetwork's cache limit; Finder, and whoever loads        *)
(* ShareKit's AirDrop plug-in, loads it from the main queue.  Flags, the   *)
(* tap device, radios and files may change between any two checks.         *)
(***************************************************************************)
EXTENDS Naturals, Sequences

CONSTANTS
  Threads, Main,  \* the threads of the process, and the main one
  Machines,       \* the systems and processes considered
  Envs            \* bound: the states of the machine's settings

MachinesAssumption ==
  /\ Main \in Threads
  /\ Machines \subseteq [darwin : Nat, pointer_bytes : {4, 8}, executable : STRING,
                         uuid : BOOLEAN, api : BOOLEAN]

VARIABLES
  machine, env,
  phase,          \* whether tf_airdrop_install has run
  watching,       \* the add-image callback is registered
  plugin,         \* the process has loaded ShareKit's AirDrop plug-in
  rebound,        \* the cache-limit hook is in
  queued,         \* load_ui_adapter waits on the main queue
  once,           \* load_once
  job, left,      \* what each thread is doing, and the checks still to make
  loaded,         \* the adapter module is in the process
  installed, native_mode,          \* the module's own state
  modern_active, adapter_active,   \* the pointer and the flag the hooks read
  answer                           \* what tf_airdrop_active told each thread

hooks == <<phase, watching, plugin, rebound, queued>>
module == <<loaded, installed, native_mode>>
verdict == <<modern_active, adapter_active>>
vars == <<machine, env, hooks, once, job, left, module, verdict, answer>>

Init ==
  /\ machine \in Machines /\ env \in Envs /\ phase = "starting" /\ once = "no"
  /\ watching = FALSE /\ plugin = FALSE /\ rebound = FALSE /\ queued = FALSE
  /\ job = [t \in Threads |-> "none"] /\ left = [t \in Threads |-> <<>>]
  /\ loaded = FALSE /\ installed = FALSE /\ native_mode \in BOOLEAN
  /\ modern_active = FALSE /\ adapter_active = FALSE
  /\ answer = [t \in Threads |-> "none"]

-----------------------------------------------------------------------------

aq_airdrop_platform_supported ==
  /\ machine.darwin = 13 /\ machine.pointer_bytes = 8 /\ env.tap
  /\ machine.executable = "sharingd"

(* One Wi-Fi interface with a name and one controller with Low Energy:     *)
(* never a guess among several.                                            *)
hardware_supported == env.radios = 1 /\ env.controllers = 1

Passes(check) ==
  CASE check = "allowed"  -> ~env.off /\ env.tap
    [] check = "runtime"  -> env.runtime
    [] check = "native"   -> machine.uuid
    [] check = "hardware" -> hardware_supported
    [] check = "file"     -> env.file

load_ui_adapter == <<"allowed", "runtime", "hardware", "file">>
load_adapter    == <<"allowed", "runtime", "native", "hardware", "file">>

-----------------------------------------------------------------------------
Changes ==
  /\ env' \in Envs
  /\ UNCHANGED <<machine, hooks, once, job, left, module, verdict, answer>>

(* The user chooses a protocol (TransferMode).                             *)
ModeChanges ==
  /\ native_mode' = ~native_mode
  /\ UNCHANGED <<machine, env, hooks, once, job, left, loaded, installed, verdict, answer>>

tf_airdrop_install ==
  /\ phase = "starting" /\ phase' = "started"
  /\ LET ui == machine.darwin = 13 /\ machine.pointer_bytes = 8 /\ Passes("allowed")
     IN  /\ queued' = (ui /\ machine.executable = "Finder")
         /\ watching' = (ui /\ machine.executable # "Finder")
  /\ rebound' = (aq_airdrop_platform_supported /\ ~env.off)
  /\ UNCHANGED <<machine, env, plugin, once, job, left, module, verdict, answer>>

(* The process loads ShareKit's plug-in.                                   *)
air_drop_ui_image_added ==
  /\ ~plugin /\ plugin' = TRUE
  /\ queued' = (queued \/ watching)
  /\ UNCHANGED <<machine, env, phase, watching, rebound, once, job, left, module,
                 verdict, answer>>

Begin(t, name, checks) ==
  /\ job[t] = "none" /\ job' = [job EXCEPT ![t] = name]
  /\ left' = [left EXCEPT ![t] = checks]
Done(t) == job' = [job EXCEPT ![t] = "none"] /\ left' = [left EXCEPT ![t] = <<>>]

MainQueue ==
  /\ queued /\ queued' = FALSE /\ Begin(Main, "ui", load_ui_adapter)
  /\ UNCHANGED <<machine, env, phase, watching, plugin, rebound, once, module, verdict, answer>>

(* The first caller of the hook runs load_adapter; the others wait for it. *)
air_drop_cache_limit(t) ==
  /\ rebound /\ once = "no" /\ once' = "running" /\ Begin(t, "adapter", load_adapter)
  /\ UNCHANGED <<machine, env, hooks, module, verdict, answer>>

Leave(t) == Done(t) /\ once' = IF job[t] = "ui" THEN once ELSE "done"

Check(t) ==
  /\ left[t] # <<>>
  /\ IF Passes(Head(left[t]))
       THEN left' = [left EXCEPT ![t] = Tail(@)] /\ UNCHANGED <<job, once>>
       ELSE Leave(t)
  /\ UNCHANGED <<machine, env, hooks, module, verdict, answer>>

(* dlopen, which may fail; the module's constructor checks the complete    *)
(* native API before it installs anything.                                 *)
Open(t) ==
  /\ job[t] \in {"ui", "adapter"} /\ left[t] = <<>>
  /\ \/ Leave(t) /\ UNCHANGED <<loaded, installed>>
     \/ /\ loaded' = TRUE /\ installed' = (installed \/ (~loaded /\ machine.api))
        /\ IF job[t] = "ui" THEN Leave(t)
             ELSE job' = [job EXCEPT ![t] = "symbols"] /\ UNCHANGED <<left, once>>
  /\ UNCHANGED <<machine, env, hooks, native_mode, verdict, answer>>

AQAirDropModernActive_later(t) ==
  /\ job[t] = "symbols" /\ adapter_active' = installed
  /\ job' = [job EXCEPT ![t] = "verdict"]
  /\ UNCHANGED <<machine, env, hooks, once, left, module, modern_active, answer>>

AQAirDropModernActive(t) ==
  /\ job[t] = "symbols" /\ modern_active' = TRUE
  /\ job' = [job EXCEPT ![t] = "verdict"]
  /\ UNCHANGED <<machine, env, hooks, once, left, module, adapter_active, answer>>

AQAirDropInstalled(t) ==
  /\ job[t] = "verdict" /\ adapter_active' = installed /\ Leave(t)
  /\ UNCHANGED <<machine, env, hooks, module, modern_active, answer>>

(* tf_airdrop_active, in two steps: the flag, then the module by the       *)
(* pointer if there is one.                                                *)
tf_airdrop_active(t) ==
  /\ job[t] = "none"
  /\ IF adapter_active
       THEN job' = [job EXCEPT ![t] = "asking"] /\ answer' = [answer EXCEPT ![t] = "none"]
       ELSE answer' = [answer EXCEPT ![t] = "no"] /\ UNCHANGED job
  /\ UNCHANGED <<machine, env, hooks, once, left, module, verdict>>

modern_active_says(t) ==
  /\ job[t] = "asking" /\ job' = [job EXCEPT ![t] = "none"]
  /\ answer' = [answer EXCEPT ![t] =
       IF ~modern_active \/ (installed /\ ~native_mode) THEN "yes" ELSE "no"]
  /\ UNCHANGED <<machine, env, hooks, once, left, module, verdict>>

Next ==
  \/ Changes \/ ModeChanges \/ tf_airdrop_install \/ air_drop_ui_image_added \/ MainQueue
  \/ \E t \in Threads :
       \/ air_drop_cache_limit(t) \/ Check(t) \/ Open(t) \/ AQAirDropModernActive(t)
       \/ AQAirDropInstalled(t) \/ tf_airdrop_active(t) \/ modern_active_says(t)

Spec == Init /\ [][Next]_vars

-----------------------------------------------------------------------------
(* Server-side TLS opens without its flag only for the modern adapter: at  *)
(* the moment tf_airdrop_active answers yes the adapter is installed and   *)
(* in modern mode, though the pointer and the flag it reads are stored one *)
(* after the other by a thread it shares no lock with.                     *)
AnswerIsModern ==
  [][\A t \in Threads : answer[t] # "yes" /\ answer'[t] = "yes" =>
       loaded /\ installed /\ ~native_mode]_vars

(* The adapter comes into no unrelated process: on 10.9, 64-bit, it is in  *)
(* the sharingd it was written for, in Finder, or beside ShareKit's plug-in*)
(* and only the first of these reports itself active.                      *)
OnlyWhereMeant ==
  /\ loaded => /\ machine.darwin = 13 /\ machine.pointer_bytes = 8
               /\ plugin \/ machine.executable = "Finder" \/ machine.executable = "sharingd"
  /\ adapter_active => machine.executable = "sharingd" /\ machine.uuid
=============================================================================

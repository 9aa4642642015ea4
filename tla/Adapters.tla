------------------------------ MODULE Adapters ------------------------------
(***************************************************************************)
(* How the Objective-C parts are brought in late: the maps module and the  *)
(* replacement of GEODirectionsRequest's writeTo: (aquatransport_maps.c),  *)
(* and the iCloud authentication module (aquatransport_rewrite.c).  The    *)
(* engine may load neither from its constructor nor from a dyld callback,  *)
(* and does not bring Foundation into a process that has not got it.       *)
(*                                                                         *)
(* dyld holds its own lock while it calls the add-image callbacks and      *)
(* takes it in dlsym; the lock is recursive.  On a late load dyld announces*)
(* an image before the Objective-C runtime registers its classes.          *)
(***************************************************************************)
EXTENDS Naturals

CONSTANTS
  Threads, NoThread,
  Editable    \* bound: flags.txt may change while the process runs

ASSUME AdaptersAssumption == NoThread \notin Threads /\ Editable \in BOOLEAN

VARIABLES
  off,         \* "disable-maps-fixes" is set (maps), "disable-icloud-gsa" (gsa)
  files,       \* the modules whose files are there to be loaded
  loaded,      \* the modules loaded
  foundation,  \* NSURLConnection is registered
  geo,         \* GeoServices: "absent", "announced", then "registered"
  armed,       \* tf_maps_install has been run
  geo_seen, native_write,
  method,      \* whose implementation writeTo: has
  once,        \* maps_once and g_gsa_once
  dyld, hook,  \* the owners of dyld's lock and of hook_lock
  pc, image,   \* what each thread is doing, and the image it is loading
  goal,        \* the module it loads that image for, or "none"
  hooked       \* its dlopen went through maps_dlopen

settings == <<off, files>>
locks == <<dyld, hook>>
call == <<goal, hooked>>
vars == <<settings, loaded, foundation, geo, armed, geo_seen, native_write, method,
          once, locks, pc, image, call>>

Modules == {"maps", "gsa"}

Init ==
  /\ off \in [Modules -> BOOLEAN] /\ files \in SUBSET Modules /\ loaded = {}
  /\ foundation \in BOOLEAN /\ geo \in {"absent", "registered"}
  /\ geo = "registered" => foundation
  /\ armed = FALSE /\ geo_seen = FALSE /\ native_write = "null" /\ method = "native"
  /\ once = [m \in Modules |-> "no"] /\ dyld = NoThread /\ hook = NoThread
  /\ pc = [t \in Threads |-> "idle"] /\ image = [t \in Threads |-> "none"]
  /\ goal = [t \in Threads |-> "none"] /\ hooked = [t \in Threads |-> FALSE]

Goto(t, at) == pc' = [pc EXCEPT ![t] = at]
Step(t, from, to) == pc[t] = from /\ Goto(t, to)

EditFlags ==
  /\ Editable /\ \E m \in Modules : off' = [off EXCEPT ![m] = ~@]
  /\ UNCHANGED <<files, loaded, foundation, geo, armed, geo_seen, native_write,
                 method, once, locks, pc, image, call>>

-----------------------------------------------------------------------------
(* tf_maps_install, from the constructor: dlopen is rebound, and dyld calls*)
(* the new callback at once for an image already there.                    *)
tf_maps_install(t) ==
  /\ ~armed /\ ~off["maps"] /\ dyld = NoThread /\ armed' = TRUE
  /\ IF geo = "registered"
       THEN Step(t, "idle", "eta") /\ dyld' = t /\ geo_seen' = TRUE
       ELSE pc[t] = "idle" /\ UNCHANGED <<pc, dyld, geo_seen>>
  /\ UNCHANGED <<settings, loaded, foundation, geo, native_write, method, once,
                 hook, image, call>>

Dlopen(t, i) ==
  /\ Step(t, "idle", "dlopen") /\ image' = [image EXCEPT ![t] = i]
  /\ hooked' = [hooked EXCEPT ![t] = armed]

(* The application loads Foundation, GeoServices (which needs it) or       *)
(* something else.                                                         *)
Open(t, i) ==
  /\ Dlopen(t, i) /\ (i = "GeoServices" => geo = "absent")
  /\ UNCHANGED <<settings, loaded, foundation, geo, armed, geo_seen, native_write,
                 method, once, locks, goal>>

(* native_dlopen up to its add-image callbacks: maps_image notices its     *)
(* framework and tries, under dyld's lock.                                 *)
maps_image(t) ==
  /\ dyld = NoThread
  /\ IF image[t] = "GeoServices" /\ geo = "absent"
       THEN /\ geo' = "announced" /\ dyld' = t
            /\ geo_seen' = (geo_seen \/ armed)
            /\ Step(t, "dlopen", IF armed THEN "eta" ELSE "registering")
       ELSE Step(t, "dlopen", "registering") /\ dyld' = t /\ UNCHANGED <<geo, geo_seen>>
  /\ UNCHANGED <<settings, loaded, foundation, armed, native_write, method, once,
                 hook, image, call>>

(* try_eta: hook_lock, then install_eta.                                   *)
try_eta(t) ==
  /\ hook = NoThread /\ hook' = t /\ Step(t, "eta", "installing")
  /\ UNCHANGED <<settings, loaded, foundation, geo, armed, geo_seen, native_write,
                 method, once, dyld, image, call>>

(* Where try_eta returns to: the callback, or the end of maps_dlopen.      *)
Leave(t) == hook' = NoThread /\ Goto(t, IF dyld = t THEN "registering" ELSE "opened")

dlsym(t) == dyld \in {NoThread, t}

NotToInstall == native_write # "null" \/ off["maps"]

install_eta_swapped(t) ==
  /\ pc[t] = "installing"
  /\ \/ NotToInstall /\ Leave(t) /\ UNCHANGED method
     \/ ~NotToInstall /\ dlsym(t) /\ geo # "registered" /\ Leave(t) /\ UNCHANGED method
     \/ ~NotToInstall /\ dlsym(t) /\ geo = "registered"
        /\ method' = "maps_write" /\ Goto(t, "swapping") /\ UNCHANGED hook
  /\ UNCHANGED <<settings, loaded, foundation, geo, armed, geo_seen, native_write, once,
                 dyld, image, call>>

install_eta(t) ==
  /\ pc[t] = "installing"
  /\ \/ NotToInstall /\ Leave(t) /\ UNCHANGED native_write
     \/ ~NotToInstall /\ dlsym(t) /\ (geo # "registered" \/ method # "native")
        /\ Leave(t) /\ UNCHANGED native_write
     \/ ~NotToInstall /\ dlsym(t) /\ geo = "registered" /\ method = "native"
        /\ native_write' = method /\ Goto(t, "swapping") /\ UNCHANGED hook
  /\ UNCHANGED <<settings, loaded, foundation, geo, armed, geo_seen, method, once,
                 dyld, image, call>>

set_implementation(t) ==
  /\ pc[t] = "swapping" /\ method' = "maps_write" /\ Leave(t)
  /\ UNCHANGED <<settings, loaded, foundation, geo, armed, geo_seen, native_write,
                 once, dyld, image, call>>

(* The runtime registers the image's classes, and dyld lets go.  A module  *)
(* whose file is missing is not loaded.                                    *)
Registered(t) ==
  /\ Step(t, "registering", "returned") /\ dyld' = NoThread
  /\ geo' = IF geo = "announced" THEN "registered" ELSE geo
  /\ foundation' = (foundation \/ image[t] \in {"Foundation", "GeoServices"})
  /\ loaded' = IF image[t] \in files THEN loaded \cup {image[t]} ELSE loaded
  /\ UNCHANGED <<settings, armed, geo_seen, native_write, method, once, hook, image, call>>

(* maps_dlopen retries when it has an image and the framework was seen.    *)
maps_dlopen(t) ==
  /\ Step(t, "returned",
          IF hooked[t] /\ geo_seen /\ (image[t] \in Modules => image[t] \in files)
            THEN "eta" ELSE "opened")
  /\ UNCHANGED <<settings, loaded, foundation, geo, armed, geo_seen, native_write,
                 method, once, locks, image, call>>

Opened(t) ==
  /\ Step(t, "opened", IF goal[t] = "none" THEN "idle" ELSE "once ends")
  /\ image' = [image EXCEPT ![t] = "none"]
  /\ UNCHANGED <<settings, loaded, foundation, geo, armed, geo_seen, native_write,
                 method, once, locks, call>>

-----------------------------------------------------------------------------
(* A request for the maps or the authentication module: maps_class under   *)
(* its flag; prepare_gsa, whose callers ask for the flag.  Either asks for *)
(* Foundation before it spends the once token; who comes later waits or    *)
(* finds it done, and changes nothing.                                     *)

Ask(t, m) ==
  /\ ~off[m] /\ dlsym(t) /\ foundation /\ once[m] = "no"
  /\ once' = [once EXCEPT ![m] = "running"] /\ goal' = [goal EXCEPT ![t] = m]
  /\ Dlopen(t, m)
  /\ UNCHANGED <<settings, loaded, foundation, geo, armed, geo_seen, native_write,
                 method, locks>>

OnceEnds(t) ==
  /\ Step(t, "once ends", "idle") /\ once' = [once EXCEPT ![goal[t]] = "done"]
  /\ goal' = [goal EXCEPT ![t] = "none"]
  /\ UNCHANGED <<settings, loaded, foundation, geo, armed, geo_seen, native_write,
                 method, locks, image, hooked>>

Works(t) ==
  \/ maps_image(t) \/ try_eta(t) \/ install_eta(t) \/ set_implementation(t)
  \/ Registered(t) \/ maps_dlopen(t) \/ Opened(t) \/ OnceEnds(t)

Next ==
  \/ EditFlags
  \/ \E t \in Threads :
       \/ Works(t) \/ tf_maps_install(t)
       \/ \E i \in {"Foundation", "GeoServices", "other"} : Open(t, i)
       \/ \E m \in Modules : Ask(t, m)

Spec == Init /\ [][Next]_vars

(* A runnable thread runs, and gets a lock that keeps coming free.         *)
FairSpec == Spec /\ \A t \in Threads : SF_vars(Works(t))

-----------------------------------------------------------------------------
Images == {"none", "Foundation", "GeoServices", "other"} \cup Modules
Steps == {"idle", "eta", "dlopen", "registering", "installing", "swapping", "returned",
          "opened", "once ends"}

TypeOK ==
  /\ off \in [Modules -> BOOLEAN] /\ files \subseteq Modules /\ loaded \subseteq Modules
  /\ foundation \in BOOLEAN /\ armed \in BOOLEAN /\ geo_seen \in BOOLEAN
  /\ hooked \in [Threads -> BOOLEAN]
  /\ geo \in {"absent", "announced", "registered"}
  /\ native_write \in {"null", "native"} /\ method \in {"native", "maps_write"}
  /\ once \in [Modules -> {"no", "running", "done"}]
  /\ dyld \in Threads \cup {NoThread} /\ hook \in Threads \cup {NoThread}
  /\ pc \in [Threads -> Steps]
  /\ image \in [Threads -> Images] /\ goal \in [Threads -> Modules \cup {"none"}]

(* Whenever GeoServices' method runs as maps_write there is a native one   *)
(* behind it for maps_write to go on to (maps.c:60), at every step of every*)
(* thread that installs, and no thread takes maps_write for the native one.*)
WriteHasOriginal == method = "maps_write" => native_write = "native"

(* "A C-only request must not consume the once token: Foundation may arrive*)
(* later" (rewrite.c:145): neither token is spent, and neither module,     *)
(* which would bring Foundation in, is loaded before the application has it*)
FoundationFirst == \A m \in Modules : once[m] # "no" \/ m \in loaded => foundation

(* What maps.c:99 promises of a late load: a dlopen of GeoServices that     *)
(* goes through the hook ends with the ETA hook in place, unless the flag  *)
(* says otherwise.                                                         *)
RetryInstalls ==
  \A t \in Threads :
    hooked[t] /\ image[t] = "GeoServices" /\ pc[t] = "dlopen"
      ~> method = "maps_write" \/ off["maps"]
=============================================================================

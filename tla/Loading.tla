------------------------------ MODULE Loading ------------------------------
(***************************************************************************)
(* How the engine gets into a process and between its callers and the      *)
(* system: the stub Security names (aquatransport_loader.c), the engine's  *)
(* constructor, the rebinding of imports (deps/fishhook), the lazy,        *)
(* once-only resolution of the originals behind every hook                 *)
(* (aquatransport_hooks_mac.c, aquatransport_trust_mac.c,                  *)
(* aquatransport_rewrite.c), the CF class hook (aquatransport_cfhook.c),   *)
(* the engine's own set-up and its re-entrancy guard                       *)
(* (aquatransport_engine.c).                                               *)
(*                                                                         *)
(* Images load in any order, before or after the engine, and threads call  *)
(* through whatever their image's import slot holds at that moment.  One   *)
(* symbol stands for each kind of hook; what the hooks then do is the      *)
(* business of the other modules.                                          *)
(***************************************************************************)
EXTENDS Integers, Sequences, SequencesExt

CONSTANTS
  Threads,
  Clients,   \* images that import the hooked functions, besides CFNetwork
  Systems    \* the machines and processes considered

(* kHooks: SSLCreateContext has a stand-in, for it is absent before 10.8;  *)
(* the others must be there.  SSLRead stands for those called only after   *)
(* SSLHandshake.                                                           *)
Optional == {"SSLCreateContext"}
Later    == {"SSLRead"}
Ssl      == Optional \cup {"SSLHandshake"} \cup Later
Trust    == {"SecTrustSetAnchorCertificates"}
Url      == {"CFURLRequestCreateMutableCopy"}
Symbols  == Ssl \cup Trust \cup Url
Provider(s) == IF s \in Url THEN "CFNetwork" ELSE "Security"

Images == Clients \cup {"CFNetwork", "Security"}
Imports(i) == {s \in Symbols \ Later : i # "Security" /\ Provider(s) # i}

(* kDeny names the process; the entry points its system has; the SSLContext*)
(* class record it has; whether OpenSSL can be set up in it.  An image is  *)
(* no value a pointer may have.                                            *)
SystemsAssumption ==
  /\ Clients \cap {"null", "native"} = {}
  /\ Systems \subseteq [denied : BOOLEAN, has : SUBSET Symbols, boots : BOOLEAN,
                        class : {"absent", "unexpected", "readonly", "usable"}]

VARIABLES
  system,
  listed,      \* disabled.txt names the process now
  phase,       \* how far the stub and the constructor have come
  loaded,      \* the images in the process
  registered,  \* fishhook's list: symbols to rebind, now and in later images
  slot,        \* what each image's import slot for each symbol holds
  captured,    \* the value fishhook reported as replaced, by symbol
  orig,        \* the o_ and p_ pointers, by symbol
  once,        \* the pthread_once tokens
  result,      \* what the once-only initialisers left
  class,       \* SSLContext's finalize, and o_SSLContextFinalize
  guard,       \* tf_reentrant, by thread
  stack        \* the hooks each thread is inside, innermost last

process == <<system, listed, phase, loaded, registered>>
vars == <<process, slot, captured, orig, once, result, class, guard, stack>>

(* g_gate, g_origs_once, g_trust_once, g_resolve_once (g_msg_once is its   *)
(* like) and the engine's g_once, with the symbols each resolves.          *)
Resolves(k) == CASE k = "origs" -> Ssl [] k = "trust" -> Trust
                 [] k = "request" -> Url [] OTHER -> {}
Onces == {"gate", "origs", "trust", "request", "engine"}

Init ==
  /\ system \in Systems /\ listed \in BOOLEAN
  /\ phase = "outside"
  /\ loaded \in {Clients, Clients \cup {"CFNetwork"}} /\ registered = {}
  /\ slot = [i \in Images |-> [s \in Symbols |-> "lazy"]]
  /\ captured = [s \in Symbols |-> "null"] /\ orig = [s \in Symbols |-> "null"]
  /\ once = [k \in Onces |-> "no"] /\ result = [k \in Onces |-> FALSE]
  /\ class = [finalize |-> "native", saved |-> "null"]
  /\ guard = [t \in Threads |-> FALSE] /\ stack = [t \in Threads |-> <<>>]

-----------------------------------------------------------------------------
(* dyld, the administrator, and the loading thread.                        *)

(* perform_rebinding_with_section over the images in I for the symbols in  *)
(* S: the slot gets the replacement, the old value is reported unless it   *)
(* is the replacement itself.  An unbound slot's old value is its own lazy *)
(* stub, known by its image.                                               *)
Hit(I, S, s) == {i \in I : s \in S \cap Imports(i) /\ slot[i][s] # "hook"}
Reported(i, s) == IF slot[i][s] = "lazy" THEN i ELSE "native"

Rebind(I, S) ==
  /\ slot' = [i \in Images |-> [s \in Symbols |-> IF i \in Hit(I, S, s) THEN "hook" ELSE slot[i][s]]]
  /\ captured' = [s \in Symbols |->
       IF s \in Url /\ Hit(I, S, s) # {} THEN Reported(CHOOSE i \in Hit(I, S, s) : TRUE, s) ELSE captured[s]]

(* The add-image callback rebinds an image as it arrives.  Security brings *)
(* the stub with it.                                                       *)
LoadImage(i) ==
  /\ i \notin loaded /\ loaded' = loaded \cup {i}
  /\ phase' = IF i = "Security" /\ phase = "outside" THEN "stub" ELSE phase
  /\ Rebind({i}, registered)
  /\ UNCHANGED <<system, listed, registered, orig, once, result, class, guard, stack>>

(* The library may also be inserted before Security comes.                 *)
Inserted ==
  /\ phase = "outside" /\ phase' = "stub"
  /\ UNCHANGED <<system, listed, loaded, registered, slot, captured, orig,
                 once, result, class, guard, stack>>

(* Edits that nothing reads any more are left out.                         *)
EditDisabled ==
  /\ phase \in {"outside", "stub", "engine"} \/ (phase = "installed" /\ once["gate"] # "done")
  /\ listed' = ~listed
  /\ UNCHANGED <<system, phase, loaded, registered, slot, captured, orig,
                 once, result, class, guard, stack>>

aquatransport_loader_init ==
  /\ phase = "stub"
  /\ IF listed THEN phase' = "excluded" ELSE phase' \in {"engine", "no engine"}
  /\ UNCHANGED <<system, listed, loaded, registered, slot, captured, orig,
                 once, result, class, guard, stack>>

process_eligible_ignores_deny == ~listed

process_eligible == ~system.denied /\ ~listed

(* aquatransport_init and its three installers (AirDrop's is Adapters').   *)
Installing == [engine |-> [hooks |-> Ssl, next |-> "ssl"],
               ssl    |-> [hooks |-> Url, next |-> "rewrite"],
               rewrite |-> [hooks |-> Trust, next |-> "installed"]]

aquatransport_init ==
  /\ phase \in DOMAIN Installing
  /\ IF phase = "engine" /\ ~process_eligible
       THEN phase' = "excluded" /\ UNCHANGED <<registered, slot, captured>>
       ELSE /\ phase' = Installing[phase].next
            /\ registered' = registered \cup Installing[phase].hooks
            /\ Rebind(loaded, registered')
  /\ UNCHANGED <<system, listed, loaded, orig, once, result, class, guard, stack>>

-----------------------------------------------------------------------------
(* A thread calls s from image i.  It does so from the outside, or from    *)
(* inside Security's trust evaluation, which may open a connection to ask  *)
(* about revocation.                                                       *)
Top(t) == Last(stack[t])
Inside(t, at) == stack[t] # <<>> /\ Top(t).at = at /\ ~Top(t).initialising
Goto(t, at) ==
  stack' = [stack EXCEPT ![t] = Append(Front(@),
              [sym |-> Top(t).sym, at |-> at, initialising |-> FALSE])]
Return(t) == stack' = [stack EXCEPT ![t] = Front(@)]

(* What a hook asks for first.                                             *)
EntryOf_create_unresolved(s) ==
  CASE s = "SSLHandshake" -> "gate" [] s \in Optional -> "decide"
    [] s \in Trust -> "trust" [] s \in Url -> "request"

EntryOf(s) == CASE s = "SSLHandshake" -> "gate" [] s \in Optional -> "origs"
                [] s \in Trust -> "trust" [] s \in Url -> "request"

Call(t, i, s) ==
  /\ stack[t] = <<>> \/ (Inside(t, "evaluating") /\ Len(stack[t]) = 1)
  /\ {i, Provider(s)} \subseteq loaded /\ s \in system.has \cap Imports(i)
  /\ \/ /\ slot[i][s] # "hook" /\ slot' = [slot EXCEPT ![i][s] = "native"]
        /\ UNCHANGED stack
     \/ /\ slot[i][s] = "hook" /\ UNCHANGED slot
        /\ stack' = [stack EXCEPT ![t] =
             Append(@, [sym |-> s, at |-> EntryOf(s), initialising |-> FALSE])]
  /\ UNCHANGED <<process, captured, orig, once, result, class, guard>>

(* pthread_once: the first to come runs the initialiser, the others wait   *)
(* for its end.                                                            *)
After(k) == CASE k = "gate" -> "origs" [] k = "engine" -> "serve" [] OTHER -> "decide"
Initialising(t, k) == stack[t] # <<>> /\ Top(t).at = k /\ Top(t).initialising

OnceBegins(t, k) ==
  /\ Inside(t, k) /\ once[k] = "no"
  /\ once' = [once EXCEPT ![k] = "running"]
  /\ stack' = [stack EXCEPT ![t][Len(stack[t])].initialising = TRUE]
  /\ UNCHANGED <<process, slot, captured, orig, result, class, guard>>

OnceIsDone(t, k) ==
  /\ Inside(t, k) /\ once[k] = "done" /\ Goto(t, After(k))
  /\ UNCHANGED <<process, slot, captured, orig, once, result, class, guard>>

OnceEnds(t, k, answer) ==
  /\ once' = [once EXCEPT ![k] = "done"] /\ result' = [result EXCEPT ![k] = answer]
  /\ Goto(t, After(k))

gate_init(t) ==
  /\ Initialising(t, "gate") /\ OnceEnds(t, "gate", process_eligible)
  /\ UNCHANGED <<process, slot, captured, orig, class, guard>>

(* Only through a provider that is loaded.                                 *)
fishhook_resolve(s) ==
  IF s \in system.has /\ Provider(s) \in loaded THEN "native" ELSE "null"

(* resolve_origs, resolve_trust_origs, resolve_once: one pointer at a      *)
(* time.  A row of kHooks that cannot be resolved gets a stand-in.         *)
Resolve(t, k) ==
  /\ Initialising(t, k)
  /\ \E s \in Resolves(k) :
       /\ orig[s] = "null" /\ (s \in Ssl \/ fishhook_resolve(s) # "null")
       /\ orig' = [orig EXCEPT ![s] =
            IF fishhook_resolve(s) = "native" THEN "native" ELSE "stand-in"]
  /\ UNCHANGED <<process, slot, captured, once, result, class, guard, stack>>

Filled(k) == \A s \in Resolves(k) :
               orig[s] # "null" \/ (s \notin Ssl /\ fishhook_resolve(s) = "null")
Whole(k) == \A s \in Resolves(k) \ Optional : orig[s] = "native"

(* rebind_cf_finalizers, once the rows are filled: the original is saved   *)
(* before the class is changed, for a context may be dying elsewhere.      *)
FinalizerUsable == "Security" \in loaded /\ system.class = "usable"

SaveFinalizer(t) ==
  /\ Initialising(t, "origs") /\ Filled("origs") /\ FinalizerUsable
  /\ class.finalize # "hook" /\ class.saved # class.finalize
  /\ class' = [class EXCEPT !.saved = class.finalize]
  /\ UNCHANGED <<process, slot, captured, orig, once, result, guard, stack>>

HookFinalizer(t) ==
  /\ Initialising(t, "origs") /\ class.saved = "native" /\ class.finalize # "hook"
  /\ class' = [class EXCEPT !.finalize = "hook"]
  /\ UNCHANGED <<process, slot, captured, orig, once, result, guard, stack>>

ResolveEnds_waits_for_class(t, k) ==
  /\ Resolves(k) # {} /\ Initialising(t, k) /\ Filled(k)
  /\ k = "origs" => class.finalize = "hook"
  /\ OnceEnds(t, k, Whole(k))
  /\ UNCHANGED <<process, slot, captured, orig, class, guard>>

ResolveEnds(t, k) ==
  /\ Resolves(k) # {} /\ Initialising(t, k) /\ Filled(k)
  /\ k = "origs" => (FinalizerUsable => class.finalize = "hook")
  /\ OnceEnds(t, k, Whole(k))
  /\ UNCHANGED <<process, slot, captured, orig, class, guard>>

(* do_ready: OpenSSL, the shared context and the BIO method.               *)
do_ready(t) ==
  /\ Initialising(t, "engine") /\ OnceEnds(t, "engine", system.boots)
  /\ UNCHANGED <<process, slot, captured, orig, class, guard>>

-----------------------------------------------------------------------------
(* tf_on, and what the other hooks ask before they go on.  The context     *)
(* hooks do not look at what origs_ready answers, and the request hooks go *)
(* on either way; the trust hook gives up.                                 *)
tf_reentrant(t) == guard[t]
tf_on_reentered(t) == result["origs"] /\ result["gate"]

tf_on(t) == result["origs"] /\ result["gate"] /\ ~tf_reentrant(t)

Decide(t) ==
  /\ Inside(t, "decide")
  /\ \/ Top(t).sym = "SSLHandshake" /\ tf_on(t) /\ Goto(t, "engine")
     \/ Top(t).sym = "SSLHandshake" /\ ~tf_on(t) /\ Goto(t, "original")
     \/ Top(t).sym \in Optional \cup Url /\ Goto(t, "original")
     \/ Top(t).sym \in Trust /\ result["trust"] /\ Goto(t, "original")
     \/ Top(t).sym \in Trust /\ ~result["trust"] /\ Return(t)
  /\ UNCHANGED <<process, slot, captured, orig, once, result, class, guard>>

(* What is called as the original: the captured pointer only where there   *)
(* is no other.  A captured lazy stub, when called, binds its image's slot *)
(* to the system's function, over whatever is there.                       *)
Target_captured(s) == IF s \in Url /\ captured[s] # "null" THEN captured[s] ELSE orig[s]

Target(s) == IF s \in Url /\ orig[s] = "null" THEN captured[s] ELSE orig[s]

CallOriginal(t) ==
  /\ Inside(t, "original") /\ Return(t)
  /\ slot' = IF Target(Top(t).sym) \in Images
               THEN [slot EXCEPT ![Target(Top(t).sym)][Top(t).sym] = "native"] ELSE slot
  /\ UNCHANGED <<process, captured, orig, once, result, class, guard>>

(* The engine's handshake; verify_chain runs Security's evaluation under   *)
(* the guard, unless the answer is cached or the application's to give.    *)
tf_guard_enter(t) == guard' = [guard EXCEPT ![t] = TRUE]
tf_guard_leave(t) == guard' = [guard EXCEPT ![t] = FALSE]

Serve(t) ==
  /\ Inside(t, "serve")
  /\ \/ ~result["engine"] /\ Goto(t, "original") /\ UNCHANGED guard
     \/ result["engine"] /\ Return(t) /\ UNCHANGED guard
     \/ result["engine"] /\ Goto(t, "evaluating") /\ tf_guard_enter(t)
  /\ UNCHANGED <<process, slot, captured, orig, once, result, class>>

Evaluated(t) ==
  /\ Inside(t, "evaluating") /\ tf_guard_leave(t) /\ Return(t)
  /\ UNCHANGED <<process, slot, captured, orig, once, result, class>>

Works(t) ==
  \/ \E k \in Onces : OnceBegins(t, k) \/ OnceIsDone(t, k) \/ Resolve(t, k) \/ ResolveEnds(t, k)
  \/ gate_init(t) \/ SaveFinalizer(t) \/ HookFinalizer(t) \/ do_ready(t)
  \/ Decide(t) \/ CallOriginal(t) \/ Serve(t) \/ Evaluated(t)

Next ==
  \/ \E i \in Images : LoadImage(i)
  \/ Inserted \/ EditDisabled \/ aquatransport_loader_init \/ aquatransport_init
  \/ \E t \in Threads : Works(t)
  \/ \E t \in Threads, i \in Images, s \in Symbols : Call(t, i, s)

Spec == Init /\ [][Next]_vars

(* A thread inside a hook is runnable, and an evaluation asks only so many *)
(* times about revocation before it ends.                                  *)
Fairness == \A t \in Threads : WF_vars(Works(t)) /\ SF_vars(Evaluated(t))
FairSpec == Spec /\ Fairness

-----------------------------------------------------------------------------
Frames == [sym : Symbols, at : Onces \cup {"decide", "original", "serve", "evaluating"},
           initialising : BOOLEAN]

TypeOK ==
  /\ system \in Systems /\ listed \in BOOLEAN
  /\ phase \in {"outside", "stub", "excluded", "no engine", "installed"} \cup DOMAIN Installing
  /\ loaded \subseteq Images /\ registered \subseteq Symbols
  /\ slot \in [Images -> [Symbols -> {"lazy", "native", "hook"}]]
  /\ captured \in [Symbols -> {"null", "native"} \cup Images]
  /\ orig \in [Symbols -> {"null", "native", "stand-in"}]
  /\ once \in [Onces -> {"no", "running", "done"}] /\ result \in [Onces -> BOOLEAN]
  /\ class \in [finalize : {"native", "hook"}, saved : {"null", "native", "hook"}]
  /\ guard \in [Threads -> BOOLEAN] /\ stack \in [Threads -> Seq(Frames)]

(* The engine serves no trust daemon, where its verification would call    *)
(* itself through another process, and no process whose Security lacks a   *)
(* required entry point: origs_ready keeps it off as a whole, whichever    *)
(* thread resolved, in whatever order the images came.                     *)
EngineWhereWanted ==
  \A t \in Threads : Inside(t, "serve") \/ Inside(t, "evaluating") =>
    ~system.denied /\ Ssl \ Optional \subseteq system.has

(* Whatever hook is entered first, on whichever thread, calls the system's *)
(* own function: no empty pointer, no stand-in, no captured stub, and the  *)
(* destructor always has its original to go on to.                         *)
OriginalIsReal ==
  /\ \A t \in Threads : Inside(t, "original") => Target(Top(t).sym) = "native"
  /\ class.finalize = "hook" => class.saved = "native"

(* A slot once rebound stays so: nothing the hooks call binds it back.     *)
(* The comment at rewrite.c:320 tells of the request that would be the     *)
(* last one rewritten.                                                     *)
HooksStay ==
  [][\A i \in Images, s \in Symbols : slot[i][s] = "hook" => slot'[i][s] = "hook"]_vars

(* The guard is up exactly while the thread is in Security's evaluation,   *)
(* and no evaluation runs inside another: what Security opens from there   *)
(* goes over the system's stack.                                           *)
GuardExact ==
  \A t \in Threads :
    LET inside == {k \in 1..Len(stack[t]) : stack[t][k].at = "evaluating"}
    IN  guard[t] = (inside # {}) /\ inside \subseteq {1}

(* Every hooked call comes back: no thread waits for ever on a pthread_once*)
(* whose initialiser does not end.                                         *)
CallsReturn == \A t \in Threads : stack[t] # <<>> ~> stack[t] = <<>>
=============================================================================

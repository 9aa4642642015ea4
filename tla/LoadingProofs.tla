--------------------------- MODULE LoadingProofs ---------------------------
(***************************************************************************)
(* Loading for any number of threads.  Adapters: that maps_write always    *)
(* has a native method behind it, and that no module is asked for without  *)
(* Foundation.  Loading: that the engine serves where it is wanted, that   *)
(* every original is the system's, that the guard is up exactly in an      *)
(* evaluation, and that hooks stay.                                        *)
(***************************************************************************)
EXTENDS MCLoading, TLAPS

(* hook_lock covers install_eta to its end, so only its owner is between   *)
(* reading the method and replacing it, and what it read is native.        *)
HookHeld == \A t \in Threads : pc[t] \in {"installing", "swapping"} => hook = t
SwapReady ==
  \A t \in Threads : pc[t] = "swapping" => native_write = "native" /\ method = "native"

(* A thread that loads a module, or is to end its token, found Foundation. *)
AskedFirst == \A t \in Threads : image[t] \in Modules \/ goal[t] \in Modules => foundation

IInv == TypeOK /\ HookHeld /\ SwapReady /\ WriteHasOriginal

LEMMA StepTypes ==
  ASSUME TypeOK, [Next]_vars
  PROVE  TypeOK'
<1> USE DEF TypeOK, Modules, Images, Steps, Step, Goto, settings, locks, call, vars
<1>1. ASSUME EditFlags PROVE TypeOK'
  <2>1. PICK m \in Modules : off' = [off EXCEPT ![m] = ~@]
    BY <1>1 DEF EditFlags
  <2>2. (~off[m]) \in BOOLEAN
    OBVIOUS
  <2>3. off' \in [Modules -> BOOLEAN]
    BY <2>1, <2>2
  <2> QED BY <1>1, <2>3 DEF EditFlags
<1>2. ASSUME NEW t \in Threads, tf_maps_install(t) PROVE TypeOK'
  BY <1>2 DEF tf_maps_install
<1>3. ASSUME NEW t \in Threads, NEW i \in {"Foundation", "GeoServices", "other"}, Open(t, i)
      PROVE  TypeOK'
  BY <1>3 DEF Open, Dlopen
<1>4. ASSUME NEW t \in Threads, NEW m \in Modules, Ask(t, m) PROVE TypeOK'
  BY <1>4 DEF Ask, Dlopen
<1>5. ASSUME NEW t \in Threads, maps_image(t) PROVE TypeOK'
  BY <1>5 DEF maps_image
<1>6. ASSUME NEW t \in Threads, try_eta(t) PROVE TypeOK'
  BY <1>6 DEF try_eta
<1>7. ASSUME NEW t \in Threads, install_eta(t) PROVE TypeOK'
  BY <1>7 DEF install_eta, Leave, NotToInstall
<1>8. ASSUME NEW t \in Threads, set_implementation(t) PROVE TypeOK'
  BY <1>8 DEF set_implementation, Leave
<1>9. ASSUME NEW t \in Threads, Registered(t) PROVE TypeOK'
  BY <1>9 DEF Registered
<1>10. ASSUME NEW t \in Threads, maps_dlopen(t) PROVE TypeOK'
  BY <1>10 DEF maps_dlopen
<1>11. ASSUME NEW t \in Threads, Opened(t) PROVE TypeOK'
  BY <1>11 DEF Opened
<1>12. ASSUME NEW t \in Threads, OnceEnds(t) PROVE TypeOK'
  BY <1>12 DEF OnceEnds
<1>13. ASSUME UNCHANGED vars PROVE TypeOK'
  BY <1>13
<1> QED
  BY <1>1, <1>2, <1>3, <1>4, <1>5, <1>6, <1>7, <1>8, <1>9, <1>10, <1>11, <1>12, <1>13 DEF Next, Works

(* Every step of every action keeps who is between the reading and the     *)
(* replacement alone there.                                                *)
LEMMA StepHooks ==
  ASSUME IInv, [Next]_vars
  PROVE  HookHeld' /\ SwapReady' /\ WriteHasOriginal'
<1> USE AdaptersAssumption DEF IInv, HookHeld, SwapReady, WriteHasOriginal
<1> USE DEF TypeOK, Step, Goto, settings, locks, call, vars
<1> DEFINE Kept == HookHeld' /\ SwapReady' /\ WriteHasOriginal'
<1>1. ASSUME EditFlags PROVE Kept
  BY <1>1 DEF EditFlags
<1>2. ASSUME NEW t \in Threads, tf_maps_install(t) PROVE Kept
  BY <1>2 DEF tf_maps_install
<1>3. ASSUME NEW t \in Threads, NEW i \in {"Foundation", "GeoServices", "other"}, Open(t, i)
      PROVE  Kept
  BY <1>3 DEF Open, Dlopen
<1>4. ASSUME NEW t \in Threads, NEW m \in Modules, Ask(t, m) PROVE Kept
  BY <1>4 DEF Ask, Dlopen
<1>5. ASSUME NEW t \in Threads, maps_image(t) PROVE Kept
  BY <1>5 DEF maps_image
<1>6. ASSUME NEW t \in Threads, try_eta(t) PROVE Kept
  BY <1>6 DEF try_eta
<1>7. ASSUME NEW t \in Threads, install_eta(t) PROVE Kept
  BY <1>7 DEF install_eta, Leave, NotToInstall
<1>8. ASSUME NEW t \in Threads, set_implementation(t) PROVE Kept
  BY <1>8 DEF set_implementation, Leave
<1>9. ASSUME NEW t \in Threads, Registered(t) PROVE Kept
  BY <1>9 DEF Registered
<1>10. ASSUME NEW t \in Threads, maps_dlopen(t) PROVE Kept
  BY <1>10 DEF maps_dlopen
<1>11. ASSUME NEW t \in Threads, Opened(t) PROVE Kept
  BY <1>11 DEF Opened
<1>12. ASSUME NEW t \in Threads, OnceEnds(t) PROVE Kept
  BY <1>12 DEF OnceEnds
<1>13. ASSUME UNCHANGED vars PROVE Kept
  BY <1>13
<1> QED
  BY <1>1, <1>2, <1>3, <1>4, <1>5, <1>6, <1>7, <1>8, <1>9, <1>10, <1>11, <1>12, <1>13 DEF Next, Works

LEMMA Invariance == Spec => []IInv
<1>1. Init => IInv
  <2> SUFFICES ASSUME Init PROVE IInv
    OBVIOUS
  <2>1. TypeOK
    <3>1. files \subseteq Modules /\ loaded \subseteq Modules
      BY DEF Init
    <3> QED BY <3>1 DEF Init, TypeOK, Images, Steps
  <2>2. HookHeld /\ SwapReady /\ WriteHasOriginal
    BY DEF Init, HookHeld, SwapReady, WriteHasOriginal
  <2> QED BY <2>1, <2>2 DEF IInv
<1>2. IInv /\ [Next]_vars => IInv'
  BY StepTypes, StepHooks DEF IInv
<1> QED BY <1>1, <1>2, PTL DEF Spec

(* Every variable keeps its type.                                          *)
THEOREM TypeCorrect == Spec => []TypeOK
<1>1. IInv => TypeOK
  BY DEF IInv
<1> QED BY <1>1, Invariance, PTL

(* At every step of every number of threads that install, retry and load,  *)
(* maps_write (maps.c:60) has the native method to go on to.               *)
THEOREM OriginalBehind == Spec => []WriteHasOriginal
<1>1. IInv => WriteHasOriginal
  BY DEF IInv
<1> QED BY <1>1, Invariance, PTL

(* The request for Foundation comes before the once token and before the   *)
(* module: neither is spent, or loaded, in a process that has no           *)
(* Foundation (rewrite.c:145).                                             *)
THEOREM AsksFirst == Spec => []FoundationFirst
<1> DEFINE Inv == AskedFirst /\ FoundationFirst
<1>1. Init => Inv
  BY DEF Init, AskedFirst, FoundationFirst, Modules
<1>2. TypeOK /\ Inv /\ [Next]_vars => Inv'
  <2> SUFFICES ASSUME TypeOK, Inv, [Next]_vars PROVE Inv'
    OBVIOUS
  <2> USE DEF TypeOK, AskedFirst, FoundationFirst, Modules, Step, Goto, settings, locks, call, vars
  <2>1. ASSUME NEW t \in Threads, NEW i \in {"Foundation", "GeoServices", "other"}, Open(t, i)
        PROVE  Inv'
    BY <2>1 DEF Open, Dlopen
  <2>2. ASSUME NEW t \in Threads, NEW m \in Modules, Ask(t, m) PROVE Inv'
    BY <2>2 DEF Ask, Dlopen
  <2>3. ASSUME NEW t \in Threads, Registered(t) PROVE Inv'
    BY <2>3 DEF Registered
  <2>4. ASSUME NEW t \in Threads, Opened(t) PROVE Inv'
    BY <2>4 DEF Opened
  <2>5. ASSUME NEW t \in Threads, OnceEnds(t) PROVE Inv'
    <3>1. foundation' = foundation /\ loaded' = loaded /\ image' = image
      BY <2>5 DEF OnceEnds
    <3>2. \A m \in Modules : once'[m] # "no" => once[m] # "no" \/ goal[t] = m
      BY <2>5 DEF OnceEnds
    <3>3. \A u \in Threads : goal'[u] \in Modules => goal[u] \in Modules
      BY <2>5 DEF OnceEnds
    <3> QED BY <3>1, <3>2, <3>3
  <2>6. CASE UNCHANGED <<loaded, foundation, once, image, goal>>
    BY <2>6
  <2> QED
    BY <2>1, <2>2, <2>3, <2>4, <2>5, <2>6 DEF Next, Works, EditFlags, tf_maps_install, maps_image,
      try_eta, install_eta, set_implementation, maps_dlopen
<1> QED BY <1>1, <1>2, TypeCorrect, PTL DEF Spec

-----------------------------------------------------------------------------
(* The library.  What a hook's frame stands on: its symbol is one the      *)
(* system has, in an image that is loaded; it is where that symbol's hook  *)
(* goes; past its once token the original is the system's; and the engine  *)
(* serves only where it is wanted.                                         *)
Wanted(sys) == ~sys.denied /\ Library!Ssl \ Library!Optional \subseteq sys.has
Served == {"engine", "serve", "evaluating"}
Settled == Served \cup {"decide", "original"}

Stands(f, sys, there, og) ==
  /\ f.sym \in sys.has /\ f.sym \notin Library!Later /\ Library!Provider(f.sym) \in there
  /\ f.at \in {"gate"} \cup Served => f.sym = "SSLHandshake"
  /\ f.at \in {"origs", "trust", "request"} => f.sym \in Library!Resolves(f.at)
  /\ f.at \in Settled => og[f.sym] = "native"
  /\ f.at \in Served => Wanted(sys)

AllFramed == \A t \in Threads : \A k \in 1..Len(stack[t]) : Stands(stack[t][k], system, images, orig)

(* The pointers say what the system has, and a token that is spent has     *)
(* left the originals and the answers behind it.                           *)
OrigFits ==
  \A s \in Library!Symbols :
    /\ orig[s] = "native" => s \in system.has
    /\ orig[s] = "stand-in" => s \notin system.has
TokensFit ==
  /\ \A k \in Library!Onces : tokens[k] = "done" =>
       \A s \in Library!Resolves(k) \cap system.has : orig[s] = "native"
  /\ result["gate"] => ~system.denied
  /\ result["origs"] => Library!Ssl \ Library!Optional \subseteq system.has
FinalizerFits == class.finalize = "hook" => class.saved = "native"

(* A second hook on a thread is entered from the first one's evaluation,   *)
(* and not served; the guard is up as long as the first one evaluates.     *)
Shape(q, up) ==
  /\ Len(q) \in 0..2
  /\ Len(q) = 2 => q[1].at = "evaluating" /\ q[2].at \notin Served
  /\ up <=> Len(q) > 0 /\ q[1].at = "evaluating"
Shaped == \A t \in Threads : Shape(stack[t], guard[t])

LibraryInv == Library!TypeOK /\ AllFramed /\ OrigFits /\ TokensFit /\ FinalizerFits /\ Shaped

-----------------------------------------------------------------------------
(* The stack of a thread, as its hooks change it.                          *)
LEMMA Stacks ==
  ASSUME NEW q \in Seq(Library!Frames), NEW f \in Library!Frames
  PROVE  /\ Append(q, f) \in Seq(Library!Frames) /\ Len(Append(q, f)) = Len(q) + 1
         /\ \A k \in 1..Len(Append(q, f)) : Append(q, f)[k] = IF k = Len(q) + 1 THEN f ELSE q[k]
         /\ q # <<>> => /\ Library!Last(q) = q[Len(q)] /\ Library!Last(q) \in Library!Frames
                        /\ Library!Front(q) \in Seq(Library!Frames) /\ Len(Library!Front(q)) = Len(q) - 1
                        /\ \A k \in 1..Len(q) - 1 : Library!Front(q)[k] = q[k]
                        /\ Len(q) \in Nat \ {0}
<1>1. q # <<>> => Len(q) \in Nat \ {0} /\ q[Len(q)] \in Library!Frames
  OBVIOUS
<1>2. q # <<>> => Library!Front(q) = SubSeq(q, 1, Len(q) - 1)
  BY DEF Library!Front
<1> QED BY <1>1, <1>2 DEF Library!Last

(* What a step may do to the stacks: nothing; or on one thread a new frame *)
(* in the place of the top one, or above it, or the top one taken off.     *)
Pushes(t, f) == stack' = [stack EXCEPT ![t] = Append(stack[t], f)]
Turns(t, f) ==
  /\ stack[t] # <<>>
  /\ \E q \in Seq(Library!Frames) :
       /\ stack' = [stack EXCEPT ![t] = q] /\ Len(q) = Len(stack[t]) /\ q[Len(q)] = f
       /\ \A k \in 1..Len(q) - 1 : q[k] = stack[t][k]

LEMMA Turning ==
  ASSUME Library!TypeOK, NEW t \in Threads, stack[t] # <<>>
  PROVE  /\ Library!Top(t) \in Library!Frames /\ Library!Top(t) = stack[t][Len(stack[t])]
         /\ Len(stack[t]) \in Nat \ {0}
         /\ \A at \in Settled \cup Library!Onces :
              LET f == [sym |-> Library!Top(t).sym, at |-> at, initialising |-> FALSE]
              IN  f \in Library!Frames /\ (Library!Goto(t, at) => Turns(t, f))
         /\ LET f == [sym |-> Library!Top(t).sym, at |-> Library!Top(t).at, initialising |-> TRUE]
            IN  /\ f \in Library!Frames
                /\ stack' = [stack EXCEPT ![t][Len(stack[t])].initialising = TRUE] => Turns(t, f)
<1>1. stack[t] \in Seq(Library!Frames) /\ stack \in [Threads -> Seq(Library!Frames)]
  BY DEF Library!TypeOK
<1>2. Library!Top(t) \in Library!Frames /\ Library!Top(t) = stack[t][Len(stack[t])]
      /\ Len(stack[t]) \in Nat \ {0}
  BY <1>1, Stacks DEF Library!Top
<1>3. ASSUME NEW at \in Settled \cup Library!Onces, NEW f, Library!Goto(t, at),
             f = [sym |-> Library!Top(t).sym, at |-> at, initialising |-> FALSE], f \in Library!Frames
      PROVE  Turns(t, f)
  <2> DEFINE q == Append(Library!Front(stack[t]), f)
  <2>1. stack' = [stack EXCEPT ![t] = q]
    BY <1>1, <1>3 DEF Library!Goto
  <2>2. q \in Seq(Library!Frames) /\ Len(q) = Len(stack[t]) /\ q[Len(q)] = f
        /\ \A k \in 1..Len(q) - 1 : q[k] = stack[t][k]
    <3>1. Library!Front(stack[t]) \in Seq(Library!Frames) /\ Len(Library!Front(stack[t])) = Len(stack[t]) - 1
          /\ \A k \in 1..Len(stack[t]) - 1 : Library!Front(stack[t])[k] = stack[t][k]
      BY <1>1, Stacks
    <3> QED BY <1>2, <1>3, <3>1
  <2> QED BY <2>1, <2>2 DEF Turns
<1>4. ASSUME NEW f, stack' = [stack EXCEPT ![t][Len(stack[t])].initialising = TRUE],
             f = [sym |-> Library!Top(t).sym, at |-> Library!Top(t).at, initialising |-> TRUE],
             f \in Library!Frames
      PROVE  Turns(t, f)
  <2> DEFINE n == Len(stack[t])
             q == [stack[t] EXCEPT ![n] = f]
  <2>1. [stack[t][n] EXCEPT !.initialising = TRUE] = f
    <3>1. \A r \in Library!Frames :
            [r EXCEPT !.initialising = TRUE] = [sym |-> r.sym, at |-> r.at, initialising |-> TRUE]
      <4> SUFFICES ASSUME NEW r \in Library!Frames, NEW g, g = [r EXCEPT !.initialising = TRUE]
                   PROVE  g = [sym |-> r.sym, at |-> r.at, initialising |-> TRUE]
        OBVIOUS
      <4>1. g \in Library!Frames /\ g.sym = r.sym /\ g.at = r.at /\ g.initialising = TRUE
        BY DEF Library!Frames
      <4> QED BY <4>1 DEF Library!Frames
    <3> QED BY <1>2, <1>4, <3>1
  <2>2. stack' = [stack EXCEPT ![t] = [stack[t] EXCEPT ![n] = [stack[t][n] EXCEPT !.initialising = TRUE]]]
    BY <1>4, Zenon
  <2>3. stack' = [stack EXCEPT ![t] = q]
    BY <2>1, <2>2
  <2>4. q \in Seq(Library!Frames) /\ Len(q) = Len(stack[t]) /\ q[Len(q)] = f
        /\ \A k \in 1..Len(q) - 1 : q[k] = stack[t][k]
    <3>1. DOMAIN q = 1..n /\ n \in Nat /\ \A k \in 1..n : q[k] = IF k = n THEN f ELSE stack[t][k]
      BY <1>1, <1>2
    <3>2. \A k \in 1..n : q[k] \in Library!Frames
      BY <1>1, <1>4, <3>1
    <3>3. q \in [1..n -> Library!Frames]
      BY <3>1, <3>2
    <3>4. q \in Seq(Library!Frames) /\ Len(q) = n
      BY <1>2, <3>3
    <3> QED BY <1>2, <3>1, <3>4
  <2> QED BY <2>3, <2>4 DEF Turns
<1>5. \A at \in Settled \cup Library!Onces :
        [sym |-> Library!Top(t).sym, at |-> at, initialising |-> FALSE] \in Library!Frames
  BY <1>2 DEF Library!Frames, Library!Onces, Settled, Served
<1>6. [sym |-> Library!Top(t).sym, at |-> Library!Top(t).at, initialising |-> TRUE] \in Library!Frames
  BY <1>2 DEF Library!Frames
<1> QED BY <1>2, <1>3, <1>4, <1>5, <1>6

LEMMA FramesKept ==
  ASSUME LibraryInv, system' = system, images \subseteq images',
         \A s \in Library!Symbols : orig[s] = "native" => orig'[s] = "native"
  PROVE  /\ \A f \in Library!Frames : Stands(f, system, images, orig) => Stands(f, system', images', orig')
         /\ UNCHANGED stack => AllFramed'
         /\ \A t \in Threads : stack[t] # <<>> /\ Library!Return(t)
              => AllFramed' /\ stack' \in [Threads -> Seq(Library!Frames)]
         /\ \A t \in Threads, f \in Library!Frames :
              Stands(f, system', images', orig') /\ (Pushes(t, f) \/ Turns(t, f))
                => AllFramed' /\ stack' \in [Threads -> Seq(Library!Frames)]
<1> USE DEF LibraryInv, AllFramed
<1> DEFINE Before(f) == Stands(f, system, images, orig)
           After(f) == Stands(f, system', images', orig')
<1>1. stack \in [Threads -> Seq(Library!Frames)]
  BY DEF Library!TypeOK
<1>2. ASSUME NEW f \in Library!Frames, Before(f) PROVE After(f)
  BY <1>2 DEF Stands, Wanted, Library!Frames
<1>3. \A t \in Threads : \A k \in 1..Len(stack[t]) : stack[t][k] \in Library!Frames /\ Before(stack[t][k])
  BY <1>1
<1>4. AllFramed' <=> \A t \in Threads : \A k \in 1..Len(stack'[t]) : After(stack'[t][k])
  OBVIOUS
<1> HIDE DEF Before, After, AllFramed
<1>5. UNCHANGED stack => AllFramed'
  BY <1>2, <1>3, <1>4
<1>6. ASSUME NEW t \in Threads, NEW q \in Seq(Library!Frames), stack' = [stack EXCEPT ![t] = q],
             \A k \in 1..Len(q) : After(q[k])
      PROVE  AllFramed' /\ stack' \in [Threads -> Seq(Library!Frames)]
  <2>1. ASSUME NEW u \in Threads, NEW k \in 1..Len(stack'[u]) PROVE After(stack'[u][k])
    <3>1. stack'[u] = IF u = t THEN q ELSE stack[u]
      BY <1>1, <1>6
    <3>2. CASE u = t
      BY <1>6, <2>1, <3>1, <3>2
    <3>3. CASE u # t
      BY <1>2, <1>3, <2>1, <3>1, <3>3
    <3> QED BY <3>2, <3>3
  <2>2. stack' \in [Threads -> Seq(Library!Frames)]
    BY <1>1, <1>6
  <2> QED BY <1>4, <2>1, <2>2
<1>7. ASSUME NEW t \in Threads, stack[t] # <<>>, Library!Return(t)
      PROVE  AllFramed' /\ stack' \in [Threads -> Seq(Library!Frames)]
  <2>1. PICK q \in Seq(Library!Frames) :
          q = Library!Front(stack[t]) /\ Len(q) = Len(stack[t]) - 1 /\ \A k \in 1..Len(q) : q[k] = stack[t][k]
    BY <1>1, <1>7, Stacks
  <2>2. \A k \in 1..Len(q) : k \in 1..Len(stack[t])
    BY <1>1, <2>1
  <2>3. \A k \in 1..Len(q) : After(q[k])
    BY <1>2, <1>3, <2>1, <2>2
  <2>4. stack' = [stack EXCEPT ![t] = q]
    BY <1>7, <2>1 DEF Library!Return
  <2> QED BY <1>6, <2>3, <2>4
<1>8. ASSUME NEW t \in Threads, NEW f \in Library!Frames, After(f), Pushes(t, f) \/ Turns(t, f)
      PROVE  AllFramed' /\ stack' \in [Threads -> Seq(Library!Frames)]
  <2>1. CASE Pushes(t, f)
    <3>1. \A k \in 1..Len(Append(stack[t], f)) : After(Append(stack[t], f)[k])
      BY <1>1, <1>2, <1>3, <1>8, Stacks
    <3>2. Append(stack[t], f) \in Seq(Library!Frames)
      BY <1>1
    <3> QED BY <1>6, <2>1, <3>1, <3>2 DEF Pushes
  <2>2. CASE Turns(t, f)
    <3>1. PICK q \in Seq(Library!Frames) :
            /\ stack' = [stack EXCEPT ![t] = q] /\ Len(q) = Len(stack[t]) /\ q[Len(q)] = f
            /\ \A k \in 1..Len(q) - 1 : q[k] = stack[t][k]
      BY <2>2 DEF Turns
    <3>2. \A k \in 1..Len(q) : After(q[k])
      BY <1>2, <1>3, <1>8, <3>1
    <3> QED BY <1>6, <3>1, <3>2
  <2> QED BY <1>8, <2>1, <2>2
<1> QED BY <1>2, <1>5, <1>7, <1>8 DEF Before, After

LEMMA ShapeKept ==
  ASSUME Library!TypeOK, Shaped, NEW t \in Threads, NEW f \in Library!Frames, guard' \in [Threads -> BOOLEAN],
         \A u \in Threads \ {t} : guard'[u] = guard[u],
         Len(stack[t]) = 2 => guard'[t] = guard[t]
  PROVE  /\ Turns(t, f) /\ (Len(stack[t]) = 1 => (guard'[t] <=> f.at = "evaluating"))
            /\ (Len(stack[t]) = 2 => f.at \notin Served) => Shaped'
         /\ stack[t] # <<>> /\ Library!Return(t) /\ (Len(stack[t]) = 1 => ~guard'[t]) => Shaped'
         /\ Pushes(t, f) /\ guard'[t] = guard[t] /\ f.at \notin Served
            /\ (stack[t] = <<>> \/ (Len(stack[t]) = 1 /\ stack[t][1].at = "evaluating")) => Shaped'
<1>1. stack \in [Threads -> Seq(Library!Frames)] /\ stack[t] \in Seq(Library!Frames)
  BY DEF Library!TypeOK
<1>2. ASSUME NEW q \in Seq(Library!Frames), stack' = [stack EXCEPT ![t] = q], Shape(q, guard'[t])
      PROVE  Shaped'
  <2>1. stack'[t] = q /\ \A u \in Threads \ {t} : stack'[u] = stack[u]
    BY <1>1, <1>2
  <2>2. ASSUME NEW u \in Threads PROVE Shape(stack'[u], guard'[u])
    BY <1>2, <2>1 DEF Shaped
  <2> QED BY <2>2 DEF Shaped
<1>3. Len(stack[t]) \in 0..2 /\ (guard[t] <=> Len(stack[t]) > 0 /\ stack[t][1].at = "evaluating")
      /\ (Len(stack[t]) = 2 => stack[t][1].at = "evaluating")
  BY DEF Shaped, Shape
<1>4. ASSUME Turns(t, f), Len(stack[t]) = 1 => (guard'[t] <=> f.at = "evaluating"),
             Len(stack[t]) = 2 => f.at \notin Served
      PROVE  Shaped'
  <2>1. PICK q \in Seq(Library!Frames) :
          /\ stack' = [stack EXCEPT ![t] = q] /\ Len(q) = Len(stack[t]) /\ q[Len(q)] = f
          /\ \A k \in 1..Len(q) - 1 : q[k] = stack[t][k]
    BY <1>4 DEF Turns
  <2>2. Len(q) \in {1, 2}
    BY <1>1, <1>3, <1>4, <2>1 DEF Turns
  <2>3. Len(q) = 2 => q[1] = stack[t][1]
    BY <2>1
  <2>4. Shape(q, guard'[t])
    BY <1>3, <1>4, <2>1, <2>2, <2>3 DEF Shape
  <2> QED BY <1>2, <2>1, <2>4
<1>5. ASSUME stack[t] # <<>>, Library!Return(t), Len(stack[t]) = 1 => ~guard'[t]
      PROVE  Shaped'
  <2> DEFINE q == Library!Front(stack[t])
  <2>1. q \in Seq(Library!Frames) /\ Len(q) = Len(stack[t]) - 1 /\ \A k \in 1..Len(stack[t]) - 1 : q[k] = stack[t][k]
    BY <1>1, <1>5, Stacks
  <2>2. stack' = [stack EXCEPT ![t] = q]
    BY <1>5 DEF Library!Return
  <2>3. Len(stack[t]) \in {1, 2}
    BY <1>1, <1>3, <1>5
  <2> HIDE DEF q
  <2>4. Len(stack[t]) = 2 => q[1] = stack[t][1]
    BY <2>1
  <2>5. Shape(q, guard'[t])
    <3>1. CASE Len(stack[t]) = 1
      BY <1>5, <2>1, <3>1 DEF Shape
    <3>2. CASE Len(stack[t]) = 2
      BY <1>3, <2>1, <2>4, <3>2 DEF Shape
    <3> QED BY <2>3, <3>1, <3>2
  <2> QED BY <1>2, <2>1, <2>2, <2>5
<1>6. ASSUME Pushes(t, f), guard'[t] = guard[t], f.at \notin Served,
             stack[t] = <<>> \/ (Len(stack[t]) = 1 /\ stack[t][1].at = "evaluating")
      PROVE  Shaped'
  <2> DEFINE q == Append(stack[t], f)
  <2>1. q \in Seq(Library!Frames) /\ Len(q) = Len(stack[t]) + 1
        /\ \A k \in 1..Len(q) : q[k] = IF k = Len(stack[t]) + 1 THEN f ELSE stack[t][k]
    BY <1>1, Stacks
  <2>2. stack' = [stack EXCEPT ![t] = q]
    BY <1>6 DEF Pushes
  <2> HIDE DEF q
  <2>3. stack[t] = <<>> => Len(stack[t]) = 0 /\ q[1] = f
    BY <2>1
  <2>4. Len(stack[t]) = 1 => q[1] = stack[t][1] /\ q[2] = f
    BY <2>1
  <2>5. Shape(q, guard'[t])
    BY <1>3, <1>6, <2>1, <2>3, <2>4 DEF Shape, Served
  <2> QED BY <1>2, <2>1, <2>2, <2>5
<1> QED BY <1>4, <1>5, <1>6

LEMMA TopFacts ==
  ASSUME LibraryInv, NEW t \in Threads, stack[t] # <<>>
  PROVE  /\ Library!Top(t) \in Library!Frames /\ Stands(Library!Top(t), system, images, orig)
         /\ Len(stack[t]) \in {1, 2}
         /\ Len(stack[t]) = 1 => Library!Top(t) = stack[t][1] /\ (guard[t] <=> Library!Top(t).at = "evaluating")
         /\ Len(stack[t]) = 2 => guard[t] /\ Library!Top(t).at \notin Served
<1>1. Library!Top(t) \in Library!Frames /\ Library!Top(t) = stack[t][Len(stack[t])] /\ Len(stack[t]) \in Nat \ {0}
  BY Turning DEF LibraryInv
<1>2. Stands(Library!Top(t), system, images, orig)
  BY <1>1 DEF LibraryInv, AllFramed
<1>3. Shape(stack[t], guard[t])
  BY DEF LibraryInv, Shaped
<1>4. Len(stack[t]) \in {1, 2}
  BY <1>1, <1>3 DEF Shape
<1> QED BY <1>1, <1>2, <1>3, <1>4 DEF Shape

(* The system and its images stay, and no pointer loses its original.      *)
Grows ==
  /\ system' = system /\ images \subseteq images'
  /\ \A s \in Library!Symbols : orig[s] = "native" => orig'[s] = "native"

LEMMA Turned ==
  ASSUME LibraryInv, Grows, NEW t \in Threads, NEW f \in Library!Frames, Turns(t, f), UNCHANGED guard,
         Stands(f, system', images', orig'),
         Library!Top(t).at = "evaluating" <=> f.at = "evaluating",
         Len(stack[t]) = 2 => f.at \notin Served
  PROVE  AllFramed' /\ stack' \in [Threads -> Seq(Library!Frames)] /\ Shaped'
<1>1. AllFramed' /\ stack' \in [Threads -> Seq(Library!Frames)]
  BY FramesKept DEF Grows
<1>2. Len(stack[t]) = 1 => (guard'[t] <=> f.at = "evaluating")
  BY TopFacts DEF Turns
<1>3. guard' \in [Threads -> BOOLEAN] /\ Library!TypeOK /\ Shaped
  BY DEF LibraryInv, Library!TypeOK
<1>4. Shaped'
  BY <1>2, <1>3, ShapeKept
<1> QED BY <1>1, <1>4

-----------------------------------------------------------------------------
(* The images, the administrator and the constructor: no frame moves.      *)
LEMMA Rebinds ==
  ASSUME Library!TypeOK, NEW I \in SUBSET Library!Images, NEW S, Library!Rebind(I, S)
  PROVE  /\ slot' \in [Library!Images -> [Library!Symbols -> {"lazy", "native", "hook"}]]
         /\ captured' \in [Library!Symbols -> {"null", "native"} \cup Library!Images]
         /\ \A i \in Library!Images, s \in Library!Symbols : slot[i][s] = "hook" => slot'[i][s] = "hook"
<1> DEFINE Values == {"lazy", "native", "hook"}
           row(i) == [s \in Library!Symbols |-> IF i \in Library!Hit(I, S, s) THEN "hook" ELSE slot[i][s]]
<1>0. slot \in [Library!Images -> [Library!Symbols -> Values]]
      /\ captured \in [Library!Symbols -> {"null", "native"} \cup Library!Images]
  BY DEF Library!TypeOK
<1>1. slot' = [i \in Library!Images |-> row(i)]
  BY DEF Library!Rebind
<1>2. ASSUME NEW i \in Library!Images
      PROVE  row(i) \in [Library!Symbols -> Values]
  <2>1. slot[i] \in [Library!Symbols -> Values]
    BY <1>0
  <2>2. \A s \in Library!Symbols : slot[i][s] \in Values
    BY <2>1
  <2> QED BY <2>2
<1>3. \A i \in Library!Images, s \in Library!Symbols : slot[i][s] = "hook" => row(i)[s] = "hook"
  OBVIOUS
<1>4. slot' \in [Library!Images -> [Library!Symbols -> Values]]
  <2> HIDE DEF row, Values
  <2> QED BY <1>1, <1>2
<1>5. \A i \in Library!Images, s \in Library!Symbols : slot[i][s] = "hook" => slot'[i][s] = "hook"
  <2> HIDE DEF row
  <2> QED BY <1>1, <1>3
<1>6. ASSUME NEW s \in Library!Symbols
      PROVE  captured'[s] \in {"null", "native"} \cup Library!Images
  <2>1. CASE Library!Hit(I, S, s) # {}
    <3>1. (CHOOSE i \in Library!Hit(I, S, s) : TRUE) \in Library!Images
      BY <2>1 DEF Library!Hit
    <3> QED BY <1>0, <3>1 DEF Library!Rebind, Library!Reported
  <2>2. CASE Library!Hit(I, S, s) = {}
    BY <1>0, <2>2 DEF Library!Rebind
  <2> QED BY <2>1, <2>2
<1>7. captured' \in [Library!Symbols -> {"null", "native"} \cup Library!Images]
  BY <1>6 DEF Library!Rebind
<1> QED BY <1>4, <1>5, <1>7

HooksKept == \A i \in Library!Images, s \in Library!Symbols : slot[i][s] = "hook" => slot'[i][s] = "hook"

LEMMA ArriveStep ==
  ASSUME LibraryInv,
         \/ \E i \in Library!Images : Library!LoadImage(i)
         \/ Library!Inserted \/ Library!EditDisabled \/ Library!aquatransport_loader_init
         \/ Library!aquatransport_init
  PROVE  LibraryInv' /\ HooksKept
<1>1. UNCHANGED <<system, orig, tokens, result, class, guard, stack>>
  BY DEF Library!LoadImage, Library!Inserted, Library!EditDisabled, Library!aquatransport_loader_init,
    Library!aquatransport_init
<1>2. images \subseteq images' /\ images' \subseteq Library!Images
  BY DEF LibraryInv, Library!TypeOK, Library!LoadImage, Library!Inserted, Library!EditDisabled,
    Library!aquatransport_loader_init, Library!aquatransport_init
<1>3. /\ slot' \in [Library!Images -> [Library!Symbols -> {"lazy", "native", "hook"}]]
      /\ captured' \in [Library!Symbols -> {"null", "native"} \cup Library!Images] /\ HooksKept
  <2>1. CASE UNCHANGED <<slot, captured>>
    BY <2>1 DEF LibraryInv, Library!TypeOK, HooksKept
  <2>2. ASSUME NEW I \in SUBSET Library!Images, NEW S, Library!Rebind(I, S)
        PROVE  /\ slot' \in [Library!Images -> [Library!Symbols -> {"lazy", "native", "hook"}]]
               /\ captured' \in [Library!Symbols -> {"null", "native"} \cup Library!Images] /\ HooksKept
    BY <2>2, Rebinds DEF LibraryInv, HooksKept
  <2>3. images \in SUBSET Library!Images
    BY DEF LibraryInv, Library!TypeOK
  <2>4. CASE \E i \in Library!Images : Library!LoadImage(i)
    BY <2>2, <2>4 DEF Library!LoadImage
  <2>5. CASE Library!aquatransport_init
    BY <2>1, <2>2, <2>3, <2>5 DEF Library!aquatransport_init
  <2>6. CASE Library!Inserted \/ Library!EditDisabled \/ Library!aquatransport_loader_init
    BY <2>1, <2>6 DEF Library!Inserted, Library!EditDisabled, Library!aquatransport_loader_init
  <2> QED BY <2>4, <2>5, <2>6
<1>4. listed' \in BOOLEAN /\ registered' \subseteq Library!Symbols
      /\ phase' \in {"outside", "stub", "excluded", "no engine", "installed"} \cup DOMAIN Library!Installing
  <2>1. DOMAIN Library!Installing = {"engine", "ssl", "rewrite"}
    BY DEF Library!Installing
  <2>2. \A p \in DOMAIN Library!Installing :
          /\ Library!Installing[p].next \in {"ssl", "rewrite", "installed"}
          /\ Library!Installing[p].hooks \subseteq Library!Symbols
    BY <2>1 DEF Library!Installing, Library!Symbols
  <2>3. (~listed) \in BOOLEAN
    OBVIOUS
  <2>4. CASE \E i \in Library!Images : Library!LoadImage(i)
    BY <2>1, <2>4 DEF LibraryInv, Library!TypeOK, Library!LoadImage
  <2>5. CASE Library!Inserted \/ Library!EditDisabled \/ Library!aquatransport_loader_init
    BY <2>1, <2>3, <2>5 DEF LibraryInv, Library!TypeOK, Library!Inserted, Library!EditDisabled,
      Library!aquatransport_loader_init
  <2>6. CASE Library!aquatransport_init
    BY <2>1, <2>2, <2>6 DEF LibraryInv, Library!TypeOK, Library!aquatransport_init
  <2> QED BY <2>4, <2>5, <2>6
<1>5. Library!TypeOK'
  BY <1>1, <1>2, <1>3, <1>4 DEF LibraryInv, Library!TypeOK
<1>6. AllFramed'
  BY <1>1, <1>2, FramesKept DEF LibraryInv
<1>7. OrigFits' /\ TokensFit' /\ FinalizerFits' /\ Shaped'
  BY <1>1 DEF LibraryInv, OrigFits, TokensFit, FinalizerFits, Shaped
<1> QED BY <1>3, <1>5, <1>6, <1>7 DEF LibraryInv

-----------------------------------------------------------------------------
(* A call enters its hook, or the system's function through its own stub.  *)
LEMMA CallStep ==
  ASSUME LibraryInv, NEW t \in Threads, NEW i \in Library!Images, NEW s \in Library!Symbols, Library!Call(t, i, s)
  PROVE  LibraryInv' /\ HooksKept
<1> DEFINE f == [sym |-> s, at |-> Library!EntryOf(s), initialising |-> FALSE]
<1>1. UNCHANGED <<system, listed, phase, images, registered, captured, orig, tokens, result, class, guard>>
  BY DEF Library!Call, Library!process
<1>2. s \in system.has /\ s \notin Library!Later /\ Library!Provider(s) \in images
  BY DEF Library!Call, Library!Imports
<1>3. f.at \in {"gate", "origs", "trust", "request"} /\ f \in Library!Frames /\ f.sym = s
      /\ (f.at = "gate" => s = "SSLHandshake") /\ (f.at # "gate" => s \in Library!Resolves(f.at))
  BY <1>2 DEF Library!EntryOf, Library!Frames, Library!Onces, Library!Symbols, Library!Ssl, Library!Optional,
    Library!Later, Library!Trust, Library!Url, Library!Resolves
<1>4. Stands(f, system, images, orig) /\ f.at \notin Served
  BY <1>2, <1>3 DEF Stands, Served, Settled
<1>5. Grows
  BY <1>1 DEF Grows
<1>6. stack \in [Threads -> Seq(Library!Frames)] /\ Shape(stack[t], guard[t]) /\ Shaped
  BY DEF LibraryInv, Library!TypeOK, Shaped
<1>7. AllFramed' /\ stack' \in [Threads -> Seq(Library!Frames)] /\ Shaped'
  <2>1. CASE UNCHANGED stack
    BY <1>1, <1>5, <1>6, <2>1, FramesKept DEF Grows, Shaped
  <2>2. CASE Pushes(t, f)
    <3>1. AllFramed' /\ stack' \in [Threads -> Seq(Library!Frames)]
      BY <1>1, <1>3, <1>4, <1>5, <2>2, FramesKept DEF Grows
    <3>2. stack[t] = <<>> \/ (Len(stack[t]) = 1 /\ stack[t][1].at = "evaluating")
      BY <1>6, TopFacts DEF Library!Call, Library!Inside
    <3>3. guard' = guard /\ guard \in [Threads -> BOOLEAN] /\ Library!TypeOK
      BY <1>1 DEF LibraryInv, Library!TypeOK
    <3> HIDE DEF f
    <3>4. Shaped'
      BY <1>3, <1>4, <1>6, <2>2, <3>2, <3>3, ShapeKept
    <3> QED BY <3>1, <3>4
  <2>3. UNCHANGED stack \/ Pushes(t, f)
    BY <1>6 DEF Library!Call, Pushes
  <2> QED BY <2>1, <2>2, <2>3
<1>8. slot' \in [Library!Images -> [Library!Symbols -> {"lazy", "native", "hook"}]] /\ HooksKept
  <2>1. slot \in [Library!Images -> [Library!Symbols -> {"lazy", "native", "hook"}]]
    BY DEF LibraryInv, Library!TypeOK
  <2>2. slot' = slot \/ (slot[i][s] # "hook" /\ slot' = [slot EXCEPT ![i] = [slot[i] EXCEPT ![s] = "native"]])
    BY <2>1 DEF Library!Call
  <2> QED BY <2>1, <2>2 DEF HooksKept
<1>9. Library!TypeOK'
  BY <1>1, <1>7, <1>8 DEF LibraryInv, Library!TypeOK
<1>10. OrigFits' /\ TokensFit' /\ FinalizerFits'
  BY <1>1 DEF LibraryInv, OrigFits, TokensFit, FinalizerFits
<1> QED BY <1>7, <1>8, <1>9, <1>10 DEF LibraryInv

-----------------------------------------------------------------------------
(* The once tokens.                                                        *)
Process == <<system, listed, phase, images, registered>>
AtRest == UNCHANGED <<Process, slot, captured, orig, class, guard>>

LEMMA TokenFrame ==
  ASSUME LibraryInv, NEW t \in Threads, NEW k \in Library!Onces, stack[t] # <<>>, Library!Top(t).at = k,
         AtRest, Library!Goto(t, Library!After(k)),
         k # "gate" => \A s \in Library!Resolves(k) \cap system.has : orig[s] = "native"
  PROVE  AllFramed' /\ stack' \in [Threads -> Seq(Library!Frames)] /\ Shaped'
<1> DEFINE f == [sym |-> Library!Top(t).sym, at |-> Library!After(k), initialising |-> FALSE]
<1>1. Library!After(k) \in {"origs", "serve", "decide"} /\ (k = "gate" => Library!After(k) = "origs")
      /\ (k = "engine" => Library!After(k) = "serve")
      /\ (k \in {"origs", "trust", "request"} => Library!After(k) = "decide")
  BY DEF Library!After, Library!Onces
<1>2. f \in Library!Frames /\ Turns(t, f)
  BY <1>1, Turning DEF LibraryInv, Settled, Served, Library!Onces
<1>3. Stands(Library!Top(t), system, images, orig)
  BY TopFacts
<1>4. f.sym = Library!Top(t).sym /\ f.at = Library!After(k)
  OBVIOUS
<1> HIDE DEF f
<1>5. Stands(f, system, images, orig)
  <2>1. CASE k = "gate"
    BY <1>1, <1>3, <1>4, <2>1 DEF Stands, Served, Settled, Library!Resolves, Library!Ssl
  <2>2. CASE k = "engine"
    BY <1>1, <1>3, <1>4, <2>2 DEF Stands, Served, Settled
  <2>3. CASE k \in {"origs", "trust", "request"}
    <3>1. orig[f.sym] = "native"
      BY <1>3, <1>4, <2>3 DEF Stands
    <3> QED BY <1>1, <1>3, <1>4, <2>3, <3>1 DEF Stands, Served, Settled
  <2> QED BY <2>1, <2>2, <2>3 DEF Library!Onces
<1>6. Grows
  BY DEF Grows, AtRest, Process
<1>7. Len(stack[t]) = 2 => f.at \notin Served
  BY <1>1, <1>4, TopFacts DEF Served, Library!Onces
<1>8. Library!Top(t).at # "evaluating" /\ f.at # "evaluating"
  BY <1>1, <1>4 DEF Library!Onces
<1> QED BY <1>2, <1>5, <1>6, <1>7, <1>8, Turned DEF AtRest, Process

LEMMA TokenStep ==
  ASSUME LibraryInv, NEW t \in Threads, NEW k \in Library!Onces,
         Library!OnceBegins(t, k) \/ Library!OnceIsDone(t, k)
  PROVE  LibraryInv' /\ HooksKept
<1>1. AtRest /\ UNCHANGED result
  BY DEF AtRest, Process, Library!OnceBegins, Library!OnceIsDone, Library!process
<1>2. AllFramed' /\ stack' \in [Threads -> Seq(Library!Frames)] /\ Shaped'
  <2>1. CASE Library!OnceBegins(t, k)
    <3> DEFINE f == [sym |-> Library!Top(t).sym, at |-> Library!Top(t).at, initialising |-> TRUE]
    <3>1. stack[t] # <<>> /\ Library!Top(t).at = k
      BY <2>1 DEF Library!OnceBegins, Library!Inside
    <3>2. f \in Library!Frames /\ Turns(t, f)
      BY <2>1, <3>1, Turning DEF Library!OnceBegins, LibraryInv
    <3>3. f.sym = Library!Top(t).sym /\ f.at = Library!Top(t).at
      OBVIOUS
    <3> HIDE DEF f
    <3>4. Stands(f, system, images, orig)
      BY <3>1, <3>3, TopFacts DEF Stands
    <3>5. Grows
      BY <1>1 DEF Grows, AtRest, Process
    <3>6. Len(stack[t]) = 2 => f.at \notin Served
      BY <3>1, <3>3, TopFacts
    <3> QED BY <1>1, <3>2, <3>3, <3>4, <3>5, <3>6, Turned DEF AtRest, Process
  <2>2. CASE Library!OnceIsDone(t, k)
    <3>1. stack[t] # <<>> /\ Library!Top(t).at = k /\ tokens[k] = "done" /\ Library!Goto(t, Library!After(k))
      BY <2>2 DEF Library!OnceIsDone, Library!Inside
    <3> QED BY <1>1, <3>1, TokenFrame DEF LibraryInv, TokensFit
  <2> QED BY <2>1, <2>2
<1>3. tokens' \in [Library!Onces -> {"no", "running", "done"}]
      /\ \A j \in Library!Onces : tokens'[j] = "done" => tokens[j] = "done"
  BY DEF LibraryInv, Library!TypeOK, Library!OnceBegins, Library!OnceIsDone
<1>4. Library!TypeOK'
  BY <1>1, <1>2, <1>3 DEF LibraryInv, Library!TypeOK, AtRest, Process
<1>5. OrigFits' /\ TokensFit' /\ FinalizerFits' /\ HooksKept
  BY <1>1, <1>3 DEF LibraryInv, OrigFits, TokensFit, FinalizerFits, HooksKept, AtRest, Process
<1> QED BY <1>2, <1>4, <1>5 DEF LibraryInv

(* The end of an initialiser: the answer it leaves is true of the system.  *)
LEMMA EndStep ==
  ASSUME LibraryInv, NEW t \in Threads, NEW k \in Library!Onces, NEW answer \in BOOLEAN,
         Library!Initialising(t, k), AtRest, Library!OnceEnds(t, k, answer),
         \A s \in Library!Resolves(k) \cap system.has : orig[s] = "native",
         k = "gate" /\ answer => ~system.denied,
         k = "origs" /\ answer => Library!Ssl \ Library!Optional \subseteq system.has
  PROVE  LibraryInv' /\ HooksKept
<1>1. stack[t] # <<>> /\ Library!Top(t).at = k /\ Library!Goto(t, Library!After(k))
  BY DEF Library!Initialising, Library!OnceEnds
<1>2. AllFramed' /\ stack' \in [Threads -> Seq(Library!Frames)] /\ Shaped'
  BY <1>1, TokenFrame
<1>3. tokens' = [tokens EXCEPT ![k] = "done"] /\ result' = [result EXCEPT ![k] = answer]
  BY DEF Library!OnceEnds
<1>4. tokens' \in [Library!Onces -> {"no", "running", "done"}] /\ result' \in [Library!Onces -> BOOLEAN]
  BY <1>3 DEF LibraryInv, Library!TypeOK
<1>5. Library!TypeOK'
  BY <1>2, <1>4 DEF LibraryInv, Library!TypeOK, AtRest, Process
<1>6. TokensFit'
  <2>1. \A j \in Library!Onces : tokens'[j] = "done" => j = k \/ tokens[j] = "done"
    BY <1>3 DEF LibraryInv, Library!TypeOK
  <2>2. \A j \in Library!Onces : result'[j] = IF j = k THEN answer ELSE result[j]
    BY <1>3 DEF LibraryInv, Library!TypeOK
  <2>3. system' = system /\ orig' = orig
    BY DEF AtRest, Process
  <2>4. \A j \in Library!Onces : tokens'[j] = "done" =>
          \A s \in Library!Resolves(j) \cap system.has : orig[s] = "native"
    BY <2>1 DEF LibraryInv, TokensFit
  <2>5. (result'["gate"] => ~system.denied)
        /\ (result'["origs"] => Library!Ssl \ Library!Optional \subseteq system.has)
    BY <2>2 DEF LibraryInv, TokensFit, Library!Onces
  <2> QED BY <2>3, <2>4, <2>5 DEF TokensFit
<1>7. OrigFits' /\ FinalizerFits' /\ HooksKept
  BY DEF LibraryInv, OrigFits, FinalizerFits, HooksKept, AtRest, Process
<1> QED BY <1>2, <1>5, <1>6, <1>7 DEF LibraryInv

(* What an initialiser resolves comes from the image its own caller's hook *)
(* is in, and that image is there.                                         *)
LEMMA ProviderThere ==
  ASSUME LibraryInv, NEW t \in Threads, NEW k \in Library!Onces, Library!Initialising(t, k)
  PROVE  \A s \in Library!Resolves(k) : s \in Library!Symbols /\ Library!Provider(s) \in images
<1>1. Stands(Library!Top(t), system, images, orig) /\ Library!Top(t).at = k
  BY TopFacts DEF Library!Initialising
<1>2. CASE k \in {"gate", "engine"}
  BY <1>2 DEF Library!Resolves
<1>3. CASE k \in {"origs", "trust", "request"}
  <2>1. Library!Top(t).sym \in Library!Resolves(k) /\ Library!Provider(Library!Top(t).sym) \in images
    BY <1>1, <1>3 DEF Stands
  <2> QED BY <1>3, <2>1 DEF Library!Resolves, Library!Provider, Library!Symbols, Library!Ssl, Library!Optional,
    Library!Later, Library!Trust, Library!Url
<1> QED BY <1>2, <1>3 DEF Library!Onces

LEMMA InitialiserStep ==
  ASSUME Library!SystemsAssumption, LibraryInv, NEW t \in Threads, NEW k \in Library!Onces,
         Library!gate_init(t) \/ Library!do_ready(t) \/ Library!ResolveEnds(t, k)
  PROVE  LibraryInv' /\ HooksKept
<1> USE DEF AtRest, Process, Library!process
<1>1. CASE Library!gate_init(t)
  <2>1. Library!process_eligible \in BOOLEAN /\ (Library!process_eligible => ~system.denied)
    BY DEF Library!process_eligible
  <2>2. "gate" \in Library!Onces /\ Library!Resolves("gate") = {}
    BY DEF Library!Onces, Library!Resolves
  <2> QED BY <1>1, <2>1, <2>2, EndStep DEF Library!gate_init
<1>2. CASE Library!do_ready(t)
  <2>1. system.boots \in BOOLEAN
    BY DEF LibraryInv, Library!TypeOK, Library!SystemsAssumption
  <2>2. "engine" \in Library!Onces /\ Library!Resolves("engine") = {}
    BY DEF Library!Onces, Library!Resolves
  <2> QED BY <1>2, <2>1, <2>2, EndStep DEF Library!do_ready
<1>3. CASE Library!ResolveEnds(t, k)
  <2>1. Library!Initialising(t, k) /\ Library!Filled(k) /\ AtRest /\ Library!OnceEnds(t, k, Library!Whole(k))
        /\ k # "gate"
    BY <1>3 DEF Library!ResolveEnds, Library!Resolves
  <2>2. \A s \in Library!Resolves(k) : s \in Library!Symbols /\ Library!Provider(s) \in images
    BY <2>1, ProviderThere
  <2>3. ASSUME NEW s \in Library!Resolves(k) \cap system.has PROVE orig[s] = "native"
    <3>1. Library!fishhook_resolve(s) = "native"
      BY <2>2, <2>3 DEF Library!fishhook_resolve
    <3>2. orig[s] # "null"
      BY <2>1, <3>1 DEF Library!Filled
    <3>3. orig[s] \in {"null", "native", "stand-in"} /\ orig[s] # "stand-in"
      BY <2>2, <2>3 DEF LibraryInv, Library!TypeOK, OrigFits
    <3> QED BY <3>2, <3>3
  <2>4. Library!Whole(k) \in BOOLEAN
    BY DEF Library!Whole
  <2>5. k = "origs" /\ Library!Whole(k) => Library!Ssl \ Library!Optional \subseteq system.has
    BY DEF Library!Whole, Library!Resolves, LibraryInv, OrigFits, Library!Symbols
  <2> HIDE DEF AtRest
  <2> QED BY <2>1, <2>3, <2>4, <2>5, EndStep
<1> QED BY <1>1, <1>2, <1>3

(* One pointer at a time, and the destructor's original before its hook.   *)
LEMMA ResolveStep ==
  ASSUME LibraryInv, NEW t \in Threads, NEW k \in Library!Onces,
         Library!Resolve(t, k) \/ Library!SaveFinalizer(t) \/ Library!HookFinalizer(t)
  PROVE  LibraryInv' /\ HooksKept
<1>1. UNCHANGED <<Process, slot, captured, tokens, result, guard, stack>>
  BY DEF Process, Library!process, Library!Resolve, Library!SaveFinalizer, Library!HookFinalizer
<1>2. /\ orig' \in [Library!Symbols -> {"null", "native", "stand-in"}] /\ OrigFits'
      /\ \A s \in Library!Symbols : orig[s] = "native" => orig'[s] = "native"
  <2>1. CASE UNCHANGED orig
    BY <1>1, <2>1 DEF LibraryInv, Library!TypeOK, OrigFits, Process
  <2>2. CASE Library!Resolve(t, k)
    <3>1. PICK s \in Library!Resolves(k) :
            /\ orig[s] = "null"
            /\ orig' = [orig EXCEPT ![s] = IF Library!fishhook_resolve(s) = "native" THEN "native" ELSE "stand-in"]
      BY <2>2 DEF Library!Resolve
    <3>2. s \in Library!Symbols /\ Library!Provider(s) \in images
      BY <2>2, ProviderThere DEF Library!Resolve
    <3>3. Library!fishhook_resolve(s) = "native" <=> s \in system.has
      BY <3>2 DEF Library!fishhook_resolve
    <3>4. orig' = [orig EXCEPT ![s] = IF s \in system.has THEN "native" ELSE "stand-in"]
      BY <3>1, <3>3
    <3> QED BY <1>1, <3>1, <3>2, <3>4 DEF LibraryInv, Library!TypeOK, OrigFits, Process
  <2> QED BY <2>1, <2>2 DEF Library!SaveFinalizer, Library!HookFinalizer
<1>3. class' \in [finalize : {"native", "hook"}, saved : {"null", "native", "hook"}] /\ FinalizerFits'
  <2>1. class \in [finalize : {"native", "hook"}, saved : {"null", "native", "hook"}]
    BY DEF LibraryInv, Library!TypeOK
  <2>2. CASE Library!Resolve(t, k)
    BY <2>1, <2>2 DEF Library!Resolve, LibraryInv, FinalizerFits
  <2>3. CASE Library!SaveFinalizer(t)
    BY <2>1, <2>3 DEF Library!SaveFinalizer, FinalizerFits
  <2>4. CASE Library!HookFinalizer(t)
    BY <2>1, <2>4 DEF Library!HookFinalizer, FinalizerFits
  <2> QED BY <2>2, <2>3, <2>4
<1>4. Grows
  BY <1>1, <1>2 DEF Grows, Process
<1>5. AllFramed'
  BY <1>1, <1>4, FramesKept DEF Grows
<1>6. TokensFit'
  <2>1. \A j \in Library!Onces : Library!Resolves(j) \subseteq Library!Symbols
    BY DEF Library!Onces, Library!Resolves, Library!Symbols
  <2> QED BY <1>1, <1>2, <2>1 DEF LibraryInv, TokensFit, Process
<1>7. Library!TypeOK' /\ Shaped' /\ HooksKept
  BY <1>1, <1>2, <1>3 DEF LibraryInv, Library!TypeOK, Shaped, HooksKept, Process
<1> QED BY <1>2, <1>3, <1>5, <1>6, <1>7 DEF LibraryInv

-----------------------------------------------------------------------------
(* Past the once tokens.  What is called as the original is the system's   *)
(* own function, so no image's stub is, and no slot is bound back.         *)
LEMMA OriginalReal ==
  ASSUME LibraryInv, NEW t \in Threads, Library!Inside(t, "original")
  PROVE  Library!Target(Library!Top(t).sym) = "native"
<1>1. orig[Library!Top(t).sym] = "native"
  BY TopFacts DEF Library!Inside, Stands, Settled
<1> QED BY <1>1 DEF Library!Target

LEMMA DecideStep ==
  ASSUME LibraryInv, NEW t \in Threads, Library!Decide(t)
  PROVE  LibraryInv' /\ HooksKept
<1>1. UNCHANGED <<Process, slot, captured, orig, tokens, result, class, guard>>
  BY DEF Process, Library!process, Library!Decide
<1>2. stack[t] # <<>> /\ Library!Top(t).at = "decide" /\ Stands(Library!Top(t), system, images, orig)
  BY TopFacts DEF Library!Decide, Library!Inside
<1>3. Grows /\ Library!TypeOK /\ Shaped /\ guard' \in [Threads -> BOOLEAN]
  BY <1>1 DEF Grows, Process, LibraryInv, Library!TypeOK
<1>4. ASSUME NEW at \in {"engine", "original"}, Library!Goto(t, at),
             at = "engine" => Library!Top(t).sym = "SSLHandshake" /\ Library!tf_on(t)
      PROVE  AllFramed' /\ stack' \in [Threads -> Seq(Library!Frames)] /\ Shaped'
  <2> DEFINE f == [sym |-> Library!Top(t).sym, at |-> at, initialising |-> FALSE]
  <2>1. f \in Library!Frames /\ Turns(t, f) /\ f.sym = Library!Top(t).sym /\ f.at = at
    BY <1>2, <1>3, <1>4, Turning DEF Settled, Served
  <2> HIDE DEF f
  <2>2. at = "engine" => Wanted(system) /\ ~guard[t]
    BY <1>4 DEF Library!tf_on, Library!tf_reentrant, LibraryInv, TokensFit, Wanted
  <2>3. Stands(f, system, images, orig)
    BY <1>2, <1>4, <2>1, <2>2 DEF Stands, Settled, Served
  <2>4. Len(stack[t]) = 2 => f.at \notin Served
    BY <1>2, <1>4, <2>1, <2>2, TopFacts DEF Served
  <2>5. Library!Top(t).at # "evaluating" /\ f.at # "evaluating"
    BY <1>2, <2>1
  <2> QED BY <1>1, <1>3, <2>1, <2>3, <2>4, <2>5, Turned DEF Process
<1>5. ASSUME Library!Return(t)
      PROVE  AllFramed' /\ stack' \in [Threads -> Seq(Library!Frames)] /\ Shaped'
  <2>1. AllFramed' /\ stack' \in [Threads -> Seq(Library!Frames)]
    BY <1>2, <1>3, <1>5, FramesKept DEF Grows
  <2>2. Len(stack[t]) = 1 => ~guard'[t]
    BY <1>1, <1>2, TopFacts
  <2>3. Library!Top(t) \in Library!Frames
    BY <1>2, TopFacts
  <2>4. Shaped'
    BY <1>1, <1>2, <1>3, <1>5, <2>2, <2>3, ShapeKept
  <2> QED BY <2>1, <2>4
<1>6. AllFramed' /\ stack' \in [Threads -> Seq(Library!Frames)] /\ Shaped'
  BY <1>4, <1>5 DEF Library!Decide
<1>7. Library!TypeOK' /\ OrigFits' /\ TokensFit' /\ FinalizerFits' /\ HooksKept
  BY <1>1, <1>6 DEF LibraryInv, Library!TypeOK, OrigFits, TokensFit, FinalizerFits, HooksKept, Process
<1> QED BY <1>6, <1>7 DEF LibraryInv

LEMMA OriginalStep ==
  ASSUME Library!SystemsAssumption, LibraryInv, NEW t \in Threads, Library!CallOriginal(t)
  PROVE  LibraryInv' /\ HooksKept
<1>1. stack[t] # <<>> /\ Library!Top(t).at = "original"
  BY DEF Library!CallOriginal, Library!Inside
<1>2. Library!Target(Library!Top(t).sym) \notin Library!Images
  BY OriginalReal DEF Library!CallOriginal, Library!SystemsAssumption, Library!Images
<1>3. UNCHANGED <<Process, slot, captured, orig, tokens, result, class, guard>>
  BY <1>2 DEF Process, Library!process, Library!CallOriginal
<1>4. Grows /\ Library!TypeOK /\ Shaped /\ guard' \in [Threads -> BOOLEAN] /\ Library!Return(t)
  BY <1>3 DEF Grows, Process, LibraryInv, Library!TypeOK, Library!CallOriginal
<1>5. AllFramed' /\ stack' \in [Threads -> Seq(Library!Frames)]
  BY <1>1, <1>4, FramesKept DEF Grows
<1>6. (Len(stack[t]) = 1 => ~guard'[t]) /\ Library!Top(t) \in Library!Frames
  BY <1>1, <1>3, TopFacts
<1>7. Shaped'
  BY <1>1, <1>3, <1>4, <1>6, ShapeKept
<1>8. Library!TypeOK' /\ OrigFits' /\ TokensFit' /\ FinalizerFits' /\ HooksKept
  BY <1>3, <1>5 DEF LibraryInv, Library!TypeOK, OrigFits, TokensFit, FinalizerFits, HooksKept, Process
<1> QED BY <1>5, <1>7, <1>8 DEF LibraryInv

(* The engine's own service, and the evaluation under the guard.           *)
LEMMA ServeStep ==
  ASSUME LibraryInv, NEW t \in Threads, Library!Serve(t) \/ Library!Evaluated(t)
  PROVE  LibraryInv' /\ HooksKept
<1>1. UNCHANGED <<Process, slot, captured, orig, tokens, result, class>>
  BY DEF Process, Library!process, Library!Serve, Library!Evaluated
<1>2. stack[t] # <<>> /\ Library!Top(t).at \in {"serve", "evaluating"} /\ Library!Top(t) \in Library!Frames
      /\ Stands(Library!Top(t), system, images, orig) /\ Len(stack[t]) = 1
      /\ (guard[t] <=> Library!Top(t).at = "evaluating")
  BY TopFacts DEF Library!Serve, Library!Evaluated, Library!Inside, Served
<1>3. Grows /\ Library!TypeOK /\ Shaped /\ guard \in [Threads -> BOOLEAN]
  BY <1>1 DEF Grows, Process, LibraryInv, Library!TypeOK
<1>4. guard' \in [Threads -> BOOLEAN] /\ \A u \in Threads \ {t} : guard'[u] = guard[u]
  BY <1>3 DEF Library!Serve, Library!Evaluated, Library!tf_guard_enter, Library!tf_guard_leave
<1>5. ASSUME NEW at \in {"original", "evaluating"}, Library!Goto(t, at), guard'[t] <=> at = "evaluating"
      PROVE  AllFramed' /\ stack' \in [Threads -> Seq(Library!Frames)] /\ Shaped'
  <2> DEFINE f == [sym |-> Library!Top(t).sym, at |-> at, initialising |-> FALSE]
  <2>1. f \in Library!Frames /\ Turns(t, f) /\ f.sym = Library!Top(t).sym /\ f.at = at
    BY <1>2, <1>3, <1>5, Turning DEF Settled, Served
  <2> HIDE DEF f
  <2>2. Stands(f, system', images', orig')
    BY <1>1, <1>2, <2>1 DEF Stands, Settled, Served, Process
  <2>3. AllFramed' /\ stack' \in [Threads -> Seq(Library!Frames)]
    BY <1>3, <2>1, <2>2, FramesKept DEF Grows
  <2>4. Shaped'
    BY <1>2, <1>3, <1>4, <1>5, <2>1, ShapeKept
  <2> QED BY <2>3, <2>4
<1>6. ASSUME Library!Return(t), ~guard'[t]
      PROVE  AllFramed' /\ stack' \in [Threads -> Seq(Library!Frames)] /\ Shaped'
  <2>1. AllFramed' /\ stack' \in [Threads -> Seq(Library!Frames)]
    BY <1>2, <1>3, <1>6, FramesKept DEF Grows
  <2>2. Shaped'
    BY <1>2, <1>3, <1>4, <1>6, ShapeKept
  <2> QED BY <2>1, <2>2
<1>7. AllFramed' /\ stack' \in [Threads -> Seq(Library!Frames)] /\ Shaped'
  <2>1. CASE Library!Evaluated(t)
    <3>1. ~guard'[t] /\ Library!Return(t)
      BY <1>3, <2>1 DEF Library!Evaluated, Library!tf_guard_leave
    <3> QED BY <1>6, <3>1
  <2>2. CASE Library!Serve(t)
    <3>1. ~guard[t]
      BY <1>2, <2>2 DEF Library!Serve, Library!Inside
    <3>2. CASE Library!Goto(t, "original") /\ UNCHANGED guard
      BY <1>5, <3>1, <3>2
    <3>3. CASE Library!Return(t) /\ UNCHANGED guard
      BY <1>6, <3>1, <3>3
    <3>4. CASE Library!Goto(t, "evaluating") /\ Library!tf_guard_enter(t)
      <4>1. guard'[t]
        BY <1>3, <3>4 DEF Library!tf_guard_enter
      <4> QED BY <1>5, <3>4, <4>1
    <3> QED BY <2>2, <3>2, <3>3, <3>4 DEF Library!Serve
  <2> QED BY <2>1, <2>2
<1>8. Library!TypeOK' /\ OrigFits' /\ TokensFit' /\ FinalizerFits' /\ HooksKept
  BY <1>1, <1>4, <1>7 DEF LibraryInv, Library!TypeOK, OrigFits, TokensFit, FinalizerFits, HooksKept, Process
<1> QED BY <1>7, <1>8 DEF LibraryInv

-----------------------------------------------------------------------------
LEMMA LibraryKept ==
  ASSUME Library!SystemsAssumption, LibraryInv, [Library!Next]_(Library!vars)
  PROVE  LibraryInv' /\ HooksKept
<1>1. CASE UNCHANGED Library!vars
  <2>1. UNCHANGED <<system, listed, phase, images, registered, slot, captured, orig, tokens, result, class,
                    guard, stack>>
    BY <1>1 DEF Library!vars, Library!process
  <2>2. Grows
    BY <2>1 DEF Grows
  <2>3. AllFramed'
    BY <2>1, <2>2, FramesKept DEF Grows
  <2>4. Library!TypeOK' /\ OrigFits' /\ TokensFit' /\ FinalizerFits' /\ Shaped' /\ HooksKept
    BY <2>1 DEF LibraryInv, Library!TypeOK, OrigFits, TokensFit, FinalizerFits, Shaped, HooksKept
  <2> QED BY <2>3, <2>4 DEF LibraryInv
<1>2. ASSUME NEW t \in Threads, Library!Works(t) PROVE LibraryInv' /\ HooksKept
  <2>1. "gate" \in Library!Onces
    BY DEF Library!Onces
  <2> QED BY <1>2, <2>1, TokenStep, InitialiserStep, ResolveStep, DecideStep, OriginalStep, ServeStep
            DEF Library!Works
<1> QED BY <1>1, <1>2, ArriveStep, CallStep DEF Library!Next

LEMMA LibraryStarts ==
  ASSUME Library!SystemsAssumption, Library!Init
  PROVE  LibraryInv
<1>1. \A t \in Threads : stack[t] = <<>> /\ ~guard[t]
  BY DEF Library!Init
<1>2. <<>> \in Seq(Library!Frames) /\ Len(<<>>) = 0
  OBVIOUS
<1>3. AllFramed /\ Shaped
  BY <1>1, <1>2 DEF AllFramed, Shaped, Shape
<1>4. OrigFits /\ TokensFit /\ FinalizerFits
  BY DEF Library!Init, OrigFits, TokensFit, FinalizerFits, Library!Onces
<1>5. Library!TypeOK
  BY <1>2 DEF Library!Init, Library!TypeOK, Library!Images, Library!Onces
<1> QED BY <1>3, <1>4, <1>5 DEF LibraryInv

LEMMA LibraryInvariant ==
  ASSUME Library!SystemsAssumption
  PROVE  MCSpec => []LibraryInv /\ [][HooksKept]_library
<1>1. MCInit => LibraryInv
  BY LibraryStarts DEF MCInit
<1>2. [MCNext]_<<part, vars, library>> => [Library!Next]_(Library!vars)
  BY DEF MCNext, library, Library!vars, Library!process
<1>3. LibraryInv /\ [Library!Next]_(Library!vars) => LibraryInv' /\ HooksKept
  BY LibraryKept
<1> QED BY <1>1, <1>2, <1>3, PTL DEF MCSpec

(* The types of the library, for every set of systems and clients.         *)
THEOREM LibraryTypes ==
  ASSUME Library!SystemsAssumption
  PROVE  MCSpec => []Library!TypeOK
<1>1. LibraryInv => Library!TypeOK
  BY DEF LibraryInv
<1> QED BY <1>1, LibraryInvariant, PTL

(* Whichever threads come first and in whatever order the images arrive,   *)
(* the engine serves no trust daemon and no process whose Security lacks a *)
(* required entry point (kDeny and origs_ready, aquatransport_hooks_mac.c).*)
THEOREM ServesWhereWanted ==
  ASSUME Library!SystemsAssumption
  PROVE  MCSpec => []EngineWhereWanted
<1>1. LibraryInv => EngineWhereWanted
  <2> SUFFICES ASSUME LibraryInv, NEW t \in Threads, Library!Inside(t, "serve") \/ Library!Inside(t, "evaluating")
               PROVE  ~system.denied /\ Library!Ssl \ Library!Optional \subseteq system.has
    BY DEF EngineWhereWanted, Library!EngineWhereWanted
  <2>1. stack[t] # <<>> /\ Library!Top(t).at \in Served
    BY DEF Library!Inside, Served
  <2> QED BY <2>1, TopFacts DEF Stands, Wanted
<1> QED BY <1>1, LibraryInvariant, PTL

(* Every hook that goes on to the original goes on to the system's own     *)
(* function, and the replaced destructor has its original.                 *)
THEOREM OriginalsAreReal ==
  ASSUME Library!SystemsAssumption
  PROVE  MCSpec => []OriginalIsReal
<1>1. LibraryInv => OriginalIsReal
  BY OriginalReal DEF OriginalIsReal, Library!OriginalIsReal, LibraryInv, FinalizerFits
<1> QED BY <1>1, LibraryInvariant, PTL

(* tf_reentrant is up on a thread exactly while it is in Security's        *)
(* evaluation, which never runs inside another: a hook entered from there  *)
(* finds the guard and goes to the system.                                 *)
THEOREM GuardIsExact ==
  ASSUME Library!SystemsAssumption
  PROVE  MCSpec => []GuardExact
<1>1. LibraryInv => GuardExact
  <2> SUFFICES ASSUME LibraryInv, NEW t \in Threads
               PROVE  LET inside == {k \in 1..Len(stack[t]) : stack[t][k].at = "evaluating"}
                      IN  guard[t] = (inside # {}) /\ inside \subseteq {1}
    BY DEF GuardExact, Library!GuardExact
  <2>1. Shape(stack[t], guard[t]) /\ guard[t] \in BOOLEAN
    BY DEF LibraryInv, Shaped, Library!TypeOK
  <2>2. ASSUME NEW k \in 1..Len(stack[t]), stack[t][k].at = "evaluating" PROVE k = 1
    BY <2>1, <2>2 DEF Shape, Served
  <2> DEFINE inside == {k \in 1..Len(stack[t]) : stack[t][k].at = "evaluating"}
  <2>3. inside \subseteq {1}
    BY <2>2
  <2>4. 1 \in inside <=> Len(stack[t]) > 0 /\ stack[t][1].at = "evaluating"
    BY <2>1 DEF Shape
  <2>5. inside # {} <=> guard[t]
    BY <2>1, <2>3, <2>4 DEF Shape
  <2> QED BY <2>1, <2>3, <2>5
<1> QED BY <1>1, LibraryInvariant, PTL

(* An import slot once rebound stays so, whatever the hooks call: no       *)
(* captured lazy stub is called while there is an original                 *)
(* (aquatransport_rewrite.c:320).                                          *)
THEOREM HooksAreKept ==
  ASSUME Library!SystemsAssumption
  PROVE  MCSpec => HooksStay
<1>1. [HooksKept]_library =>
        [\A i \in Library!Images, s \in Library!Symbols : slot[i][s] = "hook" => slot'[i][s] = "hook"]_library
  BY DEF HooksKept
<1> QED BY <1>1, LibraryInvariant, PTL DEF HooksStay
=============================================================================

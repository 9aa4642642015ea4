----------------------------- MODULE MCLoading -----------------------------
(***************************************************************************)
(* How the library and its two Foundation modules come into a process, on  *)
(* small instances.  A behaviour uses one of the two, and the other rests  *)
(* as it begins.                                                           *)
(***************************************************************************)
EXTENDS Adapters, Sequences

CONSTANTS Clients, Systems
VARIABLES part, system, listed, phase, images, registered, slot, captured, orig, tokens, result,
          class, guard, stack

Library == INSTANCE Loading WITH loaded <- images, once <- tokens
ASSUME Library!SystemsAssumption

library == <<system, listed, phase, images, registered, slot, captured, orig, tokens, result,
             class, guard, stack>>

(* A complete system, one before 10.8 (no SSLCreateContext and no class),  *)
(* one whose Security lacks a required entry point, one whose class record *)
(* is not as expected, one where OpenSSL cannot be set up, and a trust     *)
(* daemon.                                                                 *)
Whole == {"SSLCreateContext", "SSLHandshake", "SSLRead", "SecTrustSetAnchorCertificates",
          "CFURLRequestCreateMutableCopy"}
Modern == [denied |-> FALSE, has |-> Whole, class |-> "usable", boots |-> TRUE]
MCSystems ==
  {Modern,
   [Modern EXCEPT !.denied = TRUE],
   [Modern EXCEPT !.boots = FALSE, !.class = "readonly"],
   [Modern EXCEPT !.has = Whole \ {"SSLCreateContext"}, !.class = "absent"],
   [Modern EXCEPT !.has = Whole \ {"SSLRead"}, !.class = "unexpected"]}

MCInit ==
  /\ part \in {"adapters", "library"}
  /\ part = "adapters" => system = Modern /\ listed = FALSE /\ images = Clients
  /\ part = "library" => /\ off = [m \in Modules |-> FALSE] /\ files = {}
                        /\ foundation = FALSE /\ geo = "absent"
  /\ Library!Init /\ Init
MCNext ==
  /\ UNCHANGED part
  /\ \/ part = "adapters" /\ Next /\ UNCHANGED library
     \/ part = "library" /\ Library!Next /\ UNCHANGED vars
MCSpec == MCInit /\ [][MCNext]_<<part, vars, library>> /\ Library!Fairness

(* The engine serves no trust daemon and no process whose Security lacks   *)
(* an entry point.                                                         *)
EngineWhereWanted == Library!EngineWhereWanted

(* Whatever hook is entered first calls the system's own function.         *)
OriginalIsReal == Library!OriginalIsReal

(* The guard is up exactly while the thread is in Security's evaluation.   *)
GuardExact == Library!GuardExact

(* A slot once rebound stays so.                                           *)
HooksStay ==
  [][\A i \in Library!Images, s \in Library!Symbols :
       slot[i][s] = "hook" => slot'[i][s] = "hook"]_library

(* Every hooked call comes back.                                           *)
CallsReturn == \A t \in Threads : stack[t] # <<>> ~> stack[t] = <<>>
=============================================================================

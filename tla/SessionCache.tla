---------------------------- MODULE SessionCache ---------------------------
(***************************************************************************)
(* The client session cache: gSess, sess_get, sess_put and new_session_cb  *)
(* (aquatransport_engine.c), and the connections that fill it and resume   *)
(* from it.                                                                *)
(*                                                                         *)
(* Each connection runs on a thread of its own, so a lookup, a store and   *)
(* the release of what a store displaced interleave with those of the      *)
(* others; only the two scans run under gSessLock.  A session is a model   *)
(* value with OpenSSL's reference count and a note of the handshake it     *)
(* came from.  OpenSSL, the peer and the application's own check of the    *)
(* peer are the environment.                                               *)
(*                                                                         *)
(* A caller names the endpoint with SSLSetPeerID before it handshakes.     *)
(***************************************************************************)
EXTENDS Integers, FiniteSets

CONSTANTS
  Conns,     \* connections, each driven by one thread
  Keys,      \* peer ids: byte strings, so sequences; they name the endpoint
  Sessions,  \* SSL_SESSION objects
  NoKey, NoSess,
  MAXSESS,   \* slots of gSess
  MaxTicks   \* bound: how often the cache is used

SessionCacheAssumption ==
  /\ IsFiniteSet(Conns) /\ NoKey \notin Keys /\ NoSess \notin Sessions
  /\ MAXSESS \in Nat \ {0} /\ MaxTicks \in Nat

VARIABLES
  gSess,      \* gSess: the slots
  gSessClock,
  peerID, clientX509, clientBypass,  \* Shadow's fields of those names
  check,      \* who checks the peer: "engine", "app" (breakAuth) or "none" (noCertVerify)
  approved,   \* Shadow.approved
  phase,      \* where the connection is
  held,       \* the SSL object's session
  cached,     \* ossl_init's local: the session looked up, until it is set
  drop,       \* sess_put's local: the session displaced, until it is freed
  tls,        \* the version negotiated
  refs,       \* OpenSSL's count of each session
  made,       \* history: the handshake each session came from
  vetted      \* history: who has checked this connection's peer

conn  == <<peerID, clientX509, clientBypass, check, approved, phase, held, cached, drop, tls, vetted>>
vars  == <<gSess, gSessClock, conn, refs, made>>

Slots  == 1..MAXSESS
Checks == {"engine", "app", "none"}
Vetted == {"nobody", "engine", "app", "waived"}
NotMade == [peer |-> NoKey, ident |-> FALSE, by |-> "nobody"]
Empty == [key |-> NoKey, sess |-> NoSess, lastUse |-> 0]

Init ==
  /\ gSess = [i \in Slots |-> Empty] /\ gSessClock = 0
  /\ peerID = [c \in Conns |-> NoKey]
  /\ clientX509 = [c \in Conns |-> FALSE] /\ clientBypass = [c \in Conns |-> FALSE]
  /\ check = [c \in Conns |-> "engine"]
  /\ approved = [c \in Conns |-> FALSE]
  /\ phase = [c \in Conns |-> "new"]
  /\ held = [c \in Conns |-> NoSess]
  /\ cached = [c \in Conns |-> NoSess] /\ drop = [c \in Conns |-> NoSess]
  /\ tls = [c \in Conns |-> "none"]
  /\ refs = [s \in Sessions |-> 0]
  /\ made = [s \in Sessions |-> NotMade]
  /\ vetted = [c \in Conns |-> "nobody"]

(* SSL_SESSION_free, and SSL_free of an object that holds one.             *)
Gone(s) == s # NoSess /\ refs[s] = 1
Unref(s) ==
  IF s = NoSess THEN UNCHANGED <<refs, made>>
  ELSE /\ refs' = [refs EXCEPT ![s] = @ - 1]
       /\ made' = IF Gone(s) THEN [made EXCEPT ![s] = NotMade] ELSE made

(* A thread in the middle of a lookup or a store does that first.          *)
Free(c) == cached[c] = NoSess /\ drop[c] = NoSess /\ phase[c] # "init"

-----------------------------------------------------------------------------
(* The setters.  A late peer name or certificate throws the SSL object     *)
(* away; the next SSLHandshake makes another.                              *)
HasSSL(c) == phase[c] \in {"handshake", "paused", "up"}
Reinit(c) ==
  /\ phase' = [phase EXCEPT ![c] = IF HasSSL(c) THEN "new" ELSE @]
  /\ held' = [held EXCEPT ![c] = NoSess]
  /\ tls' = [tls EXCEPT ![c] = "none"]
  /\ vetted' = [vetted EXCEPT ![c] = "nobody"]
  /\ Unref(held[c])

SSLSetPeerID(c, k) ==
  /\ Free(c) /\ phase[c] = "new" /\ peerID[c] # k
  /\ peerID' = [peerID EXCEPT ![c] = k]
  /\ UNCHANGED <<gSess, gSessClock, clientX509, clientBypass, check, approved, phase, held, cached, drop, tls, refs, made, vetted>>

SSLSetPeerDomainName(c) ==
  /\ Free(c) /\ HasSSL(c)
  /\ Reinit(c)
  /\ UNCHANGED <<gSess, gSessClock, peerID, clientX509, clientBypass, check, approved, cached, drop>>

(* usable is whether capture_identity can use the identity; if it cannot,  *)
(* the system stack takes the connection, and an earlier identity stays.   *)
SSLSetCertificate_no_reinit(c, usable) ==
  /\ Free(c)
  /\ clientX509' = [clientX509 EXCEPT ![c] = @ \/ usable]
  /\ clientBypass' = [clientBypass EXCEPT ![c] = ~usable]
  /\ UNCHANGED <<gSess, gSessClock, peerID, check, approved, phase, held, cached, drop, tls, refs, made, vetted>>
SSLSetCertificate(c, usable) ==
  /\ Free(c)
  /\ clientX509' = [clientX509 EXCEPT ![c] = @ \/ usable]
  /\ clientBypass' = [clientBypass EXCEPT ![c] = ~usable]
  /\ Reinit(c)
  /\ UNCHANGED <<gSess, gSessClock, peerID, check, approved, cached, drop>>

(* kSSLSessionOptionBreakOnServerAuth or SSLSetEnableCertVerify, before    *)
(* the handshake.                                                          *)
SetCheck(c, h) ==
  /\ Free(c) /\ phase[c] = "new" /\ check[c] # h
  /\ check' = [check EXCEPT ![c] = h]
  /\ UNCHANGED <<gSess, gSessClock, peerID, clientX509, clientBypass, approved, phase, held, cached, drop, tls, refs, made, vetted>>

-----------------------------------------------------------------------------
(* The cache.                                                              *)

key_eq(a, b) == a = b

Holds(i, k) == gSess[i].sess # NoSess /\ key_eq(gSess[i].key, k)
FirstOf(S) == CHOOSE i \in S : \A j \in S : i <= j
Hits(k) == {i \in Slots : Holds(i, k)}
FreeSlots == {i \in Slots : gSess[i].sess = NoSess}
LeastRecent == {i \in Slots : \A j \in Slots : gSess[i].lastUse <= gSess[j].lastUse}

Tick == gSessClock < MaxTicks /\ gSessClock' = gSessClock + 1

UpRef_forgotten(s) == UNCHANGED refs
UpRef(s) == refs' = [refs EXCEPT ![s] = @ + 1]

(* A hit is stamped and answered with a reference of the caller's own.     *)
StampHit(i) ==
  /\ Tick
  /\ gSess' = [gSess EXCEPT ![i].lastUse = gSessClock']

sess_get(c) ==
  LET hits == Hits(peerID[c]) IN
  IF hits = {} THEN cached' = cached /\ UNCHANGED <<gSess, gSessClock, refs>>
  ELSE LET i == FirstOf(hits) IN
       /\ StampHit(i)
       /\ UpRef(gSess[i].sess)
       /\ cached' = [cached EXCEPT ![c] = gSess[i].sess]

(* The slot with this key, or the first free one, or the least recent.     *)
PutSlot(k) ==
  IF Hits(k) # {} THEN FirstOf(Hits(k))
  ELSE IF FreeSlots # {} THEN FirstOf(FreeSlots) ELSE FirstOf(LeastRecent)

sess_put(c, s) ==
  LET i == PutSlot(peerID[c]) IN
  /\ Tick
  /\ gSess' = [gSess EXCEPT ![i] = [key |-> peerID[c], sess |-> s, lastUse |-> gSessClock']]
  /\ drop' = [drop EXCEPT ![c] = gSess[i].sess]

(* After the unlock, the displaced session is released.                    *)
sess_put_drop(c) ==
  /\ drop[c] # NoSess
  /\ Unref(drop[c])
  /\ drop' = [drop EXCEPT ![c] = NoSess]
  /\ UNCHANGED <<gSess, gSessClock, peerID, clientX509, clientBypass, check, approved, phase, held, cached, tls, vetted>>

-----------------------------------------------------------------------------
(* SSLHandshake on a context with no SSL object: ossl_init looks a session *)
(* up and then sets it.                                                    *)
Offers(c) == ~clientX509[c] /\ peerID[c] # NoKey

ossl_init(c) ==
  /\ Free(c) /\ phase[c] = "new" /\ ~clientBypass[c]
  /\ phase' = [phase EXCEPT ![c] = "init"]
  /\ IF Offers(c) THEN sess_get(c) ELSE UNCHANGED <<gSess, gSessClock, cached, refs>>
  /\ UNCHANGED <<peerID, clientX509, clientBypass, check, approved, held, drop, tls, made, vetted>>

(* SSL_set_session takes a reference and ossl_init gives its own up.       *)
SSL_set_session(c) ==
  /\ phase[c] = "init"
  /\ phase' = [phase EXCEPT ![c] = "handshake"]
  /\ held' = [held EXCEPT ![c] = cached[c]]
  /\ cached' = [cached EXCEPT ![c] = NoSess]
  /\ UNCHANGED <<gSess, gSessClock, peerID, clientX509, clientBypass, check, approved, drop, tls, refs, made, vetted>>

(* The server takes the session offered: no certificate is exchanged.      *)
Done(c) == phase' = [phase EXCEPT ![c] = IF check[c] = "app" /\ ~approved[c] THEN "paused" ELSE "up"]
Resumed(c) ==
  /\ phase[c] = "handshake" /\ held[c] # NoSess
  /\ Done(c)
  /\ \E v \in {"1.2", "1.3"} : tls' = [tls EXCEPT ![c] = v]
  /\ vetted' = [vetted EXCEPT ![c] = made[held[c]].by]
  /\ UNCHANGED <<gSess, gSessClock, peerID, clientX509, clientBypass, check, approved, held, cached, drop, refs, made>>

(* A full handshake.  verify_chain evaluates the chain unless the caller   *)
(* took the check on itself.  The session offered is let go.               *)
FullVetting(c) == IF check[c] = "engine" THEN "engine" ELSE IF check[c] = "none" THEN "waived" ELSE "nobody"
Full13(c) ==
  /\ phase[c] = "handshake"
  /\ Unref(held[c])
  /\ held' = [held EXCEPT ![c] = NoSess]
  /\ tls' = [tls EXCEPT ![c] = "1.3"]
  /\ vetted' = [vetted EXCEPT ![c] = FullVetting(c)]
  /\ Done(c)
  /\ UNCHANGED <<gSess, gSessClock, peerID, clientX509, clientBypass, check, approved, cached, drop>>

(* The session OpenSSL hands to new_session_cb: one reference for the SSL  *)
(* object, and one for the cache if the callback keeps it.                 *)
Keeps(c) == peerID[c] # NoKey /\ ~clientX509[c]

new_session_cb(c, s, by) ==
  /\ refs[s] = 0
  /\ held' = [held EXCEPT ![c] = s]
  /\ LET after == [refs EXCEPT ![s] = IF Keeps(c) THEN 2 ELSE 1]
         old == held[c]
     IN  /\ refs' = IF old = NoSess THEN after ELSE [after EXCEPT ![old] = @ - 1]
         /\ made' = [x \in Sessions |->
              IF x = s THEN [peer |-> peerID[c], ident |-> clientX509[c], by |-> by]
              ELSE IF x = old /\ Gone(old) THEN NotMade ELSE made[x]]
  /\ IF Keeps(c) THEN sess_put(c, s) ELSE UNCHANGED <<gSess, gSessClock, drop>>

(* TLS 1.2: the session comes inside the handshake, before a caller that   *)
(* checks the peer itself has seen the chain.                              *)
Full12(c, s) ==
  /\ phase[c] = "handshake"
  /\ new_session_cb(c, s, FullVetting(c))
  /\ tls' = [tls EXCEPT ![c] = "1.2"]
  /\ vetted' = [vetted EXCEPT ![c] = FullVetting(c)]
  /\ Done(c)
  /\ UNCHANGED <<peerID, clientX509, clientBypass, check, approved, cached>>

(* TLS 1.3: tickets come after the handshake, during SSL_read, each with   *)
(* a session of its own.                                                   *)
Ticket(c, s) ==
  /\ Free(c) /\ phase[c] = "up" /\ tls[c] = "1.3"
  /\ new_session_cb(c, s, vetted[c])
  /\ UNCHANGED <<peerID, clientX509, clientBypass, check, approved, phase, cached, tls, vetted>>

(* The application accepts the peer and calls SSLHandshake again.          *)
Approved(c) ==
  /\ Free(c) /\ phase[c] = "paused"
  /\ phase' = [phase EXCEPT ![c] = "up"]
  /\ approved' = [approved EXCEPT ![c] = TRUE]
  /\ vetted' = [vetted EXCEPT ![c] = "app"]
  /\ UNCHANGED <<gSess, gSessClock, peerID, clientX509, clientBypass, check, held, cached, drop, tls, refs, made>>

(* The connection ends, or fails verification, from wherever it is, and    *)
(* its place is taken by a new one.                                        *)
Close(c) ==
  /\ Free(c) /\ (phase[c] # "new" \/ clientX509[c] \/ clientBypass[c])
  /\ Unref(held[c])
  /\ held' = [held EXCEPT ![c] = NoSess]
  /\ phase' = [phase EXCEPT ![c] = "new"]
  /\ peerID' = [peerID EXCEPT ![c] = NoKey]
  /\ clientX509' = [clientX509 EXCEPT ![c] = FALSE] /\ clientBypass' = [clientBypass EXCEPT ![c] = FALSE]
  /\ check' = [check EXCEPT ![c] = "engine"] /\ approved' = [approved EXCEPT ![c] = FALSE]
  /\ tls' = [tls EXCEPT ![c] = "none"] /\ vetted' = [vetted EXCEPT ![c] = "nobody"]
  /\ UNCHANGED <<gSess, gSessClock, cached, drop>>

(* Which of the free objects OpenSSL makes a session of is immaterial.     *)
SSL_SESSION_new == LET free == {s \in Sessions : refs[s] = 0}
                   IN  IF free = {} THEN {} ELSE {CHOOSE s \in free : TRUE}

Next == \E c \in Conns :
  \/ \E k \in Keys \cup {NoKey} : SSLSetPeerID(c, k)
  \/ SSLSetPeerDomainName(c)
  \/ \E usable \in BOOLEAN : SSLSetCertificate(c, usable)
  \/ \E h \in Checks : SetCheck(c, h)
  \/ ossl_init(c) \/ SSL_set_session(c)
  \/ Resumed(c) \/ Full13(c)
  \/ \E s \in SSL_SESSION_new : Full12(c, s) \/ Ticket(c, s)
  \/ sess_put_drop(c) \/ Approved(c) \/ Close(c)

Spec == Init /\ [][Next]_vars

-----------------------------------------------------------------------------
(* Every variable has its type.                                            *)
TypeOK ==
  /\ gSess \in [Slots -> [key : Keys \cup {NoKey}, sess : Sessions \cup {NoSess}, lastUse : 0..MaxTicks]]
  /\ gSessClock \in 0..MaxTicks
  /\ peerID \in [Conns -> Keys \cup {NoKey}]
  /\ clientX509 \in [Conns -> BOOLEAN] /\ clientBypass \in [Conns -> BOOLEAN]
  /\ check \in [Conns -> Checks] /\ approved \in [Conns -> BOOLEAN]
  /\ phase \in [Conns -> {"new", "init", "handshake", "paused", "up"}]
  /\ held \in [Conns -> Sessions \cup {NoSess}]
  /\ cached \in [Conns -> Sessions \cup {NoSess}] /\ drop \in [Conns -> Sessions \cup {NoSess}]
  /\ tls \in [Conns -> {"none", "1.2", "1.3"}]
  /\ refs \in [Sessions -> Nat]
  /\ made \in [Sessions -> [peer : Keys \cup {NoKey}, ident : BOOLEAN, by : Vetted]]
  /\ vetted \in [Conns -> Vetted]

(* Every session is counted exactly once for each pointer to it: a slot,   *)
(* an SSL object, a lookup not yet set, a displaced session not yet freed. *)
(* So none is freed while one of them can still reach it, whatever another *)
(* thread stores meanwhile, and none leaks.                                *)
Holders(s) ==
  Cardinality({i \in Slots : gSess[i].sess = s}) + Cardinality({c \in Conns : held[c] = s})
    + Cardinality({c \in Conns : cached[c] = s}) + Cardinality({c \in Conns : drop[c] = s})
RefsExact == \A s \in Sessions : refs[s] = Holders(s)

RightEndpoint ==
  \A c \in Conns : \A s \in {held[c], cached[c]} \ {NoSess} : made[s].peer = peerID[c]
NoForeignIdentity ==
  /\ \A i \in Slots : gSess[i].sess # NoSess => ~made[gSess[i].sess].ident
  /\ \A c \in Conns : held[c] # NoSess => made[held[c]].ident = clientX509[c]

(* A connection offers and resumes only sessions made with the endpoint    *)
(* its own caller named; and "Connections carrying a client certificate    *)
(* are deliberately never cached or resumed" (the cache comment): whenever *)
(* the certificate was given, no session made with one is stored, and no   *)
(* connection that has one holds a session made without.                   *)
SessionFits == RightEndpoint /\ NoForeignIdentity

(* "a session only enters this cache after a handshake that already        *)
(* verified" (the cache comment), so that resuming "does not weaken        *)
(* validation" (docs/TECHNICAL.md): a connection whose caller left the     *)
(* check to the engine is up only if verify_chain accepted its peer, in    *)
(* this handshake or in the one that made the session it resumed.  The     *)
(* code keeps the sessions of other callers too (new_session_cb).          *)
EngineVerified ==
  \A c \in Conns : phase[c] = "up" /\ check[c] = "engine" => vetted[c] = "engine"
=============================================================================

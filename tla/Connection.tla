---------------------------- MODULE Connection -----------------------------
(***************************************************************************)
(* One connection, from its setters to the end of its handshake: the       *)
(* fields of its Shadow, the setters, my_SSLHandshake and the getters of   *)
(* aquatransport_hooks_mac.c, and ossl_init, verify_chain, client_cert_cb, *)
(* capture_identity and sh_build_trust of aquatransport_engine.c.          *)
(*                                                                         *)
(* A context is used from one thread at a time, so a hook runs to its end  *)
(* before the next; the steps inside SSL_do_handshake, where OpenSSL calls *)
(* back into the engine, are actions of their own.  Each SSL object meets  *)
(* one peer chain, numbered by the object.  Resumption is SessionCache's.  *)
(*                                                                         *)
(* The caller says before it handshakes whether it checks the server       *)
(* itself, as Secure Transport asks, and calls the other setters at any    *)
(* time.                                                                   *)
(***************************************************************************)
EXTENDS Integers

CONSTANTS
  Hosts, NoHost,
  Configs,         \* what the native context's protocol and cipher setters may choose
  LateApproved,    \* TRUE when a name or certificate may come after the application's approval
  MaxInit          \* bound: SSL objects per connection

ASSUME ConnectionAssumption ==
  /\ NoHost \notin Hosts /\ Configs # {}
  /\ LateApproved \in BOOLEAN /\ MaxInit \in Nat

VARIABLES
  serverSide,
  io,            \* which of "funcs" (rf, wf) and "conn" have been set
  host, breakAuth, noCertVerify, approved, clientBypass, serverBypass,
  clientX509,    \* TRUE when the shadow has an identity
  state,
  ssl,           \* the SSL object
  trust,         \* the cached SecTrust: whose chain, against which name
  config,        \* the native context's own configuration
  reported,      \* reportedProtocol and reportedCipher
  serverTls,     \* server_tls_enabled: flags and AirDrop
  pc,            \* "caller", or "ssl" inside SSL_do_handshake
  inits,         \* how many SSL objects there have been
  approvals      \* history: the chains the application was shown and came back from

options == <<breakAuth, noCertVerify, serverBypass>>
setup   == <<serverSide, io, options, config, serverTls>>
vars == <<setup, host, approved, clientBypass, clientX509, state, ssl, trust, reported, pc, inits, approvals>>

States == {"NEW", "HANDSHAKING", "CONNECTED", "PEER_AUTH", "FAILED"}
NoSSL == [gen |-> 0, checked |-> "no", sent |-> FALSE, done |-> FALSE]
NoTrust == [gen |-> 0, host |-> NoHost]
NoConfig == "none"

HasSSL == ssl # NoSSL     \* Shadow.inited

Init ==
  /\ serverSide \in BOOLEAN
  /\ io = {} /\ host = NoHost
  /\ breakAuth = FALSE /\ noCertVerify = FALSE /\ approved = FALSE
  /\ clientBypass = FALSE /\ serverBypass \in SUBSET {"datagram"} /\ clientX509 = FALSE
  /\ serverBypass # {} => serverSide
  /\ state = "NEW" /\ ssl = NoSSL /\ trust = NoTrust
  /\ config \in Configs /\ reported = NoConfig
  /\ serverTls \in BOOLEAN
  /\ pc = "caller" /\ inits = 0 /\ approvals = {}

-----------------------------------------------------------------------------
(* Setters.                                                                *)

SSLSetIO(part) ==
  /\ pc = "caller" /\ part \notin io
  /\ io' = io \cup {part}
  /\ UNCHANGED <<serverSide, options, config, serverTls, host, approved, clientBypass, clientX509, state, ssl, trust, reported, pc, inits, approvals>>

(* A late name or certificate frees the SSL object, so that the next       *)
(* SSLHandshake starts over; the trust cached from the old chain goes too. *)
Reinits == HasSSL /\ state # "FAILED"
Reinit_keeping_trust ==
  IF Reinits THEN ssl' = NoSSL /\ state' = "NEW" /\ trust' = trust
             ELSE UNCHANGED <<ssl, state, trust>>
Reinit ==
  IF Reinits THEN ssl' = NoSSL /\ state' = "NEW" /\ trust' = NoTrust
             ELSE UNCHANGED <<ssl, state, trust>>

MayReinit == pc = "caller" /\ (LateApproved \/ ~approved)

SSLSetPeerDomainName(h) ==
  /\ MayReinit
  /\ host' = h
  /\ Reinit
  /\ UNCHANGED <<setup, approved, clientBypass, clientX509, reported, pc, inits, approvals>>

(* capture_identity: an identity it can use replaces any earlier one; one  *)
(* it cannot use, or disable-mtls, gives the connection to the system      *)
(* stack and leaves the earlier one in place.  A server's is captured only *)
(* while server TLS is on.                                                 *)
capture_identity(usable) ==
  /\ clientX509' = (clientX509 \/ usable)
  /\ clientBypass' = ~usable

SSLSetCertificate_no_reinit(usable) ==
  /\ MayReinit
  /\ IF serverSide /\ ~serverTls THEN UNCHANGED <<clientX509, clientBypass>> ELSE capture_identity(usable)
  /\ UNCHANGED <<setup, host, approved, state, ssl, trust, reported, pc, inits, approvals>>
SSLSetCertificate(usable) ==
  /\ MayReinit
  /\ IF serverSide /\ ~serverTls THEN UNCHANGED <<clientX509, clientBypass>> ELSE capture_identity(usable)
  /\ Reinit
  /\ UNCHANGED <<setup, host, approved, reported, pc, inits, approvals>>

SetOptions == pc = "caller" /\ ~HasSSL /\ state = "NEW"

BreakOnServerAuth(val) ==
  /\ SetOptions /\ breakAuth # val
  /\ breakAuth' = val
  /\ UNCHANGED <<serverSide, io, noCertVerify, serverBypass, config, serverTls, host, approved, clientBypass, clientX509, state, ssl, trust, reported, pc, inits, approvals>>

(* Once o_SSLSetSessionOption accepts it, a break for the client's         *)
(* certificate keeps a server context on the system stack.                 *)
BreakOnClientAuth(val) ==
  /\ pc = "caller" /\ serverSide
  /\ serverBypass' = (serverBypass \ {"clientAuth"}) \cup (IF val THEN {"clientAuth"} ELSE {})
  /\ UNCHANGED <<serverSide, io, breakAuth, noCertVerify, config, serverTls, host, approved, clientBypass, clientX509, state, ssl, trust, reported, pc, inits, approvals>>

SSLSetEnableCertVerify(enable) ==
  /\ SetOptions
  /\ noCertVerify' = ~enable
  /\ UNCHANGED <<serverSide, io, breakAuth, serverBypass, config, serverTls, host, approved, clientBypass, clientX509, state, ssl, trust, reported, pc, inits, approvals>>

(* The caller's protocol and cipher setters reach the native context only. *)
Configure(k) ==
  /\ pc = "caller" /\ config # k
  /\ config' = k
  /\ UNCHANGED <<serverSide, io, options, serverTls, host, approved, clientBypass, clientX509, state, ssl, trust, reported, pc, inits, approvals>>

(* The flag files, and whether AirDrop is active, are read at each call.   *)
ToggleServerTls ==
  /\ pc = "caller" /\ serverSide
  /\ serverTls' = ~serverTls
  /\ UNCHANGED <<serverSide, io, options, config, host, approved, clientBypass, clientX509, state, ssl, trust, reported, pc, inits, approvals>>

-----------------------------------------------------------------------------
(* my_SSLHandshake.                                                        *)

(* Otherwise the native context handshakes, and nothing here changes.      *)
Ours_no_break ==
  /\ io = {"funcs", "conn"} /\ ~clientBypass
  /\ serverSide => serverTls /\ clientX509
  /\ state # "FAILED"
Ours ==
  /\ io = {"funcs", "conn"} /\ ~clientBypass
  /\ serverSide => serverTls /\ serverBypass = {} /\ clientX509
  /\ state # "FAILED"

(* The first call makes the SSL object, and freezes what the getters will  *)
(* say; a call on a paused connection is the application's approval.       *)
capture_reporting == reported' = IF HasSSL THEN reported ELSE config

SSLHandshake ==
  /\ pc = "caller" /\ Ours
  /\ capture_reporting
  /\ IF HasSSL
     THEN UNCHANGED <<ssl, state, inits>>
     ELSE /\ inits < MaxInit /\ inits' = inits + 1
          /\ ssl' = [NoSSL EXCEPT !.gen = inits']
          /\ state' = "HANDSHAKING"
  /\ IF state = "PEER_AUTH"
     THEN approved' = TRUE /\ approvals' = approvals \cup {ssl.gen}
     ELSE UNCHANGED <<approved, approvals>>
  /\ pc' = "ssl"
  /\ UNCHANGED <<setup, host, clientBypass, clientX509, trust>>

ossl_init_fails ==
  /\ pc = "caller" /\ Ours /\ ~HasSSL
  /\ capture_reporting
  /\ state' = "FAILED"
  /\ UNCHANGED <<setup, host, approved, clientBypass, clientX509, ssl, trust, pc, inits, approvals>>

(* Inside SSL_do_handshake.  The peer's chain arrives: left to the caller, *)
(* or evaluated, and a chain refused fails the handshake.                  *)
Checker ==
  IF ~serverSide /\ breakAuth THEN "app" ELSE IF noCertVerify THEN "caller" ELSE "engine"

verify_chain ==
  /\ pc = "ssl" /\ ssl.checked = "no" /\ ~ssl.done
  /\ ssl' = [ssl EXCEPT !.checked = Checker]
  /\ UNCHANGED <<setup, host, approved, clientBypass, clientX509, state, trust, reported, pc, inits, approvals>>

Pauses_never == FALSE
Pauses == ~serverSide /\ breakAuth /\ ~approved

(* A server asks for our certificate: suspended until the application has  *)
(* approved it, and then sent.                                             *)
client_cert_cb_suspends ==
  /\ pc = "ssl" /\ ssl.checked # "no"
  /\ clientX509 /\ ~ssl.sent /\ ~ssl.done /\ Pauses
  /\ state' = "PEER_AUTH" /\ pc' = "caller"
  /\ UNCHANGED <<setup, host, approved, clientBypass, clientX509, ssl, trust, reported, inits, approvals>>

client_cert_cb_sends_early ==
  /\ pc = "ssl" /\ ~serverSide /\ ssl.checked # "no"
  /\ clientX509 /\ ~ssl.sent
  /\ ssl' = [ssl EXCEPT !.sent = TRUE]
  /\ UNCHANGED <<setup, host, approved, clientBypass, clientX509, state, trust, reported, pc, inits, approvals>>
client_cert_cb_sends ==
  /\ pc = "ssl" /\ ~serverSide /\ ssl.checked # "no"
  /\ clientX509 /\ ~ssl.sent /\ ~ssl.done /\ ~Pauses
  /\ ssl' = [ssl EXCEPT !.sent = TRUE]
  /\ UNCHANGED <<setup, host, approved, clientBypass, clientX509, state, trust, reported, pc, inits, approvals>>

(* SSL_do_handshake returns: 1, from then on at once.  A client has no     *)
(* chain unchecked by then; a server may have asked for none.              *)
Finished(s) ==
  /\ pc = "ssl" /\ (ssl.checked # "no" \/ serverSide)
  /\ ssl' = [ssl EXCEPT !.done = TRUE]
  /\ state' = s /\ pc' = "caller"
  /\ UNCHANGED <<setup, host, approved, clientBypass, clientX509, trust, reported, inits, approvals>>

Connected == ~Pauses /\ Finished("CONNECTED")
Paused    == Pauses /\ Finished("PEER_AUTH")

WouldBlock ==
  /\ pc = "ssl" /\ ~ssl.done /\ pc' = "caller"
  /\ UNCHANGED <<setup, host, approved, clientBypass, clientX509, state, ssl, trust, reported, inits, approvals>>

HandshakeFails ==
  /\ pc = "ssl" /\ ~ssl.done
  /\ state' = "FAILED" /\ pc' = "caller"
  /\ UNCHANGED <<setup, host, approved, clientBypass, clientX509, ssl, trust, reported, inits, approvals>>

-----------------------------------------------------------------------------
(* SSLCopyPeerTrust: the trust cached, or one built of the chain and the   *)
(* peer name and kept; otherwise the native context is asked.              *)
sh_build_trust ==
  /\ pc = "caller" /\ state \in {"CONNECTED", "PEER_AUTH"}
  /\ trust = NoTrust /\ ssl.checked # "no"
  /\ trust' = [gen |-> ssl.gen, host |-> host]
  /\ UNCHANGED <<setup, host, approved, clientBypass, clientX509, state, ssl, reported, pc, inits, approvals>>

SetterCalls ==
  \/ \E part \in {"funcs", "conn"} : SSLSetIO(part)
  \/ \E h \in Hosts : SSLSetPeerDomainName(h)
  \/ \E usable \in BOOLEAN : SSLSetCertificate(usable)
  \/ \E val \in BOOLEAN : BreakOnServerAuth(val) \/ BreakOnClientAuth(val) \/ SSLSetEnableCertVerify(val)
  \/ \E k \in Configs : Configure(k)
  \/ ToggleServerTls

HandshakeSteps ==
  \/ SSLHandshake \/ ossl_init_fails
  \/ verify_chain \/ client_cert_cb_suspends \/ client_cert_cb_sends
  \/ Connected \/ Paused \/ WouldBlock \/ HandshakeFails

Next == SetterCalls \/ HandshakeSteps \/ sh_build_trust
Spec == Init /\ [][Next]_vars

-----------------------------------------------------------------------------
(* Every variable has its type.                                            *)
Made == Nat \ {0}
SSLs == [gen : Made, checked : {"no", "engine", "app", "caller"}, sent : BOOLEAN, done : BOOLEAN]
TypeOK ==
  /\ serverSide \in BOOLEAN /\ io \subseteq {"funcs", "conn"}
  /\ host \in Hosts \cup {NoHost}
  /\ breakAuth \in BOOLEAN /\ noCertVerify \in BOOLEAN /\ approved \in BOOLEAN
  /\ clientBypass \in BOOLEAN /\ clientX509 \in BOOLEAN
  /\ serverBypass \subseteq {"clientAuth", "datagram"}
  /\ state \in States
  /\ ssl \in SSLs \cup {NoSSL}
  /\ trust \in [gen : Made, host : Hosts \cup {NoHost}] \cup {NoTrust}
  /\ config \in Configs /\ reported \in Configs \cup {NoConfig}
  /\ serverTls \in BOOLEAN
  /\ pc \in {"caller", "ssl"} /\ inits \in Nat
  /\ approvals \subseteq Made

(* In every state in which a hook dereferences s->ssl there is one, and    *)
(* where the getters read the peer's chain, a client has received one:     *)
(* through late re-initialisations, pauses and failures.                   *)
SslWhereUsed ==
  /\ state \in {"HANDSHAKING", "CONNECTED", "PEER_AUTH"} \/ pc = "ssl" => HasSSL
  /\ state \in {"CONNECTED", "PEER_AUTH"} /\ ~serverSide => ssl.checked # "no"

(* The trust SSLCopyPeerTrust hands out is of this SSL object's chain      *)
(* against the peer name in force, although it is built once and kept.     *)
TrustIsCurrent ==
  state \in {"CONNECTED", "PEER_AUTH"} /\ trust # NoTrust =>
    trust.gen = ssl.gen /\ trust.host = host

(* A client is connected only to a peer somebody checked: the engine in    *)
(* this handshake, the caller who disabled the check, or the application,  *)
(* which was shown this handshake's own chain and came back.               *)
PeerChecked ==
  state = "CONNECTED" /\ ~serverSide /\ ssl.checked = "app" => ssl.gen \in approvals

(* The identity goes to a server only after the application, when it asked *)
(* to decide, has approved that server ("mutual TLS + pinning").           *)
IdentityAfterApproval ==
  ssl.sent /\ ssl.checked = "app" => ssl.gen \in approvals

(* What the protocol and cipher getters say is fixed when the handshake    *)
(* starts and does not change under the caller, whatever it then asks of   *)
(* the native context.                                                     *)
ReportingFrozen == [][HasSSL /\ ssl' = ssl => reported' = reported]_vars

(* "never silently omit the application's check": the engine completes no  *)
(* server handshake whose application asked, before it or in the middle of *)
(* it, to break on the client's certificate, nor one on a datagram context.*)
ClientAuthKept == [][serverSide /\ state # "CONNECTED" /\ state' = "CONNECTED" => serverBypass = {}]_vars

(* A failed connection is the system stack's: no later call brings the     *)
(* engine back to it.                                                      *)
FailedIsFinal == [][state = "FAILED" => state' = "FAILED"]_vars
=============================================================================

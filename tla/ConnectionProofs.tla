-------------------------- MODULE ConnectionProofs --------------------------
(***************************************************************************)
(* Proofs about Connection and the two caches a handshake consults, for    *)
(* every set of names, configurations, questions and sessions, and any     *)
(* number of SSL objects, threads and slots.                               *)
(*                                                                         *)
(* Connection.  What the properties leave out, and the induction needs:    *)
(* that the engine's own callbacks run on a connection that has not failed *)
(* and that no setter has taken from it (InCall), that a trust is dropped  *)
(* with its SSL object (TrustOfSsl), and that the application decides      *)
(* about a chain exactly where it asked to (AppDecides).                   *)
(*                                                                         *)
(* The caches.  With a clock that only goes forward, an accepted chain     *)
(* rides on what Security itself accepted, no longer ago than the time to  *)
(* live.  A session has a reference for each pointer to it, and is resumed *)
(* only where it fits.                                                     *)
(***************************************************************************)
EXTENDS MCConnection, RegistryProofs

InCall ==
  pc = "ssl" =>
    /\ state # "FAILED"
    /\ serverSide => serverBypass = {}

TrustOfSsl ==
  trust # NoTrust =>
    /\ HasSSL /\ trust.gen = ssl.gen
    /\ state # "FAILED" => trust.host = host

AppDecides ==
  /\ ssl.checked = "app" => ~serverSide /\ breakAuth
  /\ ssl.sent => ssl.checked # "no"

(* Holds of every connection. *)
IInv == TypeOK /\ SslWhereUsed /\ InCall /\ TrustOfSsl /\ AppDecides

(* Holds where no name or certificate comes after the approval: the        *)
(* approval is then of the chain of the SSL object there is.               *)
ApprovalIsOfSsl == approved => HasSSL /\ ssl.gen \in approvals
JInv == IInv /\ ApprovalIsOfSsl /\ PeerChecked /\ IdentityAfterApproval

-----------------------------------------------------------------------------
LEMMA InitIInv == Init => IInv
<1> SUFFICES ASSUME Init PROVE IInv
  OBVIOUS
<1>1. TypeOK
  BY DEF Init, TypeOK, States, NoSSL, NoTrust, NoConfig
<1>2. SslWhereUsed /\ InCall /\ TrustOfSsl /\ AppDecides
  BY DEF Init, SslWhereUsed, InCall, TrustOfSsl, AppDecides, NoSSL, NoTrust
<1> QED
  BY <1>1, <1>2 DEF IInv

(* An SSL object stays one whatever field of it changes. *)
LEMMA SslFields ==
  ASSUME TypeOK, HasSSL
  PROVE  /\ ssl \in SSLs
         /\ \A s \in SSLs : s # NoSSL
BY DEF TypeOK, HasSSL, SSLs, NoSSL, Made

(* A late name or certificate. *)
LEMMA ReinitIInv ==
  ASSUME IInv, pc = "caller", Reinit,
         UNCHANGED <<setup, approved, reported, pc, inits, approvals>>,
         host' \in Hosts \cup {NoHost},
         clientBypass' \in BOOLEAN, clientX509' \in BOOLEAN
  PROVE  IInv'
<1> USE DEF IInv, setup, options
<1>1. TypeOK'
  BY DEF TypeOK, Reinit, Reinits, States
<1>2. SslWhereUsed'
  BY DEF SslWhereUsed, Reinit, Reinits, HasSSL
<1>3. InCall'
  BY DEF InCall
<1>4. TrustOfSsl'
  BY DEF TrustOfSsl, Reinit, Reinits, HasSSL
<1>5. AppDecides'
  BY DEF AppDecides, Reinit, Reinits, NoSSL
<1> QED
  BY <1>1, <1>2, <1>3, <1>4, <1>5

LEMMA SettersIInv == IInv /\ SetterCalls => IInv'
<1> SUFFICES ASSUME IInv, SetterCalls PROVE IInv'
  OBVIOUS
<1> USE DEF IInv, setup, options
<1>1. ASSUME NEW half \in {"funcs", "conn"}, SSLSetIO(half) PROVE IInv'
  <2>1. io' \subseteq {"funcs", "conn"}
    BY <1>1 DEF SSLSetIO, TypeOK
  <2>2. TypeOK'
    BY <1>1, <2>1 DEF SSLSetIO, TypeOK
  <2> QED BY <1>1, <2>2 DEF SSLSetIO, SslWhereUsed, InCall, TrustOfSsl, AppDecides, HasSSL
<1>2. ASSUME NEW h \in Hosts, SSLSetPeerDomainName(h) PROVE IInv'
  BY <1>2, ReinitIInv DEF SSLSetPeerDomainName, MayReinit, TypeOK
<1>3. ASSUME NEW usable \in BOOLEAN, SSLSetCertificate(usable) PROVE IInv'
  <2>1. clientBypass' \in BOOLEAN /\ clientX509' \in BOOLEAN
    BY <1>3 DEF SSLSetCertificate, capture_identity, TypeOK
  <2> QED
    BY <1>3, <2>1, ReinitIInv DEF SSLSetCertificate, MayReinit, TypeOK
<1>4. ASSUME NEW val \in BOOLEAN, BreakOnServerAuth(val) PROVE IInv'
  <2>1. TypeOK' /\ SslWhereUsed' /\ InCall' /\ TrustOfSsl'
    BY <1>4 DEF BreakOnServerAuth, TypeOK, SslWhereUsed, InCall, TrustOfSsl, HasSSL
  <2>2. AppDecides'
    BY <1>4 DEF BreakOnServerAuth, SetOptions, AppDecides, HasSSL, NoSSL
  <2> QED
    BY <2>1, <2>2
<1>5. ASSUME NEW val \in BOOLEAN, BreakOnClientAuth(val) PROVE IInv'
  BY <1>5 DEF BreakOnClientAuth, TypeOK, SslWhereUsed, InCall, TrustOfSsl, AppDecides, HasSSL
<1>6. ASSUME NEW val \in BOOLEAN, SSLSetEnableCertVerify(val) PROVE IInv'
  BY <1>6 DEF SSLSetEnableCertVerify, TypeOK, SslWhereUsed, InCall, TrustOfSsl, AppDecides, HasSSL
<1>7. ASSUME NEW k \in Configs, Configure(k) PROVE IInv'
  BY <1>7 DEF Configure, TypeOK, SslWhereUsed, InCall, TrustOfSsl, AppDecides, HasSSL
<1>8. ASSUME ToggleServerTls PROVE IInv'
  BY <1>8 DEF ToggleServerTls, TypeOK, SslWhereUsed, InCall, TrustOfSsl, AppDecides, HasSSL
<1> QED
  BY <1>1, <1>2, <1>3, <1>4, <1>5, <1>6, <1>7, <1>8 DEF SetterCalls

LEMMA HandshakeIInv == IInv /\ HandshakeSteps => IInv'
<1> SUFFICES ASSUME IInv, HandshakeSteps PROVE IInv'
  OBVIOUS
<1> USE DEF IInv, setup, options
<1>1. CASE SSLHandshake
  <2>1. TypeOK'
    <3>1. ssl' \in SSLs \cup {NoSSL} /\ inits' \in Nat /\ state' \in States
      <4>1. CASE HasSSL
        BY <1>1, <4>1 DEF SSLHandshake, TypeOK
      <4>2. CASE ~HasSSL
        <5>1. inits' \in Made /\ state' = "HANDSHAKING" /\ ssl' = [NoSSL EXCEPT !.gen = inits']
          BY <1>1, <4>2 DEF SSLHandshake, TypeOK, Made
        <5> QED
          BY <5>1 DEF SSLs, NoSSL, States, Made
      <4> QED
        BY <4>1, <4>2
    <3>2. approved' \in BOOLEAN /\ approvals' \subseteq Made
      <4>1. state = "PEER_AUTH" => ssl.gen \in Made
        BY SslFields DEF SslWhereUsed, SSLs
      <4> QED
        BY <1>1, <4>1 DEF SSLHandshake, TypeOK
    <3>3. reported' \in Configs \cup {NoConfig}
      BY <1>1 DEF SSLHandshake, capture_reporting, TypeOK
    <3> QED
      BY <1>1, <3>1, <3>2, <3>3 DEF SSLHandshake, TypeOK
  <2>2. HasSSL'
    BY <1>1 DEF SSLHandshake, HasSSL, NoSSL, TypeOK
  <2>3. SslWhereUsed'
    BY <1>1, <2>2 DEF SSLHandshake, SslWhereUsed
  <2>4. InCall'
    BY <1>1 DEF SSLHandshake, Ours, InCall
  <2>5. TrustOfSsl'
    BY <1>1, <2>2 DEF SSLHandshake, Ours, TrustOfSsl
  <2>6. AppDecides'
    BY <1>1 DEF SSLHandshake, AppDecides, NoSSL
  <2> QED
    BY <2>1, <2>3, <2>4, <2>5, <2>6
<1>2. CASE ossl_init_fails
  BY <1>2 DEF ossl_init_fails, capture_reporting, TypeOK, States, SslWhereUsed, InCall, TrustOfSsl, AppDecides, HasSSL
<1>3. CASE verify_chain
  <2>1. HasSSL /\ ssl \in SSLs
    BY <1>3, SslFields DEF verify_chain, SslWhereUsed
  <2>2. ssl' \in SSLs /\ ssl'.gen = ssl.gen /\ ssl'.checked = Checker /\ ssl'.sent = ssl.sent
    BY <1>3, <2>1 DEF verify_chain, SSLs, Checker
  <2>3. HasSSL'
    BY <2>1, <2>2, SslFields DEF HasSSL, NoSSL
  <2>4. TypeOK'
    BY <1>3, <2>2 DEF verify_chain, TypeOK
  <2>5. SslWhereUsed' /\ InCall' /\ TrustOfSsl'
    BY <1>3, <2>2, <2>3 DEF verify_chain, Checker, SslWhereUsed, InCall, TrustOfSsl
  <2>6. AppDecides'
    BY <1>3, <2>2 DEF verify_chain, Checker, AppDecides
  <2> QED
    BY <2>4, <2>5, <2>6
<1>4. CASE client_cert_cb_suspends
  BY <1>4 DEF client_cert_cb_suspends, TypeOK, States, SslWhereUsed, InCall, TrustOfSsl, AppDecides, HasSSL
<1>5. CASE client_cert_cb_sends
  <2>1. HasSSL /\ ssl \in SSLs
    BY <1>5, SslFields DEF client_cert_cb_sends, SslWhereUsed
  <2>2. ssl' \in SSLs /\ ssl'.gen = ssl.gen /\ ssl'.checked = ssl.checked
    BY <1>5, <2>1 DEF client_cert_cb_sends, SSLs
  <2>3. HasSSL'
    BY <2>1, <2>2, SslFields DEF HasSSL, NoSSL
  <2>4. TypeOK'
    BY <1>5, <2>2 DEF client_cert_cb_sends, TypeOK
  <2>5. SslWhereUsed' /\ InCall' /\ TrustOfSsl' /\ AppDecides'
    BY <1>5, <2>2, <2>3 DEF client_cert_cb_sends, SslWhereUsed, InCall, TrustOfSsl, AppDecides
  <2> QED
    BY <2>4, <2>5
<1>6. ASSUME NEW s \in {"CONNECTED", "PEER_AUTH"}, Finished(s) PROVE IInv'
  <2>1. HasSSL /\ ssl \in SSLs
    BY <1>6, SslFields DEF Finished, SslWhereUsed
  <2>2. ssl' \in SSLs /\ ssl'.gen = ssl.gen /\ ssl'.checked = ssl.checked /\ ssl'.sent = ssl.sent
    BY <1>6, <2>1 DEF Finished, SSLs
  <2>3. HasSSL'
    BY <2>1, <2>2, SslFields DEF HasSSL, NoSSL
  <2>4. TypeOK'
    BY <1>6, <2>2 DEF Finished, TypeOK, States
  <2>5. SslWhereUsed' /\ InCall' /\ AppDecides'
    BY <1>6, <2>2, <2>3 DEF Finished, SslWhereUsed, InCall, AppDecides
  <2>6. TrustOfSsl'
    BY <1>6, <2>2, <2>3 DEF Finished, InCall, TrustOfSsl
  <2> QED
    BY <2>4, <2>5, <2>6
<1>7. CASE Connected \/ Paused
  BY <1>6, <1>7 DEF Connected, Paused
<1>8. CASE WouldBlock
  BY <1>8 DEF WouldBlock, TypeOK, SslWhereUsed, InCall, TrustOfSsl, AppDecides, HasSSL
<1>9. CASE HandshakeFails
  BY <1>9 DEF HandshakeFails, TypeOK, States, SslWhereUsed, InCall, TrustOfSsl, AppDecides, HasSSL
<1> QED
  BY <1>1, <1>2, <1>3, <1>4, <1>5, <1>7, <1>8, <1>9 DEF HandshakeSteps

LEMMA StepIInv == IInv /\ [Next]_vars => IInv'
<1> SUFFICES ASSUME IInv, [Next]_vars PROVE IInv'
  OBVIOUS
<1>1. CASE SetterCalls
  BY <1>1, SettersIInv
<1>2. CASE HandshakeSteps
  BY <1>2, HandshakeIInv
<1>3. CASE sh_build_trust
  <2>1. HasSSL /\ ssl \in SSLs
    BY <1>3, SslFields DEF IInv, sh_build_trust, SslWhereUsed
  <2>2. TypeOK'
    BY <1>3, <2>1 DEF IInv, sh_build_trust, TypeOK, SSLs, setup, options
  <2>3. SslWhereUsed' /\ InCall' /\ TrustOfSsl' /\ AppDecides'
    BY <1>3, <2>1 DEF IInv, sh_build_trust, SslWhereUsed, InCall, TrustOfSsl, AppDecides, HasSSL, setup, options
  <2> QED
    BY <2>2, <2>3 DEF IInv
<1>4. CASE UNCHANGED vars
  BY <1>4 DEF IInv, TypeOK, SslWhereUsed, InCall, TrustOfSsl, AppDecides, HasSSL, vars, setup, options
<1> QED
  BY <1>1, <1>2, <1>3, <1>4 DEF Next

LEMMA Invariance == Spec => []IInv
<1> QED
  BY InitIInv, StepIInv, PTL DEF Spec

-----------------------------------------------------------------------------
(* The approval.                                                           *)

LEMMA StepJInv ==
  ASSUME ~LateApproved, JInv, [Next]_vars
  PROVE  JInv'
<1> USE DEF JInv, setup, options
<1>0. IInv'
  BY StepIInv
<1>1. CASE SetterCalls
  <2>1. ASSUME approved PROVE UNCHANGED <<ssl, approved, approvals, state>>
    BY <1>1, <2>1 DEF SetterCalls, SSLSetIO, SSLSetPeerDomainName, SSLSetCertificate, MayReinit,
      BreakOnServerAuth, BreakOnClientAuth, SSLSetEnableCertVerify, Configure, ToggleServerTls
  <2>2. /\ UNCHANGED <<approved, approvals, serverSide>>
        /\ UNCHANGED <<ssl, state>> \/ (ssl' = NoSSL /\ state' = "NEW")
    BY <1>1 DEF SetterCalls, SSLSetIO, SSLSetPeerDomainName, SSLSetCertificate, Reinit,
      BreakOnServerAuth, BreakOnClientAuth, SSLSetEnableCertVerify, Configure, ToggleServerTls
  <2>3. ApprovalIsOfSsl'
    BY <2>1, <2>2 DEF ApprovalIsOfSsl, HasSSL
  <2>4. PeerChecked' /\ IdentityAfterApproval'
    BY <2>2 DEF PeerChecked, IdentityAfterApproval, NoSSL
  <2> QED
    BY <1>0, <2>3, <2>4
<1>2. CASE SSLHandshake
  <2>1. CASE HasSSL
    BY <1>0, <1>2, <2>1 DEF SSLHandshake, ApprovalIsOfSsl, PeerChecked, IdentityAfterApproval, HasSSL
  <2>2. CASE ~HasSSL
    <3>1. ~approved /\ state # "PEER_AUTH"
      BY <2>2 DEF ApprovalIsOfSsl, IInv, SslWhereUsed
    <3>2. ~approved' /\ state' = "HANDSHAKING" /\ ssl'.checked = "no"
      BY <1>2, <2>2, <3>1 DEF SSLHandshake, NoSSL
    <3> QED
      BY <1>0, <3>2 DEF ApprovalIsOfSsl, PeerChecked, IdentityAfterApproval
  <2> QED
    BY <2>1, <2>2
<1>3. CASE ossl_init_fails
  BY <1>0, <1>3 DEF ossl_init_fails, ApprovalIsOfSsl, PeerChecked, IdentityAfterApproval, HasSSL
<1>4. CASE verify_chain
  <2>1. ssl'.gen = ssl.gen /\ ssl'.sent = ssl.sent /\ ssl.checked = "no" /\ HasSSL'
    BY <1>4, SslFields DEF verify_chain, IInv, SslWhereUsed, SSLs, HasSSL, NoSSL, Made
  <2>2. ApprovalIsOfSsl'
    BY <1>4, <2>1 DEF verify_chain, ApprovalIsOfSsl
  <2>3. PeerChecked' /\ IdentityAfterApproval'
    BY <1>4, <2>1 DEF verify_chain, IInv, SslWhereUsed, AppDecides, PeerChecked, IdentityAfterApproval
  <2> QED
    BY <1>0, <2>2, <2>3
<1>5. CASE client_cert_cb_suspends
  BY <1>0, <1>5 DEF client_cert_cb_suspends, ApprovalIsOfSsl, PeerChecked, IdentityAfterApproval, HasSSL
<1>6. CASE client_cert_cb_sends
  <2>1. ssl'.gen = ssl.gen /\ ssl'.checked = ssl.checked /\ HasSSL'
    BY <1>6, SslFields DEF client_cert_cb_sends, IInv, SslWhereUsed, SSLs, HasSSL, NoSSL, Made
  <2>2. ssl.checked = "app" => approved
    BY <1>6 DEF client_cert_cb_sends, Pauses, IInv, AppDecides, TypeOK
  <2> QED
    BY <1>0, <1>6, <2>1, <2>2 DEF client_cert_cb_sends, ApprovalIsOfSsl, PeerChecked, IdentityAfterApproval
<1>7. CASE Connected \/ Paused
  <2>1. ssl'.gen = ssl.gen /\ ssl'.checked = ssl.checked /\ ssl'.sent = ssl.sent /\ HasSSL'
    BY <1>7, SslFields DEF Connected, Paused, Finished, IInv, SslWhereUsed, SSLs, HasSSL, NoSSL, Made
  <2>2. state' = "CONNECTED" /\ ssl.checked = "app" => approved
    BY <1>7 DEF Connected, Paused, Finished, Pauses, IInv, AppDecides, TypeOK
  <2> QED
    BY <1>0, <1>7, <2>1, <2>2
       DEF Connected, Paused, Finished, ApprovalIsOfSsl, PeerChecked, IdentityAfterApproval
<1>8. CASE WouldBlock \/ HandshakeFails
  BY <1>0, <1>8 DEF WouldBlock, HandshakeFails, ApprovalIsOfSsl, PeerChecked, IdentityAfterApproval, HasSSL
<1>9. CASE sh_build_trust \/ UNCHANGED vars
  BY <1>0, <1>9 DEF sh_build_trust, vars, ApprovalIsOfSsl, PeerChecked, IdentityAfterApproval, HasSSL
<1> QED
  BY <1>1, <1>2, <1>3, <1>4, <1>5, <1>6, <1>7, <1>8, <1>9 DEF Next, HandshakeSteps

-----------------------------------------------------------------------------
(* Every variable keeps its type, whatever the order of the calls.         *)
THEOREM TypeCorrect == Spec => []TypeOK
<1>1. IInv => TypeOK
  BY DEF IInv
<1> QED
  BY <1>1, Invariance, PTL

(* my_SSLHandshake, client_cert_cb and the getters never use the SSL       *)
(* object of a connection that has none.                                   *)
THEOREM SslPresent == Spec => []SslWhereUsed
<1>1. IInv => SslWhereUsed
  BY DEF IInv
<1> QED
  BY <1>1, Invariance, PTL

(* The trust sh_build_trust caches is the connection's own as long as it   *)
(* may be handed out, although re-initialisation replaces chain and name.  *)
THEOREM TrustCurrent == Spec => []TrustIsCurrent
<1>1. IInv => TrustIsCurrent
  BY DEF IInv, TrustOfSsl, TrustIsCurrent
<1> QED
  BY <1>1, Invariance, PTL

LEMMA ApprovalInvariance ==
  ASSUME ~LateApproved
  PROVE  Spec => []JInv
<1>1. Init => JInv
  BY InitIInv DEF Init, JInv, ApprovalIsOfSsl, PeerChecked, IdentityAfterApproval, NoSSL
<1>2. JInv /\ [Next]_vars => JInv'
  BY StepJInv
<1> QED
  BY <1>1, <1>2, PTL DEF Spec

(* verify_chain leaves a chain to the application, and the connection is   *)
(* made only once it has come back from that chain: true where no name or  *)
(* certificate is set after the approval.                                  *)
THEOREM ApplicationDecides ==
  ASSUME ~LateApproved
  PROVE  Spec => []PeerChecked
<1>1. JInv => PeerChecked
  BY DEF JInv
<1> QED
  BY <1>1, ApprovalInvariance, PTL

(* client_cert_cb suspends the handshake while the application, which      *)
(* asked to decide, has not: our certificate and the signature with our    *)
(* key go only to a peer it has approved, under the same condition.        *)
THEOREM OursAfterApproval ==
  ASSUME ~LateApproved
  PROVE  Spec => []IdentityAfterApproval
<1>1. JInv => IdentityAfterApproval
  BY DEF JInv
<1> QED
  BY <1>1, ApprovalInvariance, PTL

(* The getters' protocol and cipher do not change under a handshake.       *)
THEOREM GettersFrozen == Spec => ReportingFrozen
<1>1. [Next]_vars => [HasSSL /\ ssl' = ssl => reported' = reported]_vars
  BY DEF Next, SetterCalls, HandshakeSteps, vars, setup, options, SSLSetIO, SSLSetPeerDomainName,
    SSLSetCertificate, BreakOnServerAuth, BreakOnClientAuth, SSLSetEnableCertVerify, Configure,
    ToggleServerTls, SSLHandshake, capture_reporting, ossl_init_fails, verify_chain,
    client_cert_cb_suspends, client_cert_cb_sends, Connected, Paused, Finished, WouldBlock,
    HandshakeFails, sh_build_trust
<1> QED
  BY <1>1, PTL DEF Spec, ReportingFrozen

(* Ours is decided at the call, and nothing the caller may do before the   *)
(* call returns takes the decision back.                                   *)
THEOREM ClientAuthNeverOmitted == Spec => ClientAuthKept
<1>1. IInv /\ [Next]_vars => [serverSide /\ state # "CONNECTED" /\ state' = "CONNECTED" => serverBypass = {}]_vars
  BY DEF IInv, InCall, Next, SetterCalls, HandshakeSteps, vars, setup, options, SSLSetIO,
    SSLSetPeerDomainName, SSLSetCertificate, Reinit, BreakOnServerAuth, BreakOnClientAuth,
    SSLSetEnableCertVerify, Configure, ToggleServerTls, SSLHandshake, ossl_init_fails, verify_chain,
    client_cert_cb_suspends, client_cert_cb_sends, Connected, Paused, Finished, WouldBlock,
    HandshakeFails, sh_build_trust
<1> QED
  BY <1>1, Invariance, PTL DEF Spec, ClientAuthKept

(* Failing is final.                                                       *)
THEOREM FailureIsFinal == Spec => FailedIsFinal
<1>1. IInv /\ [Next]_vars => [state = "FAILED" => state' = "FAILED"]_vars
  BY DEF IInv, InCall, Next, SetterCalls, HandshakeSteps, vars, setup, options, SSLSetIO,
    SSLSetPeerDomainName, SSLSetCertificate, Reinit, Reinits, BreakOnServerAuth, BreakOnClientAuth,
    SSLSetEnableCertVerify, Configure, ToggleServerTls, SSLHandshake, Ours, ossl_init_fails,
    verify_chain, client_cert_cb_suspends, client_cert_cb_sends, Connected, Paused, Finished,
    WouldBlock, HandshakeFails, sh_build_trust
<1> QED
  BY <1>1, Invariance, PTL DEF Spec, FailedIsFinal

-----------------------------------------------------------------------------
(* No acceptance is in the future.  A thread that looks up or records has  *)
(* a question with a digest; what it is to record Security has just        *)
(* accepted, in the second there is.                                       *)
Control ==
  /\ \A q \in Questions : last[q].goodAt <= real
  /\ \A t \in Threads :
       /\ pcs[t] \in {"get", "put"} => Chains!HaveDigest(asks[t])
       /\ pcs[t] = "get" => read[t] <= now
       /\ pcs[t] = "put" => Chains!Accepted(last[asks[t]]) /\ last[asks[t]].goodAt = real

(* An entry stands for an acceptance no older than it says, on the clock   *)
(* as it is and on the time a thread has read: where that is older than    *)
(* the entry, the acceptance is of this second.                            *)
Backs(i, q) ==
  /\ Chains!Accepted(last[q]) /\ gChainOk[i].when <= now
  /\ real - last[q].goodAt <= now - gChainOk[i].when
  /\ \A t \in Threads : pcs[t] = "get" =>
       last[q].goodAt = real \/ real - last[q].goodAt <= read[t] - gChainOk[i].when
EntriesBacked ==
  \A i \in Chains!Slots, q \in Questions :
    gChainOk[i].used /\ Chains!HaveDigest(q) /\ gChainOk[i].dg = Chains!chain_ok_digest(q) => Backs(i, q)

ChainInv == Chains!TypeOK /\ Control /\ EntriesBacked /\ Chains!CachedWasAccepted

LEMMA FirstIsIn ==
  ASSUME Chains!ChainCacheAssumption, NEW S \in SUBSET Chains!Slots, S # {}
  PROVE  Chains!FirstOf(S) \in S
<1>1. \E i \in S : \A j \in S : i <= j
  BY Least DEF Chains!ChainCacheAssumption, Chains!Slots
<1> QED BY <1>1 DEF Chains!FirstOf

(* What a digest leaves out is only the side.                              *)
LEMMA DigestTells ==
  ASSUME Chains!ChainCacheAssumption, NEW p \in Questions, NEW q \in Questions,
         Chains!HaveDigest(p), Chains!HaveDigest(q), Chains!chain_ok_digest(p) = Chains!chain_ok_digest(q)
  PROVE  p = q
BY DEF Chains!ChainCacheAssumption, Chains!HaveDigest, Chains!chain_ok_digest

LEMMA IdleAsks == ASSUME Chains!ChainCacheAssumption PROVE Chains!Idle \in Questions
BY DEF Chains!ChainCacheAssumption, Chains!Idle

LEMMA ChainsBegin ==
  ASSUME Chains!ChainCacheAssumption, Chains!Init PROVE ChainInv
<1> USE DEF Chains!ChainCacheAssumption
<1>1. Chains!TypeOK
  BY IdleAsks DEF Chains!Init, Chains!TypeOK, Chains!Unused, Chains!NoAnswer, Chains!NoDigest, Chains!Verdicts
<1>2. Control
  BY DEF Chains!Init, Control
<1>3. EntriesBacked
  BY DEF Chains!Init, EntriesBacked, Chains!Unused
<1>4. Chains!CachedWasAccepted
  BY DEF Chains!Init, Chains!CachedWasAccepted, Chains!NoAnswer
<1> QED BY <1>1, <1>2, <1>3, <1>4 DEF ChainInv

(* What an answer leaves of the thread that gives it.                      *)
LEMMA AnswerTyped ==
  ASSUME Chains!ChainCacheAssumption, ChainInv, NEW t \in Threads, NEW ok \in BOOLEAN,
         NEW how \in {"cache", "evaluated"}, Chains!Answer(t, how, ok)
  PROVE  /\ pcs' \in [Threads -> {"idle", "get", "evaluate", "put"}]
         /\ asks' \in [Threads -> Questions] /\ read' \in [Threads -> 0..MaxTime]
         /\ answer' \in [how : {"none", "waived", "cache", "evaluated"}, side : {"client", "server"},
                          ok : BOOLEAN, age : 0..MaxTime, last : Chains!Verdicts]
<1>1. 0 \in 0..MaxTime
  BY DEF Chains!ChainCacheAssumption
<1>2. asks[t] \in Questions /\ asks[t].side \in {"client", "server"}
  BY DEF ChainInv, Chains!TypeOK, Chains!ChainCacheAssumption
<1>3. last[asks[t]].goodAt \in 0..MaxTime /\ last[asks[t]].verdict \in Chains!Verdicts
      /\ last[asks[t]].goodAt <= real /\ real \in 0..MaxTime
  BY <1>2 DEF ChainInv, Chains!TypeOK, Control
<1>4. real - last[asks[t]].goodAt \in 0..MaxTime
  BY <1>3 DEF Chains!ChainCacheAssumption
<1>5. pcs' \in [Threads -> {"idle", "get", "evaluate", "put"}] /\ asks' \in [Threads -> Questions]
      /\ read' \in [Threads -> 0..MaxTime]
  BY <1>1, IdleAsks DEF Chains!Answer, ChainInv, Chains!TypeOK
<1> QED BY <1>2, <1>3, <1>4, <1>5 DEF Chains!Answer

-----------------------------------------------------------------------------
(* Each action keeps the invariant.                                        *)

LEMMA LookUpKept ==
  ASSUME Chains!ChainCacheAssumption, ChainInv, NEW t \in Threads, Chains!chain_ok_get_hit(t)
  PROVE  ChainInv'
<1> DEFINE hits == Chains!Hits(Chains!chain_ok_digest(asks[t]))
           n == Chains!FirstOf(hits)
<1>1. hits \subseteq Chains!Slots /\ hits # {}
  BY DEF Chains!chain_ok_get_hit, Chains!Hits
<1>2. n \in Chains!Slots /\ gChainOk[n].used /\ gChainOk[n].dg = Chains!chain_ok_digest(asks[t])
  BY <1>1, FirstIsIn DEF Chains!Hits
<1>3. /\ pcs[t] = "get" /\ Chains!Fresh(t, n) /\ Chains!Answer(t, "cache", TRUE)
      /\ gChainOkClock' = gChainOkClock + 1
      /\ gChainOk' = [gChainOk EXCEPT ![n].lastUse = gChainOkClock']
      /\ now' = now /\ real' = real /\ last' = last
  BY DEF Chains!chain_ok_get_hit, Chains!Tick, Chains!clocks
<1> HIDE DEF hits, n
<1>4. \A i \in Chains!Slots : /\ gChainOk'[i].used = gChainOk[i].used /\ gChainOk'[i].dg = gChainOk[i].dg
                       /\ gChainOk'[i].when = gChainOk[i].when
  BY <1>2, <1>3 DEF ChainInv, Chains!TypeOK
<1>5. Chains!TypeOK'
  <2>1. gChainOk' \in [Chains!Slots -> [used : BOOLEAN, dg : Chains!Digest \cup {Chains!NoDigest}, when : 0..MaxTime, lastUse : Nat]]
    BY <1>2, <1>3 DEF ChainInv, Chains!TypeOK
  <2>2. gChainOkClock' \in Nat
    BY <1>3 DEF ChainInv, Chains!TypeOK
  <2> QED BY <1>3, <2>1, <2>2, AnswerTyped DEF ChainInv, Chains!TypeOK
<1>6. Control'
  BY <1>3 DEF ChainInv, Chains!TypeOK, Control, Chains!Answer
<1>7. EntriesBacked'
  <2>1. \A u \in Threads : pcs'[u] = "get" => pcs[u] = "get" /\ read'[u] = read[u]
    BY <1>3 DEF ChainInv, Chains!TypeOK, Chains!Answer
  <2> QED BY <1>3, <1>4, <2>1 DEF ChainInv, EntriesBacked, Backs
<1>8. Chains!CachedWasAccepted'
  <2>1. Chains!HaveDigest(asks[t]) /\ asks[t] \in Questions
    BY <1>3 DEF ChainInv, Control, Chains!TypeOK
  <2>2. Backs(n, asks[t])
    BY <1>2, <2>1 DEF ChainInv, EntriesBacked
  <2>3. /\ last[asks[t]].goodAt = real \/ real - last[asks[t]].goodAt <= read[t] - gChainOk[n].when
        /\ last[asks[t]].verdict \in {"good", "revoked"}
    BY <1>3, <2>2 DEF Backs, Chains!Accepted
  <2>4. read[t] - gChainOk[n].when <= CHAIN_OK_TTL
    BY <1>3 DEF Chains!Fresh
  <2>5. /\ real \in Int /\ last[asks[t]].goodAt \in Int /\ read[t] \in Int /\ gChainOk[n].when \in Int
        /\ CHAIN_OK_TTL \in Nat
    BY <1>2, <2>1 DEF ChainInv, Chains!TypeOK, Chains!ChainCacheAssumption
  <2>6. real - last[asks[t]].goodAt <= CHAIN_OK_TTL
    BY <2>3, <2>4, <2>5
  <2> QED BY <1>3, <2>1, <2>3, <2>6 DEF Chains!CachedWasAccepted, Chains!Answer, Chains!HaveDigest
<1> QED BY <1>5, <1>6, <1>7, <1>8 DEF ChainInv

LEMMA EntryCleared ==
  ASSUME NEW S, NEW D, NEW W, NEW L, NEW n,
         NEW f \in [S -> [used : BOOLEAN, dg : D, when : W, lastUse : L]]
  PROVE  [f EXCEPT ![n].used = FALSE] \in [S -> [used : BOOLEAN, dg : D, when : W, lastUse : L]]
<1> DEFINE R == [used : BOOLEAN, dg : D, when : W, lastUse : L]
<1>1. ASSUME NEW e \in R PROVE [e EXCEPT !.used = FALSE] \in R
  OBVIOUS
<1> HIDE DEF R
<1>2. f \in [S -> R] /\ [f EXCEPT ![n].used = FALSE] = [f EXCEPT ![n] = [f[n] EXCEPT !.used = FALSE]]
  BY DEF R
<1>3. n \in S => [f[n] EXCEPT !.used = FALSE] \in R
  BY <1>1, <1>2
<1>4. [f EXCEPT ![n].used = FALSE] \in [S -> R]
  BY <1>2, <1>3
<1> QED BY <1>4 DEF R

LEMMA MissKept ==
  ASSUME Chains!ChainCacheAssumption, ChainInv, NEW t \in Threads, Chains!chain_ok_get_miss(t)
  PROVE  ChainInv'
<1> DEFINE hits == Chains!Hits(Chains!chain_ok_digest(asks[t]))
           n == Chains!FirstOf(hits)
<1>1. /\ \/ gChainOk' = gChainOk
         \/ gChainOk' = [gChainOk EXCEPT ![n].used = FALSE]
      /\ pcs' = [pcs EXCEPT ![t] = "evaluate"] /\ read' = [read EXCEPT ![t] = 0] /\ answer' = Chains!NoAnswer
      /\ gChainOkClock' = gChainOkClock /\ now' = now /\ real' = real /\ asks' = asks /\ last' = last
  BY DEF Chains!chain_ok_get_miss, Chains!clocks
<1> HIDE DEF hits, n
<1>2. \A i \in Chains!Slots : /\ gChainOk'[i].used => gChainOk[i].used
                       /\ gChainOk'[i].dg = gChainOk[i].dg /\ gChainOk'[i].when = gChainOk[i].when
  BY <1>1 DEF ChainInv, Chains!TypeOK
<1>3. Chains!TypeOK'
  <2>1. gChainOk' \in [Chains!Slots -> [used : BOOLEAN, dg : Chains!Digest \cup {Chains!NoDigest}, when : 0..MaxTime, lastUse : Nat]]
    <3>1. CASE gChainOk' = gChainOk
      BY <3>1 DEF ChainInv, Chains!TypeOK
    <3>2. CASE gChainOk' = [gChainOk EXCEPT ![n].used = FALSE]
      <4>1. gChainOk \in [Chains!Slots -> [used : BOOLEAN, dg : Chains!Digest \cup {Chains!NoDigest}, when : 0..MaxTime, lastUse : Nat]]
        BY DEF ChainInv, Chains!TypeOK
      <4> QED BY <3>2, <4>1, EntryCleared
    <3> QED BY <1>1, <3>1, <3>2
  <2>2. read' \in [Threads -> 0..MaxTime]
    BY <1>1 DEF ChainInv, Chains!TypeOK, Chains!ChainCacheAssumption
  <2>3. Chains!NoAnswer \in [how : {"none", "waived", "cache", "evaluated"}, side : {"client", "server"},
                      ok : BOOLEAN, age : 0..MaxTime, last : Chains!Verdicts]
    BY DEF Chains!NoAnswer, Chains!Verdicts, Chains!ChainCacheAssumption
  <2> QED BY <1>1, <2>1, <2>2, <2>3 DEF ChainInv, Chains!TypeOK
<1>4. Control'
  BY <1>1 DEF ChainInv, Chains!TypeOK, Control
<1>5. EntriesBacked'
  <2>1. \A u \in Threads : pcs'[u] = "get" => pcs[u] = "get" /\ read'[u] = read[u]
    BY <1>1 DEF ChainInv, Chains!TypeOK
  <2> QED BY <1>1, <1>2, <2>1 DEF ChainInv, EntriesBacked, Backs
<1>6. Chains!CachedWasAccepted'
  BY <1>1 DEF Chains!CachedWasAccepted, Chains!NoAnswer
<1> QED BY <1>3, <1>4, <1>5, <1>6 DEF ChainInv

LEMMA WaivedKept ==
  ASSUME Chains!ChainCacheAssumption, ChainInv, NEW t \in Threads, Chains!verify_chain_waived(t)
  PROVE  ChainInv'
<1>1. /\ answer' = [Chains!NoAnswer EXCEPT !.how = "waived", !.ok = TRUE]
      /\ gChainOk' = gChainOk /\ gChainOkClock' = gChainOkClock /\ now' = now /\ real' = real
      /\ pcs' = pcs /\ asks' = asks /\ read' = read /\ last' = last
  BY DEF Chains!verify_chain_waived, Chains!clocks
<1>2. Chains!TypeOK'
  <2>1. answer' = [how |-> "waived", side |-> "client", ok |-> TRUE, age |-> 0, last |-> "none"]
    BY <1>1 DEF Chains!NoAnswer
  <2>2. 0 \in 0..MaxTime
    BY DEF Chains!ChainCacheAssumption
  <2>3. answer' \in [how : {"none", "waived", "cache", "evaluated"}, side : {"client", "server"},
                     ok : BOOLEAN, age : 0..MaxTime, last : Chains!Verdicts]
    BY <2>1, <2>2 DEF Chains!Verdicts
  <2> QED BY <1>1, <2>3 DEF ChainInv, Chains!TypeOK
<1>3. Control' /\ EntriesBacked'
  BY <1>1 DEF ChainInv, Control, EntriesBacked, Backs
<1>4. Chains!CachedWasAccepted'
  BY <1>1 DEF Chains!CachedWasAccepted, Chains!NoAnswer
<1> QED BY <1>2, <1>3, <1>4 DEF ChainInv

(* The time read is the clock's: no entry is older on it than on the clock. *)
LEMMA AskKept ==
  ASSUME Chains!ChainCacheAssumption, ChainInv, NEW t \in Threads, NEW q \in Questions, Chains!verify_chain(t, q)
  PROVE  ChainInv'
<1>1. /\ asks' = [asks EXCEPT ![t] = q] /\ answer' = Chains!NoAnswer
      /\ pcs' = [pcs EXCEPT ![t] = IF Chains!HaveDigest(q) THEN "get" ELSE "evaluate"]
      /\ read' = [read EXCEPT ![t] = IF Chains!HaveDigest(q) THEN now ELSE 0]
      /\ gChainOk' = gChainOk /\ gChainOkClock' = gChainOkClock /\ now' = now /\ real' = real /\ last' = last
      /\ pcs[t] = "idle"
  BY DEF Chains!verify_chain, Chains!clocks
<1>2. Chains!TypeOK'
  <2>1. Chains!NoAnswer \in [how : {"none", "waived", "cache", "evaluated"}, side : {"client", "server"},
                      ok : BOOLEAN, age : 0..MaxTime, last : Chains!Verdicts]
    BY DEF Chains!NoAnswer, Chains!Verdicts, Chains!ChainCacheAssumption
  <2>2. 0 \in 0..MaxTime
    BY DEF Chains!ChainCacheAssumption
  <2> QED BY <1>1, <2>1, <2>2 DEF ChainInv, Chains!TypeOK
<1>3. Control'
  BY <1>1 DEF ChainInv, Chains!TypeOK, Control, Chains!ChainCacheAssumption
<1>4. EntriesBacked'
  <2>1. \A u \in Threads : pcs'[u] = "get" => (pcs[u] = "get" /\ read'[u] = read[u]) \/ read'[u] = now
    BY <1>1 DEF ChainInv, Chains!TypeOK
  <2> QED BY <1>1, <2>1 DEF ChainInv, EntriesBacked, Backs
<1>5. Chains!CachedWasAccepted'
  BY <1>1 DEF Chains!CachedWasAccepted, Chains!NoAnswer
<1> QED BY <1>2, <1>3, <1>4, <1>5 DEF ChainInv

(* What was accepted stays accepted: a later refusal revokes it.           *)
LEMMA EvaluateKept ==
  ASSUME Chains!ChainCacheAssumption, ChainInv, NEW t \in Threads, NEW ok \in BOOLEAN, Chains!SecTrustEvaluate(t, ok)
  PROVE  ChainInv'
<1> DEFINE q == asks[t]
<1>1. /\ q \in Questions /\ real \in 0..MaxTime /\ last[q].goodAt \in 0..MaxTime /\ pcs[t] = "evaluate"
  BY DEF ChainInv, Chains!TypeOK, Chains!SecTrustEvaluate
<1>2. /\ last' = [last EXCEPT ![q] =
            IF ok THEN [verdict |-> "good", goodAt |-> real]
            ELSE [last[q] EXCEPT !.verdict = IF Chains!Accepted(last[q]) THEN "revoked" ELSE "bad"]]
      /\ gChainOk' = gChainOk /\ gChainOkClock' = gChainOkClock /\ now' = now /\ real' = real
  BY DEF Chains!SecTrustEvaluate, Chains!clocks
<1>3. \/ /\ Chains!Recorded(q, ok) /\ pcs' = [pcs EXCEPT ![t] = "put"] /\ answer' = Chains!NoAnswer
         /\ asks' = asks /\ read' = read
      \/ Chains!Answer(t, "evaluated", ok)
  BY DEF Chains!SecTrustEvaluate
<1>4. Chains!TypeOK'
  <2>1. last' \in [Questions -> [verdict : Chains!Verdicts, goodAt : 0..MaxTime]]
    <3>1. CASE ok
      BY <1>1, <1>2, <3>1 DEF ChainInv, Chains!TypeOK, Chains!Verdicts
    <3>2. CASE ~ok
      BY <1>1, <1>2, <3>2 DEF ChainInv, Chains!TypeOK, Chains!Verdicts
    <3> QED BY <3>1, <3>2
  <2>2. Chains!NoAnswer \in [how : {"none", "waived", "cache", "evaluated"}, side : {"client", "server"},
                      ok : BOOLEAN, age : 0..MaxTime, last : Chains!Verdicts]
    BY DEF Chains!NoAnswer, Chains!Verdicts, Chains!ChainCacheAssumption
  <2>3. CASE pcs' = [pcs EXCEPT ![t] = "put"] /\ answer' = Chains!NoAnswer /\ asks' = asks /\ read' = read
    BY <1>2, <2>1, <2>2, <2>3 DEF ChainInv, Chains!TypeOK
  <2>4. CASE Chains!Answer(t, "evaluated", ok)
    BY <1>2, <2>1, <2>4, AnswerTyped DEF ChainInv, Chains!TypeOK
  <2> QED BY <1>3, <2>3, <2>4
<1>5. \A p \in Questions :
        /\ last'[p].goodAt = real \/ last'[p].goodAt = last[p].goodAt
        /\ Chains!Accepted(last[p]) => Chains!Accepted(last'[p])
        /\ last'[p].goodAt <= real
  <2>1. \A p \in Questions : last[p].goodAt <= real /\ last[p].goodAt \in Int
    BY DEF ChainInv, Control, Chains!TypeOK
  <2>2. CASE ok
    BY <1>1, <1>2, <2>1, <2>2 DEF ChainInv, Chains!TypeOK, Chains!Accepted
  <2>3. CASE ~ok
    BY <1>1, <1>2, <2>1, <2>3 DEF ChainInv, Chains!TypeOK, Chains!Accepted
  <2> QED BY <2>2, <2>3
<1>6. \A u \in Threads :
        \/ pcs'[u] = pcs[u] /\ asks'[u] = asks[u] /\ read'[u] = read[u]
        \/ pcs'[u] = "idle"
        \/ u = t /\ pcs'[u] = "put" /\ asks'[u] = q /\ Chains!Recorded(q, ok)
  BY <1>3 DEF ChainInv, Chains!TypeOK, Chains!Answer
<1>7. Chains!Recorded(q, ok) => Chains!HaveDigest(q) /\ last'[q] = [verdict |-> "good", goodAt |-> real]
  BY <1>1, <1>2 DEF Chains!Recorded, ChainInv, Chains!TypeOK
<1> HIDE DEF q
<1>8. Control'
  <2>1. \A u \in Threads :
          /\ pcs'[u] \in {"get", "put"} => Chains!HaveDigest(asks'[u])
          /\ pcs'[u] = "get" => read'[u] <= now
    BY <1>6, <1>7 DEF ChainInv, Control
  <2>2. ASSUME NEW u \in Threads, pcs'[u] = "put"
        PROVE  Chains!Accepted(last'[asks'[u]]) /\ last'[asks'[u]].goodAt = real
    <3>1. CASE pcs[u] = "put" /\ asks'[u] = asks[u]
      <4>1. asks[u] \in Questions /\ Chains!Accepted(last[asks[u]]) /\ last[asks[u]].goodAt = real
        BY <3>1 DEF ChainInv, Control, Chains!TypeOK
      <4> QED BY <1>5, <3>1, <4>1
    <3>2. CASE asks'[u] = q /\ Chains!Recorded(q, ok)
      BY <1>7, <3>2 DEF Chains!Accepted
    <3> QED BY <1>6, <2>2, <3>1, <3>2
  <2> QED BY <1>2, <1>5, <2>1, <2>2 DEF Control
<1>9. EntriesBacked'
  <2>1. \A u \in Threads : pcs'[u] = "get" => pcs[u] = "get" /\ read'[u] = read[u]
    BY <1>6
  <2>2. ASSUME NEW i \in Chains!Slots, NEW p \in Questions, Backs(i, p)
        PROVE  Backs(i, p)'
    <3>1. /\ Chains!Accepted(last'[p]) /\ gChainOk'[i].when <= now'
          /\ last'[p].goodAt = real \/ last'[p].goodAt = last[p].goodAt
          /\ real' = real /\ now' = now /\ gChainOk' = gChainOk
      BY <1>2, <1>5, <2>2 DEF Backs
    <3>2. real \in Int /\ now \in Int /\ gChainOk[i].when \in Int
      BY DEF ChainInv, Chains!TypeOK
    <3>3. CASE last'[p].goodAt = real
      BY <3>1, <3>2, <3>3 DEF Backs
    <3>4. CASE last'[p].goodAt = last[p].goodAt
      BY <2>1, <2>2, <3>1, <3>2, <3>4 DEF Backs
    <3> QED BY <3>1, <3>3, <3>4
  <2> QED BY <1>2, <2>2 DEF ChainInv, EntriesBacked
<1>10. Chains!CachedWasAccepted'
  BY <1>3 DEF Chains!CachedWasAccepted, Chains!NoAnswer, Chains!Answer
<1> QED BY <1>4, <1>8, <1>9, <1>10 DEF ChainInv

(* What is recorded has just been accepted, and under its own digest only. *)
LEMMA RecordKept ==
  ASSUME Chains!ChainCacheAssumption, ChainInv, NEW t \in Threads, Chains!chain_ok_put(t)
  PROVE  ChainInv'
<1> DEFINE q  == asks[t]
           dg == Chains!chain_ok_digest(q)
           n  == Chains!PutSlot(dg)
           e  == [used |-> TRUE, dg |-> dg, when |-> now, lastUse |-> gChainOkClock + 1]
<1>1. /\ q \in Questions /\ Chains!HaveDigest(q) /\ Chains!Accepted(last[q]) /\ last[q].goodAt = real /\ pcs[t] = "put"
      /\ dg \in Chains!Digest /\ now \in 0..MaxTime
  BY DEF ChainInv, Chains!TypeOK, Control, Chains!chain_ok_put, Chains!Digest, Chains!chain_ok_digest
<1>2. /\ gChainOk' = [gChainOk EXCEPT ![n] = e]
      /\ gChainOkClock' = gChainOkClock + 1 /\ Chains!Answer(t, "evaluated", TRUE)
      /\ now' = now /\ real' = real /\ last' = last
  BY DEF Chains!chain_ok_put, Chains!Tick, Chains!clocks
<1>3. dg = Chains!chain_ok_digest(q)
  OBVIOUS
<1>4. e.used /\ e.dg = dg /\ e.when = now /\
      e \in [used : BOOLEAN, dg : Chains!Digest \cup {Chains!NoDigest}, when : 0..MaxTime, lastUse : Nat]
  BY <1>1 DEF ChainInv, Chains!TypeOK
<1> HIDE DEF q, n, e, dg
<1>5. \A i \in Chains!Slots : gChainOk'[i] = gChainOk[i] \/ gChainOk'[i] = e
  BY <1>2 DEF ChainInv, Chains!TypeOK
<1>6. Chains!TypeOK'
  <2>1. gChainOk' \in [Chains!Slots -> [used : BOOLEAN, dg : Chains!Digest \cup {Chains!NoDigest}, when : 0..MaxTime, lastUse : Nat]]
    BY <1>2, <1>4 DEF ChainInv, Chains!TypeOK
  <2>2. gChainOkClock' \in Nat
    BY <1>2 DEF ChainInv, Chains!TypeOK
  <2> QED BY <1>2, <2>1, <2>2, AnswerTyped DEF ChainInv, Chains!TypeOK
<1>7. Control'
  BY <1>2 DEF ChainInv, Chains!TypeOK, Control, Chains!Answer
<1>8. EntriesBacked'
  <2>1. \A u \in Threads : pcs'[u] = "get" => pcs[u] = "get" /\ read'[u] = read[u]
    BY <1>2 DEF ChainInv, Chains!TypeOK, Chains!Answer
  <2>2. ASSUME NEW i \in Chains!Slots, NEW p \in Questions,
               gChainOk'[i].used, Chains!HaveDigest(p), gChainOk'[i].dg = Chains!chain_ok_digest(p)
        PROVE  Backs(i, p)'
    <3>1. CASE gChainOk'[i] = gChainOk[i]
      <4>1. Backs(i, p)
        BY <2>2, <3>1 DEF ChainInv, EntriesBacked
      <4> QED BY <1>2, <2>1, <3>1, <4>1 DEF Backs
    <3>2. CASE gChainOk'[i] = e
      <4>1. p = q
        BY <1>1, <1>3, <1>4, <2>2, <3>2, DigestTells
      <4>2. now \in Int /\ real \in Int
        BY DEF ChainInv, Chains!TypeOK
      <4> QED BY <1>1, <1>2, <1>4, <3>2, <4>1, <4>2 DEF Backs
    <3> QED BY <1>5, <3>1, <3>2
  <2> QED BY <2>2 DEF EntriesBacked
<1>9. Chains!CachedWasAccepted'
  BY <1>2 DEF Chains!CachedWasAccepted, Chains!Answer
<1> QED BY <1>6, <1>7, <1>8, <1>9 DEF ChainInv

(* A second passes on both clocks, and on neither while a thread is        *)
(* between the time it read and the cache.                                 *)
LEMMA SecondKept ==
  ASSUME Chains!ChainCacheAssumption, ChainInv, Chains!Second
  PROVE  ChainInv'
<1>1. /\ \A t \in Threads : pcs[t] \notin {"get", "put"}
      /\ real' = real + 1 /\ now' = now + 1 /\ answer' = Chains!NoAnswer
      /\ real' \in 0..MaxTime /\ now' \in 0..MaxTime
      /\ gChainOk' = gChainOk /\ gChainOkClock' = gChainOkClock
      /\ pcs' = pcs /\ asks' = asks /\ read' = read /\ last' = last
  BY DEF Chains!Second, Chains!Prompt, ChainInv, Chains!TypeOK, Chains!ChainCacheAssumption
<1>2. Chains!TypeOK'
  BY <1>1 DEF ChainInv, Chains!TypeOK, Chains!NoAnswer, Chains!Verdicts, Chains!ChainCacheAssumption
<1>3. Control'
  BY <1>1 DEF ChainInv, Chains!TypeOK, Control
<1>4. EntriesBacked'
  BY <1>1 DEF ChainInv, Chains!TypeOK, EntriesBacked, Backs
<1>5. Chains!CachedWasAccepted'
  BY <1>1 DEF Chains!CachedWasAccepted, Chains!NoAnswer
<1> QED BY <1>2, <1>3, <1>4, <1>5 DEF ChainInv

(* A clock put forward only ages the entries.                              *)
LEMMA SetClockKept ==
  ASSUME Chains!ChainCacheAssumption, ~StepBack, ChainInv, Chains!SetClock
  PROVE  ChainInv'
<1>1. /\ now' \in 0..MaxTime /\ now' > now /\ answer' = Chains!NoAnswer
      /\ gChainOk' = gChainOk /\ gChainOkClock' = gChainOkClock /\ real' = real
      /\ pcs' = pcs /\ asks' = asks /\ read' = read /\ last' = last
  BY DEF Chains!SetClock
<1>2. Chains!TypeOK'
  BY <1>1 DEF ChainInv, Chains!TypeOK, Chains!NoAnswer, Chains!Verdicts, Chains!ChainCacheAssumption
<1>3. Control'
  BY <1>1 DEF ChainInv, Chains!TypeOK, Control
<1>4. EntriesBacked'
  BY <1>1 DEF ChainInv, Chains!TypeOK, EntriesBacked, Backs
<1>5. Chains!CachedWasAccepted'
  BY <1>1 DEF Chains!CachedWasAccepted, Chains!NoAnswer
<1> QED BY <1>2, <1>3, <1>4, <1>5 DEF ChainInv

LEMMA ChainsKept ==
  ASSUME Chains!ChainCacheAssumption, ~StepBack, ChainInv, [Chains!Next]_(Chains!vars)
  PROVE  ChainInv'
<1>1. CASE \E t \in Threads :
             \/ Chains!verify_chain_waived(t)
             \/ \E q \in Questions : Chains!verify_chain(t, q)
             \/ Chains!chain_ok_get_hit(t) \/ Chains!chain_ok_get_miss(t)
             \/ \E ok \in BOOLEAN : Chains!SecTrustEvaluate(t, ok)
             \/ Chains!chain_ok_put(t)
  BY <1>1, WaivedKept, AskKept, LookUpKept, MissKept, EvaluateKept, RecordKept
<1>2. CASE Chains!Second
  BY <1>2, SecondKept
<1>3. CASE Chains!SetClock
  BY <1>3, SetClockKept
<1>4. CASE UNCHANGED Chains!vars
  BY <1>4 DEF Chains!vars, ChainInv, Chains!TypeOK, Control, EntriesBacked, Backs, Chains!CachedWasAccepted
<1> QED BY <1>1, <1>2, <1>3, <1>4 DEF Chains!Next

LEMMA ChainsInvariant ==
  ASSUME Chains!ChainCacheAssumption, ~StepBack PROVE Chains!Spec => []ChainInv
<1>1. Chains!Init => ChainInv
  BY ChainsBegin
<1>2. ChainInv /\ [Chains!Next]_(Chains!vars) => ChainInv'
  BY ChainsKept
<1> QED BY <1>1, <1>2, PTL DEF Chains!Spec

-----------------------------------------------------------------------------
(* The chain cache's variables have their types in every state.            *)
THEOREM ChainTypes ==
  ASSUME Chains!ChainCacheAssumption, ~StepBack PROVE Chains!Spec => []Chains!TypeOK
<1>1. ChainInv => Chains!TypeOK
  BY DEF ChainInv
<1> QED BY <1>1, ChainsInvariant, PTL

(* verify_chain answers from gChainOk only what SecTrustEvaluate itself    *)
(* accepted for that name, chain and side, at most CHAIN_OK_TTL seconds    *)
(* before, whatever the threads, the questions and the number of slots,    *)
(* when the wall clock is not set back.                                    *)
THEOREM AcceptedBefore ==
  ASSUME Chains!ChainCacheAssumption, ~StepBack PROVE MCSpec => []CachedWasAccepted
<1>1. MCInit => Chains!Init
  BY DEF MCInit
<1>2. [MCNext]_<<part, vars, chains, sessions>> => [Chains!Next]_(Chains!vars)
  BY DEF MCNext, chains, Chains!vars, Chains!clocks
<1>3. ChainInv => CachedWasAccepted
  BY DEF ChainInv, CachedWasAccepted
<1> QED BY <1>1, <1>2, <1>3, ChainsInvariant, PTL DEF MCSpec, Chains!Spec

-----------------------------------------------------------------------------
(* SessionCache.  A thread holds a session it has looked up only inside    *)
(* ossl_init, and one it has displaced only after a handshake; an SSL      *)
(* object has a session only once there is an SSL object.                  *)
Pointers ==
  \A c \in Conns :
    /\ phase[c] \in {"new", "init"} => held[c] = NoSess
    /\ phase[c] \in {"new", "init", "handshake"} => drop[c] = NoSess
    /\ phase[c] # "init" => cached[c] = NoSess

CountInv == Cache!TypeOK /\ Pointers /\ RefsExact

One(b) == IF b THEN 1 ELSE 0

(* What a step of connection c, which stores in slot i if in any, does to  *)
(* the pointers to s.                                                      *)
Moved(c, i, s) ==
  One(gSess'[i].sess = s) - One(gSess[i].sess = s) + One(held'[c] = s) - One(held[c] = s)
    + One(cached'[c] = s) - One(cached[c] = s) + One(drop'[c] = s) - One(drop[c] = s)

(* Such a step.                                                            *)
Local(c, i) ==
  /\ \A j \in Cache!Slots : j # i => gSess'[j].sess = gSess[j].sess
  /\ \A d \in Conns : d # c => held'[d] = held[d] /\ cached'[d] = cached[d] /\ drop'[d] = drop[d]

(* A set that gains or loses one element.                                  *)
LEMMA CountMoves ==
  ASSUME NEW D, IsFiniteSet(D), NEW A \in SUBSET D, NEW B \in SUBSET D, NEW d, A \ {d} = B \ {d}
  PROVE  /\ Cardinality(A) \in Nat /\ Cardinality(B) \in Nat
         /\ Cardinality(B) = Cardinality(A) + One(d \in B) - One(d \in A)
<1>1. IsFiniteSet(A) /\ IsFiniteSet(B)
  BY FS_Subset
<1>2. Cardinality(A) \in Nat /\ Cardinality(B) \in Nat /\ Cardinality(A \ {d}) \in Nat
  BY <1>1, FS_CardinalityType, FS_RemoveElement
<1>3. Cardinality(A) = Cardinality(A \ {d}) + One(d \in A)
  <2>1. CASE d \in A
    <3>1. Cardinality(A \ {d}) = Cardinality(A) - 1
      BY <1>1, <2>1, FS_RemoveElement
    <3> QED BY <1>2, <2>1, <3>1 DEF One
  <2>2. CASE d \notin A
    <3>1. A \ {d} = A
      BY <2>2
    <3> QED BY <1>2, <2>2, <3>1 DEF One
  <2> QED BY <2>1, <2>2
<1>4. Cardinality(B) = Cardinality(B \ {d}) + One(d \in B)
  <2>1. CASE d \in B
    <3>1. Cardinality(B \ {d}) = Cardinality(B) - 1
      BY <1>1, <2>1, FS_RemoveElement
    <3> QED BY <1>2, <2>1, <3>1 DEF One
  <2>2. CASE d \notin B
    <3>1. B \ {d} = B
      BY <2>2
    <3> QED BY <1>2, <2>2, <3>1 DEF One
  <2> QED BY <2>1, <2>2
<1>5. One(d \in A) \in Nat /\ One(d \in B) \in Nat
  BY DEF One
<1>6. Cardinality(A \ {d}) = Cardinality(B \ {d})
  OBVIOUS
<1> HIDE DEF One
<1> QED BY <1>2, <1>3, <1>4, <1>5, <1>6

(* The count and the finiteness of the instance are those of the module.   *)
LEMMA SameCount == ASSUME NEW S PROVE Cache!Cardinality(S) = Cardinality(S)
BY DEF Cache!Cardinality, Cardinality

LEMMA SameFinite == ASSUME NEW S PROVE Cache!IsFiniteSet(S) = IsFiniteSet(S)
BY DEF Cache!IsFiniteSet, IsFiniteSet

LEMMA Finite ==
  ASSUME Cache!SessionCacheAssumption PROVE IsFiniteSet(Cache!Slots) /\ IsFiniteSet(Conns)
BY FS_Interval, SameFinite DEF Cache!Slots, Cache!SessionCacheAssumption

(* The pointers to a session change by what the step's own places do.      *)
LEMMA HoldersMove ==
  ASSUME Cache!SessionCacheAssumption, NEW c \in Conns, NEW i \in Cache!Slots, NEW s, Local(c, i)
  PROVE  Cache!Holders(s) \in Nat /\ Cache!Holders(s)' = Cache!Holders(s) + Moved(c, i, s)
<1> DEFINE InSlots == {j \in Cache!Slots : gSess[j].sess = s}
           ByHeld   == {d \in Conns : held[d] = s}
           ByCached == {d \in Conns : cached[d] = s}
           ByDrop   == {d \in Conns : drop[d] = s}
<1>1. /\ Cardinality(InSlots) \in Nat
      /\ Cardinality(InSlots') = Cardinality(InSlots) + One(gSess'[i].sess = s) - One(gSess[i].sess = s)
  <2>1. InSlots \ {i} = InSlots' \ {i} /\ InSlots \in SUBSET Cache!Slots /\ InSlots' \in SUBSET Cache!Slots
    BY DEF Local, Cache!Slots
  <2>2. (i \in InSlots <=> gSess[i].sess = s) /\ (i \in InSlots' <=> gSess'[i].sess = s)
    BY DEF Cache!Slots
  <2> HIDE DEF InSlots
  <2> QED BY <2>1, <2>2, CountMoves, Finite DEF One
<1>2. /\ Cardinality(ByHeld) \in Nat
      /\ Cardinality(ByHeld') = Cardinality(ByHeld) + One(held'[c] = s) - One(held[c] = s)
  <2>1. ByHeld \ {c} = ByHeld' \ {c} /\ ByHeld \in SUBSET Conns /\ ByHeld' \in SUBSET Conns
    BY DEF Local
  <2>2. (c \in ByHeld <=> held[c] = s) /\ (c \in ByHeld' <=> held'[c] = s)
    OBVIOUS
  <2> HIDE DEF ByHeld
  <2> QED BY <2>1, <2>2, CountMoves, Finite DEF One
<1>3. /\ Cardinality(ByCached) \in Nat
      /\ Cardinality(ByCached') = Cardinality(ByCached) + One(cached'[c] = s) - One(cached[c] = s)
  <2>1. ByCached \ {c} = ByCached' \ {c} /\ ByCached \in SUBSET Conns /\ ByCached' \in SUBSET Conns
    BY DEF Local
  <2>2. (c \in ByCached <=> cached[c] = s) /\ (c \in ByCached' <=> cached'[c] = s)
    OBVIOUS
  <2> HIDE DEF ByCached
  <2> QED BY <2>1, <2>2, CountMoves, Finite DEF One
<1>4. /\ Cardinality(ByDrop) \in Nat
      /\ Cardinality(ByDrop') = Cardinality(ByDrop) + One(drop'[c] = s) - One(drop[c] = s)
  <2>1. ByDrop \ {c} = ByDrop' \ {c} /\ ByDrop \in SUBSET Conns /\ ByDrop' \in SUBSET Conns
    BY DEF Local
  <2>2. (c \in ByDrop <=> drop[c] = s) /\ (c \in ByDrop' <=> drop'[c] = s)
    OBVIOUS
  <2> HIDE DEF ByDrop
  <2> QED BY <2>1, <2>2, CountMoves, Finite DEF One
<1>5. /\ Cache!Holders(s) = Cardinality(InSlots) + Cardinality(ByHeld) + Cardinality(ByCached) + Cardinality(ByDrop)
      /\ Cache!Holders(s)' = Cardinality(InSlots') + Cardinality(ByHeld') + Cardinality(ByCached') + Cardinality(ByDrop')
  BY SameCount DEF Cache!Holders
<1> HIDE DEF InSlots, ByHeld, ByCached, ByDrop
<1> QED BY <1>1, <1>2, <1>3, <1>4, <1>5 DEF Moved, One

LEMMA LocalCounts ==
  ASSUME Cache!SessionCacheAssumption, CountInv, NEW c \in Conns, NEW i \in Cache!Slots, Local(c, i),
         \A s \in Sessions : refs'[s] = refs[s] + Moved(c, i, s)
  PROVE  RefsExact'
<1> SUFFICES ASSUME NEW s \in Sessions PROVE refs'[s] = Cache!Holders(s)'
  BY DEF RefsExact, Cache!RefsExact
<1>1. refs[s] = Cache!Holders(s)
  BY DEF CountInv, RefsExact, Cache!RefsExact
<1> QED BY <1>1, HoldersMove

(* A session that has a pointer has a reference.                           *)
Pointed(s) ==
  \/ \E i \in Cache!Slots : gSess[i].sess = s
  \/ \E c \in Conns : held[c] = s \/ cached[c] = s \/ drop[c] = s

LEMMA SumCounts ==
  ASSUME NEW A, NEW B, NEW C, NEW D,
         IsFiniteSet(A), IsFiniteSet(B), IsFiniteSet(C), IsFiniteSet(D)
  PROVE  /\ Cardinality(A) + Cardinality(B) + Cardinality(C) + Cardinality(D) \in Nat
         /\ A # {} \/ B # {} \/ C # {} \/ D # {} =>
              Cardinality(A) + Cardinality(B) + Cardinality(C) + Cardinality(D) > 0
<1>1. /\ Cardinality(A) \in Nat /\ Cardinality(B) \in Nat
      /\ Cardinality(C) \in Nat /\ Cardinality(D) \in Nat
  BY FS_CardinalityType
<1>2. ASSUME NEW S, IsFiniteSet(S), S # {} PROVE Cardinality(S) # 0
  BY <1>2, FS_EmptySet
<1>3. ASSUME A # {} PROVE Cardinality(A) + Cardinality(B) + Cardinality(C) + Cardinality(D) > 0
  <2>1. Cardinality(A) # 0
    BY <1>2, <1>3
  <2> QED BY <1>1, <2>1
<1>4. ASSUME B # {} PROVE Cardinality(A) + Cardinality(B) + Cardinality(C) + Cardinality(D) > 0
  <2>1. Cardinality(B) # 0
    BY <1>2, <1>4
  <2> QED BY <1>1, <2>1
<1>5. ASSUME C # {} PROVE Cardinality(A) + Cardinality(B) + Cardinality(C) + Cardinality(D) > 0
  <2>1. Cardinality(C) # 0
    BY <1>2, <1>5
  <2> QED BY <1>1, <2>1
<1>6. ASSUME D # {} PROVE Cardinality(A) + Cardinality(B) + Cardinality(C) + Cardinality(D) > 0
  <2>1. Cardinality(D) # 0
    BY <1>2, <1>6
  <2> QED BY <1>1, <2>1
<1>7. Cardinality(A) + Cardinality(B) + Cardinality(C) + Cardinality(D) \in Nat
  BY <1>1
<1> QED BY <1>3, <1>4, <1>5, <1>6, <1>7

LEMMA PointedCounts ==
  ASSUME Cache!SessionCacheAssumption, NEW s
  PROVE  /\ Cache!Holders(s) \in Nat /\ (Pointed(s) => Cache!Holders(s) > 0)
         /\ Cache!Holders(s)' \in Nat /\ (Pointed(s)' => Cache!Holders(s)' > 0)
<1>1. Cache!Holders(s) \in Nat /\ (Pointed(s) => Cache!Holders(s) > 0)
  <2> DEFINE A == {j \in Cache!Slots : gSess[j].sess = s}
             B == {d \in Conns : held[d] = s}
             C == {d \in Conns : cached[d] = s}
             D == {d \in Conns : drop[d] = s}
  <2>1. Cache!Holders(s) = Cardinality(A) + Cardinality(B) + Cardinality(C) + Cardinality(D)
    BY SameCount DEF Cache!Holders
  <2>2. Pointed(s) => A # {} \/ B # {} \/ C # {} \/ D # {}
    BY DEF Pointed
  <2>3. IsFiniteSet(A) /\ IsFiniteSet(B) /\ IsFiniteSet(C) /\ IsFiniteSet(D)
    BY Finite, FS_Subset
  <2> HIDE DEF A, B, C, D
  <2> QED BY <2>1, <2>2, <2>3, SumCounts
<1>2. Cache!Holders(s)' \in Nat /\ (Pointed(s)' => Cache!Holders(s)' > 0)
  <2> DEFINE A == {j \in Cache!Slots : gSess'[j].sess = s}
             B == {d \in Conns : held'[d] = s}
             C == {d \in Conns : cached'[d] = s}
             D == {d \in Conns : drop'[d] = s}
  <2>1. Cache!Holders(s)' = Cardinality(A) + Cardinality(B) + Cardinality(C) + Cardinality(D)
    BY SameCount DEF Cache!Holders, Cache!Slots
  <2>2. Pointed(s)' => A # {} \/ B # {} \/ C # {} \/ D # {}
    BY DEF Pointed, Cache!Slots
  <2>3. IsFiniteSet(A) /\ IsFiniteSet(B) /\ IsFiniteSet(C) /\ IsFiniteSet(D)
    BY Finite, FS_Subset
  <2> HIDE DEF A, B, C, D
  <2> QED BY <2>1, <2>2, <2>3, SumCounts
<1> QED BY <1>1, <1>2

(* Releasing a reference: the session is forgotten with its last.          *)
LEMMA UnrefCounts ==
  ASSUME Cache!SessionCacheAssumption, Cache!TypeOK, NEW x \in Sessions \cup {NoSess}, Cache!Unref(x)
  PROVE  /\ refs' \in [Sessions -> Int]
         /\ made' \in [Sessions -> [peer : Keys \cup {NoKey}, ident : BOOLEAN, by : Cache!Vetted]]
         /\ \A s \in Sessions : refs'[s] = refs[s] - One(x = s)
         /\ \A s \in Sessions : made'[s] = made[s] \/ refs'[s] = 0
<1>1. CASE x = NoSess
  BY <1>1 DEF Cache!Unref, Cache!SessionCacheAssumption, Cache!TypeOK, One
<1>2. CASE x # NoSess
  <2>1. /\ refs' = [refs EXCEPT ![x] = @ - 1]
        /\ made' = IF refs[x] = 1 THEN [made EXCEPT ![x] = Cache!NotMade] ELSE made
        /\ x \in Sessions /\ refs \in [Sessions -> Nat]
        /\ made \in [Sessions -> [peer : Keys \cup {NoKey}, ident : BOOLEAN, by : Cache!Vetted]]
        /\ Cache!NotMade \in [peer : Keys \cup {NoKey}, ident : BOOLEAN, by : Cache!Vetted]
    BY <1>2 DEF Cache!Unref, Cache!Gone, Cache!TypeOK, Cache!NotMade, Cache!Vetted
  <2> QED BY <2>1 DEF One
<1> QED BY <1>1, <1>2

(* The steps that touch no pointer, and those that give up the session of  *)
(* an SSL object.                                                          *)
LEMMA RefsTyped ==
  ASSUME Cache!SessionCacheAssumption, RefsExact', refs' \in [Sessions -> Int]
  PROVE  refs' \in [Sessions -> Nat]
<1>1. \A s \in Sessions : refs'[s] \in Nat
  BY PointedCounts DEF RefsExact, Cache!RefsExact
<1> QED BY <1>1

LEMMA QuietCounts ==
  ASSUME CountInv, UNCHANGED <<gSess, held, cached, drop, refs>>
  PROVE  RefsExact'
BY DEF CountInv, RefsExact, Cache!RefsExact, Cache!Holders

LEMMA LetGoCounts ==
  ASSUME Cache!SessionCacheAssumption, CountInv, NEW c \in Conns,
         Cache!Unref(held[c]), held' = [held EXCEPT ![c] = NoSess], UNCHANGED <<gSess, cached, drop>>
  PROVE  /\ RefsExact' /\ refs' \in [Sessions -> Nat] /\ held' \in [Conns -> Sessions \cup {NoSess}]
         /\ made' \in [Sessions -> [peer : Keys \cup {NoKey}, ident : BOOLEAN, by : Cache!Vetted]]
<1>1. held[c] \in Sessions \cup {NoSess} /\ 1 \in Cache!Slots /\ held' \in [Conns -> Sessions \cup {NoSess}]
  BY DEF CountInv, Cache!TypeOK, Cache!SessionCacheAssumption, Cache!Slots
<1>2. Local(c, 1) /\ held'[c] = NoSess
  BY DEF Local, CountInv, Cache!TypeOK
<1>3. \A s \in Sessions : Moved(c, 1, s) = 0 - One(held[c] = s)
  BY <1>2 DEF Moved, One, Cache!SessionCacheAssumption
<1>4. /\ \A s \in Sessions : refs'[s] = refs[s] - One(held[c] = s)
      /\ refs' \in [Sessions -> Int]
      /\ made' \in [Sessions -> [peer : Keys \cup {NoKey}, ident : BOOLEAN, by : Cache!Vetted]]
  BY <1>1, UnrefCounts DEF CountInv
<1>5. refs \in [Sessions -> Nat] /\ \A s \in Sessions : One(held[c] = s) \in Nat
  BY DEF CountInv, Cache!TypeOK, One
<1>6. \A s \in Sessions : refs'[s] = refs[s] + Moved(c, 1, s)
  BY <1>3, <1>4, <1>5
<1>7. RefsExact'
  BY <1>1, <1>2, <1>6, LocalCounts
<1> QED BY <1>1, <1>4, <1>7, RefsTyped

-----------------------------------------------------------------------------
(* The slot a store takes is one of the cache's.                           *)
LEMMA PutSlotIsSlot ==
  ASSUME Cache!SessionCacheAssumption, Cache!TypeOK, NEW k
  PROVE  Cache!PutSlot(k) \in Cache!Slots
<1>1. ASSUME NEW S \in SUBSET Cache!Slots, S # {} PROVE Cache!FirstOf(S) \in S
  <2>1. \E i \in S : \A j \in S : i <= j
    BY <1>1, Least DEF Cache!SessionCacheAssumption, Cache!Slots
  <2> QED BY <2>1 DEF Cache!FirstOf
<1>2. Cache!Hits(k) \in SUBSET Cache!Slots /\ Cache!FreeSlots \in SUBSET Cache!Slots
      /\ Cache!LeastRecent \in SUBSET Cache!Slots
  BY DEF Cache!Hits, Cache!FreeSlots, Cache!LeastRecent
<1>3. Cache!LeastRecent # {}
  <2> DEFINE Use == {gSess[i].lastUse + 1 : i \in Cache!Slots}
  <2>1. MaxTicks + 1 \in Nat /\ 1 \in Cache!Slots /\ \A i \in Cache!Slots : gSess[i].lastUse \in 0..MaxTicks
    BY DEF Cache!SessionCacheAssumption, Cache!Slots, Cache!TypeOK
  <2>2. Use \in SUBSET (1..(MaxTicks + 1)) /\ Use # {}
    BY <2>1 DEF Cache!SessionCacheAssumption
  <2> HIDE DEF Use
  <2>3. PICK u \in Use : \A v \in Use : u <= v
    BY <2>1, <2>2, Least
  <2> USE DEF Use
  <2>4. PICK i \in Cache!Slots : u = gSess[i].lastUse + 1
    BY <2>3
  <2>5. \A j \in Cache!Slots : gSess[j].lastUse + 1 \in Use
    OBVIOUS
  <2> HIDE DEF Use
  <2>6. \A j \in Cache!Slots : gSess[i].lastUse <= gSess[j].lastUse
    BY <2>1, <2>3, <2>4, <2>5
  <2> QED BY <2>4, <2>6 DEF Cache!LeastRecent
<1>4. \A S \in SUBSET Cache!Slots : S # {} => Cache!FirstOf(S) \in Cache!Slots
  BY <1>1
<1> QED BY <1>2, <1>3, <1>4 DEF Cache!PutSlot

(* A lookup takes a reference, of a session a slot has.                    *)
LEMMA HitIsSlot ==
  ASSUME Cache!SessionCacheAssumption, NEW k, Cache!Hits(k) # {}
  PROVE  Cache!FirstOf(Cache!Hits(k)) \in Cache!Slots /\ Cache!Holds(Cache!FirstOf(Cache!Hits(k)), k)
<1>1. Cache!Hits(k) \in SUBSET Cache!Slots
  BY DEF Cache!Hits
<1>2. \E i \in Cache!Hits(k) : \A j \in Cache!Hits(k) : i <= j
  BY <1>1, Least DEF Cache!SessionCacheAssumption, Cache!Slots
<1>3. Cache!FirstOf(Cache!Hits(k)) \in Cache!Hits(k)
  BY <1>2 DEF Cache!FirstOf
<1> QED BY <1>3 DEF Cache!Hits

(* Each action keeps the counts.                                           *)
LEMMA QuietKept ==
  ASSUME Cache!SessionCacheAssumption, CountInv, NEW c \in Conns,
         \/ \E k \in Keys \cup {NoKey} : Cache!SSLSetPeerID(c, k)
         \/ \E h \in Cache!Checks : Cache!SetCheck(c, h)
         \/ Cache!Resumed(c) \/ Cache!Approved(c)
  PROVE  CountInv'
<1>1. UNCHANGED <<gSess, gSessClock, held, cached, drop, refs, made>>
  BY DEF Cache!SSLSetPeerID, Cache!SetCheck, Cache!Resumed, Cache!Approved
<1>2. CASE \E k \in Keys \cup {NoKey} : Cache!SSLSetPeerID(c, k)
  BY <1>1, <1>2, QuietCounts DEF Cache!SSLSetPeerID, CountInv, Cache!TypeOK, Pointers
<1>3. CASE \E h \in Cache!Checks : Cache!SetCheck(c, h)
  BY <1>1, <1>3, QuietCounts DEF Cache!SetCheck, CountInv, Cache!TypeOK, Pointers
<1>4. CASE Cache!Resumed(c)
  <2>1. made[held[c]].by \in Cache!Vetted
    BY <1>4 DEF Cache!Resumed, CountInv, Cache!TypeOK
  <2> QED BY <1>1, <1>4, <2>1, QuietCounts DEF Cache!Resumed, Cache!Done, CountInv, Cache!TypeOK, Pointers
<1>5. CASE Cache!Approved(c)
  BY <1>1, <1>5, QuietCounts DEF Cache!Approved, CountInv, Cache!TypeOK, Pointers, Cache!Vetted
<1> QED BY <1>2, <1>3, <1>4, <1>5

LEMMA LetGoKept ==
  ASSUME Cache!SessionCacheAssumption, CountInv, NEW c \in Conns,
         \/ Cache!SSLSetPeerDomainName(c)
         \/ \E usable \in BOOLEAN : Cache!SSLSetCertificate(c, usable)
         \/ Cache!Full13(c) \/ Cache!Close(c)
  PROVE  CountInv'
<1>1. /\ Cache!Unref(held[c]) /\ held' = [held EXCEPT ![c] = NoSess]
      /\ UNCHANGED <<gSess, gSessClock, cached, drop>>
  BY DEF Cache!SSLSetPeerDomainName, Cache!SSLSetCertificate, Cache!Full13, Cache!Close, Cache!Reinit
<1>2. /\ RefsExact' /\ refs' \in [Sessions -> Nat] /\ held' \in [Conns -> Sessions \cup {NoSess}]
      /\ made' \in [Sessions -> [peer : Keys \cup {NoKey}, ident : BOOLEAN, by : Cache!Vetted]]
  BY <1>1, LetGoCounts
<1>3. CASE Cache!SSLSetPeerDomainName(c)
  BY <1>1, <1>2, <1>3 DEF Cache!SSLSetPeerDomainName, Cache!Reinit, Cache!Free, CountInv, Cache!TypeOK, Pointers, Cache!Vetted
<1>4. CASE \E usable \in BOOLEAN : Cache!SSLSetCertificate(c, usable)
  BY <1>1, <1>2, <1>4 DEF Cache!SSLSetCertificate, Cache!Reinit, Cache!Free, CountInv, Cache!TypeOK, Pointers, Cache!Vetted
<1>5. CASE Cache!Full13(c)
  BY <1>1, <1>2, <1>5 DEF Cache!Full13, Cache!FullVetting, Cache!Done, CountInv, Cache!TypeOK, Pointers, Cache!Vetted
<1>6. CASE Cache!Close(c)
  BY <1>1, <1>2, <1>6 DEF Cache!Close, Cache!Free, CountInv, Cache!TypeOK, Pointers, Cache!Vetted, Cache!Checks
<1> QED BY <1>3, <1>4, <1>5, <1>6

LEMMA LookUpCounts ==
  ASSUME Cache!SessionCacheAssumption, CountInv, NEW c \in Conns, Cache!ossl_init(c)
  PROVE  CountInv'
<1>1. /\ phase[c] = "new" /\ cached[c] = NoSess /\ drop[c] = NoSess
      /\ phase' = [phase EXCEPT ![c] = "init"]
      /\ UNCHANGED <<peerID, hasX509, bypassed, check, accepted, held, drop, tls, made, vetted>>
  BY DEF Cache!ossl_init, Cache!Free
<1>2. CASE UNCHANGED <<gSess, gSessClock, cached, refs>>
  BY <1>1, <1>2, QuietCounts DEF CountInv, Cache!TypeOK, Pointers
<1>3. CASE ~ UNCHANGED <<gSess, gSessClock, cached, refs>>
  <2> DEFINE i == Cache!FirstOf(Cache!Hits(peerID[c]))
             x == gSess[i].sess
  <2>1. Cache!Hits(peerID[c]) # {} /\ Cache!StampHit(i) /\ Cache!UpRef(x)
        /\ cached' = [cached EXCEPT ![c] = x]
    BY <1>3 DEF Cache!ossl_init, Cache!sess_get
  <2>2. i \in Cache!Slots /\ Cache!Holds(i, peerID[c])
    BY <2>1, HitIsSlot
  <2>3. x \in Sessions
    BY <2>2 DEF Cache!Holds, CountInv, Cache!TypeOK
  <2>4. /\ gSessClock < MaxTicks /\ gSessClock' = gSessClock + 1
        /\ gSess' = [gSess EXCEPT ![i].lastUse = gSessClock']
        /\ refs' = [refs EXCEPT ![x] = @ + 1]
    BY <2>1 DEF Cache!StampHit, Cache!Tick, Cache!UpRef
  <2> HIDE DEF i
  <2>5. gSessClock' \in 0..MaxTicks
    BY <2>4 DEF CountInv, Cache!TypeOK, Cache!SessionCacheAssumption
  <2>6. /\ gSess' \in [Cache!Slots -> [key : Keys \cup {NoKey}, sess : Sessions \cup {NoSess}, lastUse : 0..MaxTicks]]
        /\ \A j \in Cache!Slots : gSess'[j].sess = gSess[j].sess
    BY <2>2, <2>4, <2>5 DEF CountInv, Cache!TypeOK
  <2> HIDE DEF x
  <2>7. refs' \in [Sessions -> Int] /\ \A s \in Sessions : refs'[s] = refs[s] + One(x = s)
    BY <2>3, <2>4 DEF CountInv, Cache!TypeOK, One
  <2>8. Local(c, i) /\ cached' \in [Conns -> Sessions \cup {NoSess}] /\ cached'[c] = x
    BY <1>1, <2>1, <2>3, <2>6 DEF Local, CountInv, Cache!TypeOK
  <2>9. \A s \in Sessions : Moved(c, i, s) = One(x = s)
    BY <1>1, <2>2, <2>6, <2>8 DEF Moved, One, Cache!SessionCacheAssumption
  <2>10. RefsExact'
    BY <2>2, <2>7, <2>8, <2>9, LocalCounts
  <2>11. refs' \in [Sessions -> Nat]
    BY <2>7, <2>10, RefsTyped
  <2>12. Cache!TypeOK'
    BY <1>1, <2>5, <2>6, <2>8, <2>11 DEF CountInv, Cache!TypeOK
  <2>13. Pointers'
    BY <1>1, <2>8 DEF CountInv, Cache!TypeOK, Pointers, Local
  <2> QED BY <2>10, <2>12, <2>13 DEF CountInv
<1> QED BY <1>2, <1>3

LEMMA SetCounts ==
  ASSUME Cache!SessionCacheAssumption, CountInv, NEW c \in Conns, Cache!SSL_set_session(c)
  PROVE  CountInv'
<1>1. /\ phase[c] = "init" /\ held[c] = NoSess /\ drop[c] = NoSess /\ 1 \in Cache!Slots
      /\ phase' = [phase EXCEPT ![c] = "handshake"]
      /\ held' = [held EXCEPT ![c] = cached[c]] /\ cached' = [cached EXCEPT ![c] = NoSess]
      /\ UNCHANGED <<gSess, gSessClock, peerID, hasX509, bypassed, check, accepted, drop, tls, refs, made, vetted>>
  BY DEF Cache!SSL_set_session, CountInv, Pointers, Cache!SessionCacheAssumption, Cache!Slots
<1>2. Local(c, 1) /\ held'[c] = cached[c] /\ cached'[c] = NoSess
  BY <1>1 DEF Local, CountInv, Cache!TypeOK
<1>3. \A s \in Sessions : Moved(c, 1, s) = 0
  BY <1>1, <1>2 DEF Moved, One, Cache!SessionCacheAssumption
<1>4. RefsExact'
  <2>1. \A s \in Sessions : refs'[s] = refs[s] + Moved(c, 1, s)
    BY <1>1, <1>3 DEF CountInv, Cache!TypeOK
  <2> QED BY <1>1, <1>2, <2>1, LocalCounts
<1> QED BY <1>1, <1>4 DEF CountInv, Cache!TypeOK, Pointers

LEMMA DropCounts ==
  ASSUME Cache!SessionCacheAssumption, CountInv, NEW c \in Conns, Cache!sess_put_drop(c)
  PROVE  CountInv'
<1>1. /\ drop[c] # NoSess /\ Cache!Unref(drop[c]) /\ drop' = [drop EXCEPT ![c] = NoSess]
      /\ UNCHANGED <<gSess, gSessClock, peerID, hasX509, bypassed, check, accepted, phase, held, cached, tls, vetted>>
      /\ drop[c] \in Sessions \cup {NoSess} /\ 1 \in Cache!Slots
  BY DEF Cache!sess_put_drop, CountInv, Cache!TypeOK, Cache!SessionCacheAssumption, Cache!Slots
<1>2. Local(c, 1) /\ drop'[c] = NoSess
  BY <1>1 DEF Local, CountInv, Cache!TypeOK
<1>3. \A s \in Sessions : Moved(c, 1, s) = 0 - One(drop[c] = s)
  BY <1>1, <1>2 DEF Moved, One, Cache!SessionCacheAssumption
<1>4. /\ \A s \in Sessions : refs'[s] = refs[s] - One(drop[c] = s)
      /\ refs' \in [Sessions -> Int]
      /\ made' \in [Sessions -> [peer : Keys \cup {NoKey}, ident : BOOLEAN, by : Cache!Vetted]]
  BY <1>1, UnrefCounts DEF CountInv
<1>5. refs \in [Sessions -> Nat] /\ \A s \in Sessions : One(drop[c] = s) \in Nat
  BY DEF CountInv, Cache!TypeOK, One
<1>6. RefsExact'
  <2>1. \A s \in Sessions : refs'[s] = refs[s] + Moved(c, 1, s)
    BY <1>3, <1>4, <1>5
  <2> QED BY <1>1, <1>2, <2>1, LocalCounts
<1>7. refs' \in [Sessions -> Nat]
  BY <1>4, <1>6, RefsTyped
<1> QED BY <1>1, <1>4, <1>6, <1>7 DEF CountInv, Cache!TypeOK, Pointers

(* A session OpenSSL makes: the SSL object's reference and, if it is kept, *)
(* the slot's; the SSL object's old session loses one, and the one the     *)
(* slot had goes with its reference to sess_put's local.                   *)
LEMMA NewSessionCounts ==
  ASSUME Cache!SessionCacheAssumption, CountInv, NEW c \in Conns, NEW s \in Sessions, NEW by \in Cache!Vetted,
         Cache!new_session_cb(c, s, by), drop[c] = NoSess, cached' = cached
  PROVE  /\ RefsExact' /\ refs' \in [Sessions -> Nat]
         /\ held' = [held EXCEPT ![c] = s] /\ drop' \in [Conns -> Sessions \cup {NoSess}]
         /\ gSess' \in [Cache!Slots -> [key : Keys \cup {NoKey}, sess : Sessions \cup {NoSess}, lastUse : 0..MaxTicks]]
         /\ gSessClock' \in 0..MaxTicks /\ \A d \in Conns : d # c => drop'[d] = drop[d]
         /\ made' \in [Sessions -> [peer : Keys \cup {NoKey}, ident : BOOLEAN, by : Cache!Vetted]]
<1> DEFINE old == held[c]
           i == Cache!PutSlot(peerID[c])
<1>1. /\ refs[s] = 0 /\ held' = [held EXCEPT ![c] = s] /\ old \in Sessions \cup {NoSess}
      /\ refs \in [Sessions -> Nat]
  BY DEF Cache!new_session_cb, CountInv, Cache!TypeOK
<1>2. i \in Cache!Slots
  BY PutSlotIsSlot DEF CountInv
<1>3. ~ Pointed(s)
  BY <1>1, PointedCounts DEF CountInv, RefsExact, Cache!RefsExact
<1>4. s # old /\ s # NoSess /\ s # gSess[i].sess
  BY <1>2, <1>3 DEF Pointed, Cache!SessionCacheAssumption
<1>5. /\ refs' \in [Sessions -> Int]
      /\ \A x \in Sessions : refs'[x] = IF x = s THEN (IF Cache!Keeps(c) THEN 2 ELSE 1) ELSE refs[x] - One(x = old)
  <2> DEFINE after == [refs EXCEPT ![s] = IF Cache!Keeps(c) THEN 2 ELSE 1]
  <2>1. refs' = IF old = NoSess THEN after ELSE [after EXCEPT ![old] = @ - 1]
    BY DEF Cache!new_session_cb
  <2>2. /\ after \in [Sessions -> Nat]
        /\ \A x \in Sessions : after[x] = IF x = s THEN (IF Cache!Keeps(c) THEN 2 ELSE 1) ELSE refs[x]
    BY <1>1
  <2> HIDE DEF after
  <2>3. CASE old = NoSess
    BY <1>1, <2>1, <2>2, <2>3 DEF One, Cache!SessionCacheAssumption
  <2>4. CASE old # NoSess
    BY <1>1, <1>4, <2>1, <2>2, <2>4 DEF One
  <2> QED BY <2>3, <2>4
<1>6. made' \in [Sessions -> [peer : Keys \cup {NoKey}, ident : BOOLEAN, by : Cache!Vetted]]
  <2>1. made' = [x \in Sessions |->
              IF x = s THEN [peer |-> peerID[c], ident |-> hasX509[c], by |-> by]
              ELSE IF x = old /\ Cache!Gone(old) THEN Cache!NotMade ELSE made[x]]
    BY DEF Cache!new_session_cb
  <2>2. [peer |-> peerID[c], ident |-> hasX509[c], by |-> by]
          \in [peer : Keys \cup {NoKey}, ident : BOOLEAN, by : Cache!Vetted]
    BY DEF CountInv, Cache!TypeOK
  <2>3. Cache!NotMade \in [peer : Keys \cup {NoKey}, ident : BOOLEAN, by : Cache!Vetted]
    BY DEF Cache!NotMade, Cache!Vetted
  <2> QED BY <2>1, <2>2, <2>3 DEF CountInv, Cache!TypeOK
<1>7. held'[c] = s /\ \A d \in Conns : d # c => held'[d] = held[d]
  BY <1>1 DEF CountInv, Cache!TypeOK
<1>8. CASE Cache!Keeps(c)
  <2>1. /\ gSessClock < MaxTicks /\ gSessClock' = gSessClock + 1
        /\ gSess' = [gSess EXCEPT ![i] = [key |-> peerID[c], sess |-> s, lastUse |-> gSessClock']]
        /\ drop' = [drop EXCEPT ![c] = gSess[i].sess]
    BY <1>8 DEF Cache!new_session_cb, Cache!sess_put, Cache!Tick
  <2> HIDE DEF i, old
  <2>2. gSessClock' \in 0..MaxTicks
    BY <2>1 DEF CountInv, Cache!TypeOK, Cache!SessionCacheAssumption
  <2>3. gSess' \in [Cache!Slots -> [key : Keys \cup {NoKey}, sess : Sessions \cup {NoSess}, lastUse : 0..MaxTicks]]
    BY <2>1, <2>2 DEF CountInv, Cache!TypeOK
  <2>4. gSess[i].sess \in Sessions \cup {NoSess} /\ gSess'[i].sess = s
    BY <1>2, <2>1 DEF CountInv, Cache!TypeOK
  <2>5. drop' \in [Conns -> Sessions \cup {NoSess}] /\ drop'[c] = gSess[i].sess
    BY <2>1, <2>4 DEF CountInv, Cache!TypeOK
  <2>6. /\ \A j \in Cache!Slots : j # i => gSess'[j].sess = gSess[j].sess
        /\ \A d \in Conns : d # c => drop'[d] = drop[d]
    BY <2>1 DEF CountInv, Cache!TypeOK
  <2>7. Local(c, i)
    BY <1>7, <2>6 DEF Local
  <2>8. \A x \in Sessions : Moved(c, i, x) = IF x = s THEN 2 ELSE 0 - One(x = old)
    <3> SUFFICES ASSUME NEW x \in Sessions PROVE Moved(c, i, x) = IF x = s THEN 2 ELSE 0 - One(x = old)
      OBVIOUS
    <3>1. x # NoSess
      BY DEF Cache!SessionCacheAssumption
    <3>2. old = held[c] /\ drop[c] = NoSess /\ cached'[c] = cached[c]
      BY DEF old
    <3>3. CASE x = s
      BY <1>4, <1>7, <2>4, <2>5, <3>1, <3>2, <3>3 DEF Moved, One
    <3>4. CASE x # s
      BY <1>7, <2>4, <2>5, <3>1, <3>2, <3>4 DEF Moved, One
    <3> QED BY <3>3, <3>4
  <2>9. \A x \in Sessions : refs'[x] = refs[x] + Moved(c, i, x)
    BY <1>1, <1>5, <1>8, <2>8 DEF One
  <2>10. RefsExact'
    BY <1>2, <2>7, <2>9, LocalCounts
  <2> QED BY <1>1, <1>5, <1>6, <2>2, <2>3, <2>5, <2>6, <2>10, RefsTyped
<1>9. CASE ~ Cache!Keeps(c)
  <2>1. gSess' = gSess /\ gSessClock' = gSessClock /\ drop' = drop
    BY <1>9 DEF Cache!new_session_cb
  <2> HIDE DEF i, old
  <2>2. Local(c, i)
    BY <1>7, <2>1 DEF Local
  <2>3. \A x \in Sessions : Moved(c, i, x) = IF x = s THEN 1 ELSE 0 - One(x = old)
    <3>1. old = held[c]
      BY DEF old
    <3> QED BY <1>4, <1>7, <2>1, <3>1 DEF Moved, One
  <2>4. \A x \in Sessions : refs'[x] = refs[x] + Moved(c, i, x)
    BY <1>1, <1>5, <1>9, <2>3 DEF One
  <2>5. RefsExact'
    BY <1>2, <2>2, <2>4, LocalCounts
  <2>6. refs' \in [Sessions -> Nat]
    BY <1>5, <2>5, RefsTyped
  <2> QED BY <1>1, <1>6, <2>1, <2>5, <2>6 DEF CountInv, Cache!TypeOK
<1> QED BY <1>8, <1>9

LEMMA NewSessionKept ==
  ASSUME Cache!SessionCacheAssumption, CountInv, NEW c \in Conns, NEW s \in Sessions,
         Cache!Full12(c, s) \/ Cache!Ticket(c, s)
  PROVE  CountInv'
<1>1. CASE Cache!Full12(c, s)
  <2>1. Cache!FullVetting(c) \in Cache!Vetted /\ phase[c] = "handshake" /\ drop[c] = NoSess /\ cached[c] = NoSess
    BY <1>1 DEF Cache!FullVetting, Cache!Vetted, Cache!Full12, CountInv, Pointers
  <2>2. /\ RefsExact' /\ refs' \in [Sessions -> Nat]
        /\ held' = [held EXCEPT ![c] = s] /\ drop' \in [Conns -> Sessions \cup {NoSess}]
        /\ gSess' \in [Cache!Slots -> [key : Keys \cup {NoKey}, sess : Sessions \cup {NoSess}, lastUse : 0..MaxTicks]]
        /\ gSessClock' \in 0..MaxTicks /\ \A d \in Conns : d # c => drop'[d] = drop[d]
        /\ made' \in [Sessions -> [peer : Keys \cup {NoKey}, ident : BOOLEAN, by : Cache!Vetted]]
    BY <1>1, <2>1, NewSessionCounts DEF Cache!Full12
  <2>3. /\ phase'[c] \in {"paused", "up"} /\ phase' \in [Conns -> {"new", "init", "handshake", "paused", "up"}]
        /\ \A d \in Conns : d # c => phase'[d] = phase[d]
        /\ tls' = [tls EXCEPT ![c] = "1.2"] /\ vetted' = [vetted EXCEPT ![c] = Cache!FullVetting(c)]
        /\ UNCHANGED <<peerID, hasX509, bypassed, check, accepted, cached>>
    BY <1>1 DEF Cache!Full12, Cache!Done, CountInv, Cache!TypeOK
  <2>4. Cache!TypeOK'
    BY <2>1, <2>2, <2>3 DEF CountInv, Cache!TypeOK
  <2>5. Pointers'
    BY <2>1, <2>2, <2>3 DEF CountInv, Cache!TypeOK, Pointers
  <2> QED BY <2>2, <2>4, <2>5 DEF CountInv
<1>2. CASE Cache!Ticket(c, s)
  <2>1. vetted[c] \in Cache!Vetted /\ phase[c] = "up" /\ drop[c] = NoSess
    BY <1>2 DEF Cache!Ticket, Cache!Free, CountInv, Cache!TypeOK
  <2>2. /\ RefsExact' /\ refs' \in [Sessions -> Nat]
        /\ held' = [held EXCEPT ![c] = s] /\ drop' \in [Conns -> Sessions \cup {NoSess}]
        /\ gSess' \in [Cache!Slots -> [key : Keys \cup {NoKey}, sess : Sessions \cup {NoSess}, lastUse : 0..MaxTicks]]
        /\ gSessClock' \in 0..MaxTicks /\ \A d \in Conns : d # c => drop'[d] = drop[d]
        /\ made' \in [Sessions -> [peer : Keys \cup {NoKey}, ident : BOOLEAN, by : Cache!Vetted]]
    BY <1>2, <2>1, NewSessionCounts DEF Cache!Ticket
  <2>3. UNCHANGED <<peerID, hasX509, bypassed, check, accepted, phase, cached, tls, vetted>>
    BY <1>2 DEF Cache!Ticket
  <2>4. Cache!TypeOK'
    BY <2>2, <2>3 DEF CountInv, Cache!TypeOK
  <2>5. Pointers'
    BY <2>1, <2>2, <2>3 DEF CountInv, Cache!TypeOK, Pointers
  <2> QED BY <2>2, <2>4, <2>5 DEF CountInv
<1> QED BY <1>1, <1>2

LEMMA FreeObject ==
  ASSUME NEW s \in Cache!SSL_SESSION_new PROVE s \in Sessions
BY DEF Cache!SSL_SESSION_new

LEMMA CountsBegin ==
  ASSUME Cache!SessionCacheAssumption, Cache!Init PROVE CountInv
<1>1. Cache!TypeOK
  BY DEF Cache!Init, Cache!TypeOK, Cache!Empty, Cache!NotMade, Cache!Checks, Cache!Vetted, Cache!SessionCacheAssumption
<1>2. Pointers
  BY DEF Cache!Init, Pointers
<1>3. RefsExact
  <2> SUFFICES ASSUME NEW s \in Sessions PROVE Cache!Holders(s) = 0
    BY DEF RefsExact, Cache!RefsExact, Cache!Init
  <2>1. s # NoSess
    BY DEF Cache!SessionCacheAssumption
  <2>2. /\ {i \in Cache!Slots : gSess[i].sess = s} = {} /\ {c \in Conns : held[c] = s} = {}
        /\ {c \in Conns : cached[c] = s} = {} /\ {c \in Conns : drop[c] = s} = {}
    BY <2>1 DEF Cache!Init, Cache!Empty
  <2>3. Cache!Cardinality({}) = 0
    BY SameCount, FS_EmptySet
  <2>4. Cache!Holders(s) = Cache!Cardinality({}) + Cache!Cardinality({}) + Cache!Cardinality({}) + Cache!Cardinality({})
    BY <2>2 DEF Cache!Holders
  <2> QED BY <2>3, <2>4
<1> QED BY <1>1, <1>2, <1>3 DEF CountInv

LEMMA CountsKept ==
  ASSUME Cache!SessionCacheAssumption, CountInv, [Cache!Next]_(Cache!vars)
  PROVE  CountInv'
<1>1. CASE Cache!Next
  <2>1. PICK c \in Conns :
          \/ \E k \in Keys \cup {NoKey} : Cache!SSLSetPeerID(c, k)
          \/ Cache!SSLSetPeerDomainName(c)
          \/ \E usable \in BOOLEAN : Cache!SSLSetCertificate(c, usable)
          \/ \E h \in Cache!Checks : Cache!SetCheck(c, h)
          \/ Cache!ossl_init(c) \/ Cache!SSL_set_session(c)
          \/ Cache!Resumed(c) \/ Cache!Full13(c)
          \/ \E s \in Cache!SSL_SESSION_new : Cache!Full12(c, s) \/ Cache!Ticket(c, s)
          \/ Cache!sess_put_drop(c) \/ Cache!Approved(c) \/ Cache!Close(c)
    BY <1>1 DEF Cache!Next
  <2> QED BY <2>1, QuietKept, LetGoKept, LookUpCounts, SetCounts, DropCounts, NewSessionKept, FreeObject
<1>2. CASE UNCHANGED Cache!vars
  BY <1>2, QuietCounts DEF Cache!vars, Cache!conn, CountInv, Cache!TypeOK, Pointers
<1> QED BY <1>1, <1>2

LEMMA CountsInvariant ==
  ASSUME Cache!SessionCacheAssumption PROVE Cache!Spec => []CountInv
<1>1. Cache!Init => CountInv
  BY CountsBegin
<1>2. CountInv /\ [Cache!Next]_(Cache!vars) => CountInv'
  BY CountsKept
<1> QED BY <1>1, <1>2, PTL DEF Cache!Spec

-----------------------------------------------------------------------------
(* Each session a thread can still reach was made with the endpoint it is  *)
(* filed under, or was looked up or negotiated for, and with the identity, *)
(* or none, of whoever holds it.                                           *)
SlotsFit ==
  \A i \in Cache!Slots : gSess[i].sess # NoSess =>
    made[gSess[i].sess].peer = gSess[i].key /\ ~made[gSess[i].sess].ident
FoundFit ==
  \A c \in Conns : cached[c] # NoSess =>
    made[cached[c]].peer = peerID[c] /\ ~made[cached[c]].ident /\ ~hasX509[c]
HeldFit ==
  \A c \in Conns : held[c] # NoSess =>
    made[held[c]].peer = peerID[c] /\ made[held[c]].ident = hasX509[c]

FitInv == SlotsFit /\ FoundFit /\ HeldFit

(* A step forgets no session that still has a pointer.                     *)
LEMMA MadeStays ==
  ASSUME Cache!SessionCacheAssumption, CountInv', NEW x \in Sessions,
         made'[x] = made[x] \/ refs'[x] = 0, Pointed(x)'
  PROVE  made'[x] = made[x]
BY PointedCounts DEF CountInv, RefsExact, Cache!RefsExact

LEMMA QuietFits ==
  ASSUME Cache!SessionCacheAssumption, CountInv, FitInv, NEW c \in Conns,
         \/ \E k \in Keys \cup {NoKey} : Cache!SSLSetPeerID(c, k)
         \/ \E h \in Cache!Checks : Cache!SetCheck(c, h)
         \/ Cache!Resumed(c) \/ Cache!Approved(c)
  PROVE  FitInv'
<1>1. UNCHANGED <<gSess, held, cached, made, hasX509>>
  BY DEF Cache!SSLSetPeerID, Cache!SetCheck, Cache!Resumed, Cache!Approved
<1>2. SlotsFit'
  BY <1>1 DEF FitInv, SlotsFit, Cache!Slots
<1>3. CASE \E k \in Keys \cup {NoKey} : Cache!SSLSetPeerID(c, k)
  <2>1. /\ held[c] = NoSess /\ cached[c] = NoSess
        /\ \A d \in Conns : d # c => peerID'[d] = peerID[d]
    BY <1>3 DEF Cache!SSLSetPeerID, CountInv, Pointers, Cache!TypeOK
  <2> QED BY <1>1, <1>2, <2>1 DEF FitInv, FoundFit, HeldFit
<1>4. CASE ~ \E k \in Keys \cup {NoKey} : Cache!SSLSetPeerID(c, k)
  <2>1. UNCHANGED peerID
    BY <1>4 DEF Cache!SetCheck, Cache!Resumed, Cache!Approved
  <2> QED BY <1>1, <1>2, <2>1 DEF FitInv, FoundFit, HeldFit
<1> QED BY <1>3, <1>4

LEMMA ReleaseFits ==
  ASSUME Cache!SessionCacheAssumption, CountInv, CountInv', FitInv, NEW c \in Conns,
         NEW x \in Sessions \cup {NoSess}, Cache!Unref(x), UNCHANGED <<gSess, cached>>,
         \A d \in Conns : d # c => peerID'[d] = peerID[d] /\ hasX509'[d] = hasX509[d]
                                 /\ held'[d] = held[d],
         cached[c] # NoSess => peerID'[c] = peerID[c] /\ hasX509'[c] = hasX509[c],
         \/ held'[c] = NoSess
         \/ held'[c] = held[c] /\ peerID'[c] = peerID[c] /\ hasX509'[c] = hasX509[c]
  PROVE  FitInv'
<1>1. \A s \in Sessions : made'[s] = made[s] \/ refs'[s] = 0
  BY UnrefCounts DEF CountInv
<1>2. \A s \in Sessions : Pointed(s)' => made'[s] = made[s]
  BY <1>1, MadeStays
<1>3. SlotsFit'
  <2>1. ASSUME NEW i \in Cache!Slots, NEW s, s = gSess[i].sess, s # NoSess
        PROVE  s \in Sessions /\ made'[s] = made[s]
    <3>1. s \in Sessions
      BY <2>1 DEF CountInv, Cache!TypeOK
    <3>2. gSess'[i].sess = s
      BY <2>1
    <3>3. Pointed(s)'
      BY <3>2 DEF Pointed, Cache!Slots
    <3> QED BY <1>2, <3>1, <3>3
  <2>2. \A i \in Cache!Slots : gSess[i].sess # NoSess =>
           gSess[i].sess \in Sessions /\ made'[gSess[i].sess] = made[gSess[i].sess]
    BY <2>1
  <2> QED BY <2>2 DEF FitInv, SlotsFit, Cache!Slots
<1>4. FoundFit'
  <2>1. \A d \in Conns : cached[d] # NoSess => cached[d] \in Sessions /\ made'[cached[d]] = made[cached[d]]
    BY <1>2 DEF Pointed, CountInv, Cache!TypeOK
  <2> QED BY <2>1 DEF FitInv, FoundFit
<1>5. HeldFit'
  <2>1. \A d \in Conns : held'[d] # NoSess => held'[d] \in Sessions /\ made'[held'[d]] = made[held'[d]]
    BY <1>2 DEF Pointed, CountInv, Cache!TypeOK
  <2>2. \A d \in Conns : held'[d] # NoSess =>
          held'[d] = held[d] /\ peerID'[d] = peerID[d] /\ hasX509'[d] = hasX509[d]
    OBVIOUS
  <2> QED BY <2>1, <2>2 DEF FitInv, HeldFit
<1> QED BY <1>3, <1>4, <1>5 DEF FitInv

LEMMA LetGoFits ==
  ASSUME Cache!SessionCacheAssumption, CountInv, CountInv', FitInv, NEW c \in Conns,
         \/ Cache!SSLSetPeerDomainName(c)
         \/ \E usable \in BOOLEAN : Cache!SSLSetCertificate(c, usable)
         \/ Cache!Full13(c) \/ Cache!Close(c) \/ Cache!sess_put_drop(c)
  PROVE  FitInv'
<1>1. CASE Cache!sess_put_drop(c)
  <2>1. /\ drop[c] \in Sessions \cup {NoSess} /\ Cache!Unref(drop[c])
        /\ UNCHANGED <<gSess, cached, held, peerID, hasX509>>
    BY <1>1 DEF Cache!sess_put_drop, CountInv, Cache!TypeOK
  <2> QED BY <2>1, ReleaseFits
<1>2. CASE ~ Cache!sess_put_drop(c)
  <2>1. /\ held[c] \in Sessions \cup {NoSess} /\ Cache!Unref(held[c])
        /\ UNCHANGED <<gSess, cached>>
        /\ cached[c] = NoSess /\ held'[c] = NoSess
        /\ \A d \in Conns : d # c => held'[d] = held[d]
    BY <1>2 DEF Cache!SSLSetPeerDomainName, Cache!SSLSetCertificate, Cache!Full13, Cache!Close, Cache!Reinit,
         Cache!Free, CountInv, Cache!TypeOK, Pointers
  <2>2. \A d \in Conns : d # c => peerID'[d] = peerID[d] /\ hasX509'[d] = hasX509[d]
    <3>1. CASE Cache!SSLSetPeerDomainName(c)
      BY <3>1 DEF Cache!SSLSetPeerDomainName
    <3>2. CASE \E usable \in BOOLEAN : Cache!SSLSetCertificate(c, usable)
      BY <3>2 DEF Cache!SSLSetCertificate, CountInv, Cache!TypeOK
    <3>3. CASE Cache!Full13(c)
      BY <3>3 DEF Cache!Full13
    <3>4. CASE Cache!Close(c)
      BY <3>4 DEF Cache!Close, CountInv, Cache!TypeOK
    <3> QED BY <1>2, <3>1, <3>2, <3>3, <3>4
  <2> QED BY <2>1, <2>2, ReleaseFits
<1> QED BY <1>1, <1>2

(* A lookup finds only what is filed under the name its caller gave.       *)
LEMMA LookUpFits ==
  ASSUME Cache!SessionCacheAssumption, CountInv, FitInv, NEW c \in Conns, Cache!ossl_init(c)
  PROVE  FitInv'
<1>1. UNCHANGED <<peerID, hasX509, held, made>>
  BY DEF Cache!ossl_init
<1>2. HeldFit'
  BY <1>1 DEF FitInv, HeldFit
<1>3. CASE UNCHANGED <<gSess, cached>>
  BY <1>1, <1>2, <1>3 DEF FitInv, SlotsFit, FoundFit, Cache!Slots
<1>4. CASE ~ UNCHANGED <<gSess, cached>>
  <2> DEFINE i == Cache!FirstOf(Cache!Hits(peerID[c]))
  <2>1. /\ Cache!Hits(peerID[c]) # {} /\ gSess' = [gSess EXCEPT ![i].lastUse = gSessClock']
        /\ cached' = [cached EXCEPT ![c] = gSess[i].sess] /\ Cache!Offers(c)
    BY <1>4 DEF Cache!ossl_init, Cache!sess_get, Cache!StampHit
  <2>2. i \in Cache!Slots /\ Cache!Holds(i, peerID[c])
    BY <2>1, HitIsSlot
  <2> HIDE DEF i
  <2>3. \A j \in Cache!Slots : gSess'[j].sess = gSess[j].sess /\ gSess'[j].key = gSess[j].key
    BY <2>1, <2>2 DEF CountInv, Cache!TypeOK
  <2>4. SlotsFit'
    BY <1>1, <2>3 DEF FitInv, SlotsFit, Cache!Slots
  <2>5. /\ cached'[c] = gSess[i].sess /\ \A d \in Conns : d # c => cached'[d] = cached[d]
    BY <2>1 DEF CountInv, Cache!TypeOK
  <2>6. gSess[i].sess # NoSess /\ gSess[i].key = peerID[c] /\ ~hasX509[c]
    BY <2>1, <2>2 DEF Cache!Holds, Cache!key_eq, Cache!Offers
  <2>7. FoundFit'
    BY <1>1, <2>2, <2>5, <2>6 DEF FitInv, SlotsFit, FoundFit
  <2> QED BY <1>2, <2>4, <2>7 DEF FitInv
<1> QED BY <1>3, <1>4

LEMMA SetFits ==
  ASSUME Cache!SessionCacheAssumption, CountInv, FitInv, NEW c \in Conns, Cache!SSL_set_session(c)
  PROVE  FitInv'
<1>1. /\ held'[c] = cached[c] /\ cached'[c] = NoSess
      /\ \A d \in Conns : d # c => held'[d] = held[d] /\ cached'[d] = cached[d]
      /\ UNCHANGED <<gSess, peerID, hasX509, made>>
  BY DEF Cache!SSL_set_session, CountInv, Cache!TypeOK
<1>2. SlotsFit' /\ FoundFit'
  BY <1>1 DEF FitInv, SlotsFit, FoundFit, Cache!Slots
<1>3. HeldFit'
  <2> SUFFICES ASSUME NEW d \in Conns, held'[d] # NoSess
               PROVE  made[held'[d]].peer = peerID[d] /\ made[held'[d]].ident = hasX509[d]
    BY <1>1 DEF HeldFit
  <2>1. CASE d = c
    <3>1. cached[c] \in Sessions /\ made[cached[c]].ident \in BOOLEAN /\ hasX509[c] \in BOOLEAN
      BY <1>1, <2>1 DEF CountInv, Cache!TypeOK
    <3> QED BY <1>1, <2>1, <3>1 DEF FitInv, FoundFit
  <2>2. CASE d # c
    BY <1>1, <2>2 DEF FitInv, HeldFit
  <2> QED BY <2>1, <2>2
<1> QED BY <1>2, <1>3 DEF FitInv

(* What a new session leaves of the slots and of the other sessions.       *)
LEMMA NewSessionMade ==
  ASSUME Cache!SessionCacheAssumption, CountInv, CountInv', NEW c \in Conns, NEW s \in Sessions, NEW by \in Cache!Vetted,
         Cache!new_session_cb(c, s, by)
  PROVE  /\ held'[c] = s /\ \A d \in Conns : d # c => held'[d] = held[d]
         /\ ~ Pointed(s)
         /\ made'[s] = [peer |-> peerID[c], ident |-> hasX509[c], by |-> by]
         /\ \A x \in Sessions : x # s /\ Pointed(x)' => made'[x] = made[x]
         /\ \A j \in Cache!Slots :
              \/ gSess'[j].sess = gSess[j].sess /\ gSess'[j].key = gSess[j].key
              \/ gSess'[j].sess = s /\ gSess'[j].key = peerID[c] /\ Cache!Keeps(c)
<1> DEFINE old == held[c]
<1>1. /\ refs[s] = 0 /\ held' = [held EXCEPT ![c] = s] /\ old \in Sessions \cup {NoSess}
      /\ refs \in [Sessions -> Nat]
  BY DEF Cache!new_session_cb, CountInv, Cache!TypeOK
<1>2. ~ Pointed(s)
  BY <1>1, PointedCounts DEF CountInv, RefsExact, Cache!RefsExact
<1>3. made' = [x \in Sessions |->
              IF x = s THEN [peer |-> peerID[c], ident |-> hasX509[c], by |-> by]
              ELSE IF x = old /\ Cache!Gone(old) THEN Cache!NotMade ELSE made[x]]
  BY DEF Cache!new_session_cb
<1>4. s # old
  BY <1>2 DEF Pointed
<1>5. Cache!Gone(old) => old # NoSess /\ old \in Sessions /\ refs'[old] = 0
  <2> DEFINE after == [refs EXCEPT ![s] = IF Cache!Keeps(c) THEN 2 ELSE 1]
  <2>1. refs' = IF old = NoSess THEN after ELSE [after EXCEPT ![old] = @ - 1]
    BY DEF Cache!new_session_cb
  <2>2. after \in [Sessions -> Nat] /\ \A x \in Sessions : x # s => after[x] = refs[x]
    BY <1>1
  <2>3. Cache!Gone(old) => old # NoSess /\ refs[old] = 1
    BY DEF Cache!Gone
  <2> HIDE DEF after
  <2> QED BY <1>1, <1>4, <2>1, <2>2, <2>3
<1>6. \A x \in Sessions : x # s => made'[x] = made[x] \/ refs'[x] = 0
  BY <1>3, <1>5
<1>7. \A x \in Sessions : x # s /\ Pointed(x)' => made'[x] = made[x]
  BY <1>6, MadeStays
<1>8. \A j \in Cache!Slots :
        \/ gSess'[j].sess = gSess[j].sess /\ gSess'[j].key = gSess[j].key
        \/ gSess'[j].sess = s /\ gSess'[j].key = peerID[c] /\ Cache!Keeps(c)
  <2>1. CASE Cache!Keeps(c)
    <3>1. gSess' = [gSess EXCEPT ![Cache!PutSlot(peerID[c])] = [key |-> peerID[c], sess |-> s, lastUse |-> gSessClock']]
      BY <2>1 DEF Cache!new_session_cb, Cache!sess_put
    <3> QED BY <2>1, <3>1 DEF CountInv, Cache!TypeOK
  <2>2. CASE ~ Cache!Keeps(c)
    BY <2>2 DEF Cache!new_session_cb
  <2> QED BY <2>1, <2>2
<1>9. held'[c] = s /\ \A d \in Conns : d # c => held'[d] = held[d]
  BY <1>1 DEF CountInv, Cache!TypeOK
<1>10. made'[s] = [peer |-> peerID[c], ident |-> hasX509[c], by |-> by]
  BY <1>3
<1> QED BY <1>2, <1>7, <1>8, <1>9, <1>10

LEMMA NewSessionFits ==
  ASSUME Cache!SessionCacheAssumption, CountInv, CountInv', FitInv, NEW c \in Conns, NEW s \in Sessions,
         Cache!Full12(c, s) \/ Cache!Ticket(c, s)
  PROVE  FitInv'
<1> DEFINE by == IF Cache!Full12(c, s) THEN Cache!FullVetting(c) ELSE vetted[c]
<1>1. /\ UNCHANGED <<peerID, hasX509, cached>> /\ Cache!new_session_cb(c, s, by) /\ by \in Cache!Vetted
  <2>1. CASE Cache!Full12(c, s)
    BY <2>1 DEF Cache!Full12, Cache!FullVetting, Cache!Vetted
  <2>2. CASE ~Cache!Full12(c, s)
    BY <2>2 DEF Cache!Ticket, CountInv, Cache!TypeOK
  <2> QED BY <2>1, <2>2
<1> HIDE DEF by
<1>2. /\ held'[c] = s /\ \A d \in Conns : d # c => held'[d] = held[d]
      /\ ~ Pointed(s)
      /\ made'[s] = [peer |-> peerID[c], ident |-> hasX509[c], by |-> by]
      /\ \A x \in Sessions : x # s /\ Pointed(x)' => made'[x] = made[x]
      /\ \A j \in Cache!Slots :
           \/ gSess'[j].sess = gSess[j].sess /\ gSess'[j].key = gSess[j].key
           \/ gSess'[j].sess = s /\ gSess'[j].key = peerID[c] /\ Cache!Keeps(c)
  BY <1>1, NewSessionMade
<1>3. SlotsFit'
  <2> SUFFICES ASSUME NEW j \in Cache!Slots, gSess'[j].sess # NoSess
               PROVE  made'[gSess'[j].sess].peer = gSess'[j].key /\ ~made'[gSess'[j].sess].ident
    BY DEF SlotsFit, Cache!Slots
  <2>1. CASE gSess'[j].sess = s /\ gSess'[j].key = peerID[c] /\ Cache!Keeps(c)
    BY <1>2, <2>1 DEF Cache!Keeps
  <2>2. CASE gSess'[j].sess = gSess[j].sess /\ gSess'[j].key = gSess[j].key
    <3>1. PICK x \in Sessions : x = gSess[j].sess /\ x # s
      BY <1>2, <2>2 DEF Pointed, CountInv, Cache!TypeOK
    <3>2. Pointed(x)'
      BY <2>2, <3>1 DEF Pointed, Cache!Slots
    <3>3. made'[x] = made[x]
      BY <1>2, <3>1, <3>2
    <3> QED BY <2>2, <3>1, <3>3 DEF FitInv, SlotsFit
  <2> QED BY <1>2, <2>1, <2>2
<1>4. \A d \in Conns : /\ cached[d] # NoSess => made'[cached[d]] = made[cached[d]]
                       /\ d # c /\ held[d] # NoSess => made'[held[d]] = made[held[d]]
  <2> TAKE d \in Conns
  <2>1. ASSUME cached[d] # NoSess PROVE made'[cached[d]] = made[cached[d]]
    <3>1. cached[d] \in Sessions /\ cached[d] # s /\ cached'[d] = cached[d]
      BY <1>1, <1>2, <2>1 DEF Pointed, CountInv, Cache!TypeOK
    <3>2. Pointed(cached[d])'
      BY <3>1 DEF Pointed
    <3> QED BY <1>2, <3>1, <3>2
  <2>2. ASSUME d # c, held[d] # NoSess PROVE made'[held[d]] = made[held[d]]
    <3>1. held[d] \in Sessions /\ held[d] # s /\ held'[d] = held[d]
      BY <1>2, <2>2 DEF Pointed, CountInv, Cache!TypeOK
    <3>2. Pointed(held[d])'
      BY <3>1 DEF Pointed
    <3> QED BY <1>2, <3>1, <3>2
  <2> QED BY <2>1, <2>2
<1>5. FoundFit'
  BY <1>1, <1>4 DEF FitInv, FoundFit
<1>6. HeldFit'
  BY <1>1, <1>2, <1>4 DEF FitInv, HeldFit
<1> QED BY <1>3, <1>5, <1>6 DEF FitInv

LEMMA FitsBegin ==
  ASSUME Cache!Init PROVE FitInv
BY DEF Cache!Init, Cache!Empty, FitInv, SlotsFit, FoundFit, HeldFit

LEMMA FitsKept ==
  ASSUME Cache!SessionCacheAssumption, CountInv, CountInv', FitInv, [Cache!Next]_(Cache!vars)
  PROVE  FitInv'
<1>1. CASE Cache!Next
  <2>1. PICK c \in Conns :
          \/ \E k \in Keys \cup {NoKey} : Cache!SSLSetPeerID(c, k)
          \/ Cache!SSLSetPeerDomainName(c)
          \/ \E usable \in BOOLEAN : Cache!SSLSetCertificate(c, usable)
          \/ \E h \in Cache!Checks : Cache!SetCheck(c, h)
          \/ Cache!ossl_init(c) \/ Cache!SSL_set_session(c)
          \/ Cache!Resumed(c) \/ Cache!Full13(c)
          \/ \E s \in Cache!SSL_SESSION_new : Cache!Full12(c, s) \/ Cache!Ticket(c, s)
          \/ Cache!sess_put_drop(c) \/ Cache!Approved(c) \/ Cache!Close(c)
    BY <1>1 DEF Cache!Next
  <2> QED BY <2>1, QuietFits, LetGoFits, LookUpFits, SetFits, NewSessionFits, FreeObject
<1>2. CASE UNCHANGED Cache!vars
  BY <1>2 DEF Cache!vars, Cache!conn, FitInv, SlotsFit, FoundFit, HeldFit, Cache!Slots
<1> QED BY <1>1, <1>2

(* A behaviour of MCSpec is one of the session cache's, where the cache    *)
(* moves or rests.                                                         *)
LEMMA PlaysSessions == MCSpec => Cache!Spec
<1>1. MCInit => Cache!Init
  BY DEF MCInit
<1>2. [MCNext]_<<part, vars, chains, sessions>> => [Cache!Next]_(Cache!vars)
  BY DEF MCNext, sessions, Cache!vars, Cache!conn
<1> QED BY <1>1, <1>2, PTL DEF MCSpec, Cache!Spec

-----------------------------------------------------------------------------
(* The session cache's variables have their types in every state.          *)
THEOREM SessionTypes ==
  ASSUME Cache!SessionCacheAssumption PROVE Cache!Spec => []Cache!TypeOK
<1>1. CountInv => Cache!TypeOK
  BY DEF CountInv
<1> QED BY <1>1, CountsInvariant, PTL

(* sess_get, sess_put, new_session_cb and SSL_set_session between them     *)
(* count every pointer to a session once, however the threads interleave   *)
(* and whatever the number of connections and slots: none is freed while a *)
(* slot, an SSL object or a thread's local still points at it.             *)
THEOREM RefsAreExact ==
  ASSUME Cache!SessionCacheAssumption PROVE MCSpec => []RefsExact
<1>1. CountInv => RefsExact
  BY DEF CountInv
<1> QED BY <1>1, CountsInvariant, PlaysSessions, PTL

(* Whatever the threads store, look up and release meanwhile, a connection *)
(* is offered and resumes only what was made with the endpoint its caller  *)
(* named, never with another's certificate, and no session made with a     *)
(* certificate is stored.                                                  *)
THEOREM SessionsFit ==
  ASSUME Cache!SessionCacheAssumption PROVE MCSpec => []SessionFits
<1>1. Cache!Init => FitInv
  BY FitsBegin
<1>2. CountInv /\ CountInv' /\ FitInv /\ [Cache!Next]_(Cache!vars) => FitInv'
  BY FitsKept
<1>3. FitInv => SessionFits
  BY DEF FitInv, SlotsFit, FoundFit, HeldFit, SessionFits, Cache!SessionFits, Cache!RightEndpoint, Cache!NoForeignIdentity
<1> QED BY <1>1, <1>2, <1>3, CountsInvariant, PlaysSessions, PTL DEF Cache!Spec

-----------------------------------------------------------------------------
(* ChainCache as a registry.  The cache as a table: no two used entries    *)
(* have one digest or one stamp.                                           *)
Entry == [used : BOOLEAN, dg : Chains!Digest \cup {Chains!NoDigest}, when : 0..MaxTime, lastUse : Nat]
UsedOf(tab) == {i \in Chains!Slots : tab[i].used}
StampOf(tab) == [i \in UsedOf(tab) |-> tab[i].lastUse]
DigestOf(tab) == [i \in UsedOf(tab) |-> tab[i].dg]
OrderOf(tab) == OrderOfUse(UsedOf(tab), StampOf(tab), DigestOf(tab))

Sound(tab, clock) ==
  /\ tab \in [Chains!Slots -> Entry]
  /\ Clocked(UsedOf(tab), StampOf(tab), DigestOf(tab), Chains!Digest, clock)

LEMMA StampsAre ==
  ASSUME NEW tab
  PROVE  \A i \in UsedOf(tab) : StampOf(tab)[i] = tab[i].lastUse /\ DigestOf(tab)[i] = tab[i].dg
BY DEF StampOf, DigestOf

LEMMA SoundTells ==
  ASSUME NEW tab, NEW clock, Sound(tab, clock)
  PROVE  /\ Table(UsedOf(tab), StampOf(tab), DigestOf(tab), Chains!Digest)
         /\ tab \in [Chains!Slots -> Entry] /\ clock \in Nat
         /\ \A i \in UsedOf(tab) : tab[i].dg \in Chains!Digest
         /\ \A i, j \in UsedOf(tab) : tab[i].dg = tab[j].dg => i = j
<1>1. /\ Table(UsedOf(tab), StampOf(tab), DigestOf(tab), Chains!Digest)
      /\ tab \in [Chains!Slots -> Entry] /\ clock \in Nat
  BY DEF Sound, Clocked
<1>2. /\ \A i \in UsedOf(tab) : DigestOf(tab)[i] \in Chains!Digest
      /\ \A i, j \in UsedOf(tab) : DigestOf(tab)[i] = DigestOf(tab)[j] => i = j
  BY <1>1 DEF Table
<1> QED BY <1>1, <1>2, StampsAre

(* Slot x is written: stamped anew, and of digest dg from now on.          *)
Written(x, dg, tab, clock, tab2) ==
  /\ x \in Chains!Slots /\ dg \in Chains!Digest
  /\ \A i \in UsedOf(tab) \ {x} : tab[i].dg # dg
  /\ tab2 \in [Chains!Slots -> Entry]
  /\ tab2[x].used /\ tab2[x].dg = dg /\ tab2[x].lastUse = clock + 1
  /\ \A i \in Chains!Slots \ {x} : tab2[i] = tab[i]

(* An entry in use goes to the end of the order, under its new digest; an  *)
(* unused one is added there.                                              *)
LEMMA WrittenOrder ==
  ASSUME NEW tab, NEW clock, Sound(tab, clock), NEW x, NEW dg, NEW tab2,
         Written(x, dg, tab, clock, tab2)
  PROVE  /\ Sound(tab2, clock + 1)
         /\ x \in UsedOf(tab) =>
              OrderOf(tab2) = Append(RemoveAt(OrderOf(tab), PlaceIn(OrderOf(tab), tab[x].dg)), dg)
         /\ x \notin UsedOf(tab) => OrderOf(tab2) = Append(OrderOf(tab), dg)
<1>1. /\ UsedOf(tab2) = UsedOf(tab) \cup {x} /\ x \in UsedOf(tab2)
      /\ \A i \in UsedOf(tab) \ {x} : tab2[i] = tab[i] /\ i \in UsedOf(tab2)
  BY DEF UsedOf, Written
<1>2. PICK u, st, dgs, st2, dgs2 :
        u = UsedOf(tab) /\ st = StampOf(tab) /\ dgs = DigestOf(tab) /\ st2 = StampOf(tab2) /\ dgs2 = DigestOf(tab2)
  OBVIOUS
<1>3. Recorded(x, dg, u, st, dgs, Chains!Digest, clock, st2, dgs2)
  <2>1. Clocked(u, st, dgs, Chains!Digest, clock) /\ dg \in Chains!Digest
    BY <1>2 DEF Sound, Written
  <2>2. st2[x] = clock + 1 /\ dgs2[x] = dg
    BY <1>1, <1>2, StampsAre DEF Written
  <2>3. \A i \in u \ {x} : dgs[i] # dg
    BY <1>2, StampsAre DEF Written
  <2>4. \A i \in u \ {x} : st2[i] = st[i] /\ dgs2[i] = dgs[i]
    BY <1>1, <1>2, StampsAre
  <2> QED BY <2>1, <2>2, <2>3, <2>4 DEF Recorded
<1>4. Clocked(u \cup {x}, st2, dgs2, Chains!Digest, clock + 1)
  BY <1>3, RecordedClocked
<1>5. /\ dgs2[x] = dg
      /\ x \in u => Refills(x, u, st, dgs, Chains!Digest, st2, dgs2)
      /\ x \notin u => Grows(x, u, st, dgs, Chains!Digest, st2, dgs2)
  BY <1>3, RecordedUsed
<1>6. ASSUME x \in u
      PROVE  OrderOfUse(u \cup {x}, st2, dgs2)
               = Append(RemoveAt(OrderOfUse(u, st, dgs), PlaceIn(OrderOfUse(u, st, dgs), dgs[x])), dg)
  <2>1. u \cup {x} = u
    BY <1>6
  <2>2. OrderOfUse(u, st2, dgs2)
          = Append(RemoveAt(OrderOfUse(u, st, dgs), PlaceIn(OrderOfUse(u, st, dgs), dgs[x])), dgs2[x])
    BY <1>6, <1>5, OrderRefilled
  <2> QED BY <1>5, <2>1, <2>2
<1>7. ASSUME x \notin u
       PROVE  OrderOfUse(u \cup {x}, st2, dgs2) = Append(OrderOfUse(u, st, dgs), dg)
  <2>1. OrderOfUse(u \cup {x}, st2, dgs2) = Append(OrderOfUse(u, st, dgs), dgs2[x])
    BY <1>7, <1>5, OrderGrown
  <2> QED BY <1>5, <2>1
<1>8. Sound(tab2, clock + 1)
  BY <1>1, <1>2, <1>4 DEF Sound, Written
<1>9. OrderOf(tab2) = OrderOfUse(u \cup {x}, st2, dgs2) /\ OrderOf(tab) = OrderOfUse(u, st, dgs)
  BY <1>1, <1>2 DEF OrderOf
<1>10. x \in UsedOf(tab) => dgs[x] = tab[x].dg
  BY <1>2, StampsAre
<1> QED BY <1>2, <1>6, <1>7, <1>8, <1>9, <1>10

LEMMA Forgotten ==
  ASSUME NEW tab, NEW clock, Sound(tab, clock), NEW x \in UsedOf(tab), NEW tab2,
         tab2 = [tab EXCEPT ![x].used = FALSE]
  PROVE  /\ Sound(tab2, clock)
         /\ OrderOf(tab2) = RemoveAt(OrderOf(tab), PlaceIn(OrderOf(tab), tab[x].dg))
<1>1. tab2 \in [Chains!Slots -> Entry] /\ ~tab2[x].used /\ \A i \in Chains!Slots \ {x} : tab2[i] = tab[i]
  BY DEF Sound, Entry, UsedOf
<1>2. UsedOf(tab2) = UsedOf(tab) \ {x} /\ \A i \in UsedOf(tab) \ {x} : tab2[i] = tab[i]
  BY <1>1 DEF UsedOf
<1>3. PICK u, st, dgs, st2, dgs2 :
        u = UsedOf(tab) /\ st = StampOf(tab) /\ dgs = DigestOf(tab) /\ st2 = StampOf(tab2) /\ dgs2 = DigestOf(tab2)
  OBVIOUS
<1>4. Drops(x, u, st, dgs, Chains!Digest, clock, st2, dgs2)
  <2>1. Clocked(u, st, dgs, Chains!Digest, clock) /\ x \in u
    BY <1>3 DEF Sound
  <2>2. ASSUME NEW i \in u \ {x} PROVE st2[i] = st[i] /\ dgs2[i] = dgs[i]
    <3>1. i \in UsedOf(tab) /\ i \in UsedOf(tab2) /\ tab2[i] = tab[i]
      BY <1>2, <1>3
    <3> QED BY <1>3, <3>1 DEF StampOf, DigestOf
  <2> QED BY <2>1, <2>2 DEF Drops
<1>5. /\ Clocked(u \ {x}, st2, dgs2, Chains!Digest, clock)
      /\ OrderOfUse(u \ {x}, st2, dgs2) = RemoveAt(OrderOfUse(u, st, dgs), PlaceIn(OrderOfUse(u, st, dgs), dgs[x]))
  BY <1>4, DroppedOrder
<1>6. OrderOf(tab2) = OrderOfUse(u \ {x}, st2, dgs2) /\ OrderOf(tab) = OrderOfUse(u, st, dgs)
  BY <1>2, <1>3 DEF OrderOf
<1>7. Sound(tab2, clock)
  BY <1>1, <1>2, <1>3, <1>5 DEF Sound
<1> QED BY <1>3, <1>5, <1>6, <1>7, StampsAre

LEMMA RegistryIs ==
  ASSUME NEW k
  PROVE  /\ Registry!Has(k) <=> k \in ToSet(UseOrder)
         /\ Registry!Without(k) = RemoveAt(UseOrder, PlaceIn(UseOrder, k))
BY DEF Registry!Has, Registry!ToSet, ToSet, Registry!Without, Registry!RemoveAt, RemoveAt, Registry!Place, PlaceIn

LEMMA UseOrderIs ==
  /\ UseOrder = OrderOf(gChainOk) /\ UseOrder' = OrderOf(gChainOk')
  /\ Used = UsedOf(gChainOk)
<1>1. UseOrder = OrderOf(gChainOk) /\ Used = UsedOf(gChainOk)
  BY DEF UseOrder, Used, OrderOf, UsedOf, StampOf, DigestOf
<1>2. UseOrder' = OrderOf(gChainOk')
  BY DEF UseOrder, Used, OrderOf, UsedOf, StampOf, DigestOf
<1> QED BY <1>1, <1>2

CacheInv ==
  /\ Sound(gChainOk, gChainOkClock)
  /\ now \in 0..MaxTime /\ asks \in [Threads -> Questions]

(* What the order of a sound cache is.                                     *)
LEMMA OrderOfCache ==
  ASSUME Chains!ChainCacheAssumption, CacheInv
  PROVE  /\ Cardinality(Used) \in Nat /\ UseOrder \in Seq(Chains!Digest) /\ Len(UseOrder) = Cardinality(Used)
         /\ ToSet(UseOrder) = {gChainOk[i].dg : i \in Used}
<1>1. Table(Used, StampOf(gChainOk), DigestOf(gChainOk), Chains!Digest)
  BY SoundTells, UseOrderIs DEF CacheInv
<1>2. UseOrder = OrderOfUse(Used, StampOf(gChainOk), DigestOf(gChainOk))
  BY UseOrderIs DEF OrderOf
<1>3. /\ Cardinality(Used) \in Nat /\ UseOrder \in Seq(Chains!Digest) /\ Len(UseOrder) = Cardinality(Used)
      /\ ToSet(UseOrder) = {DigestOf(gChainOk)[i] : i \in Used}
  BY <1>1, <1>2, OrderFacts
<1>4. \A i \in Used : DigestOf(gChainOk)[i] = gChainOk[i].dg
  BY UseOrderIs DEF DigestOf
<1> QED BY <1>3, <1>4

LEMMA CacheBegins ==
  ASSUME Chains!ChainCacheAssumption, Chains!Init
  PROVE  CacheInv /\ Registry!Init
<1>1. Chains!Idle \in Questions
  BY IdleAsks
<1>2. CacheInv
  <2>1. gChainOk \in [Chains!Slots -> Entry]
    BY DEF Chains!ChainCacheAssumption, Chains!Init, Chains!Unused, Entry
  <2>2. UsedOf(gChainOk) = {}
    BY DEF Chains!Init, Chains!Unused, UsedOf
  <2>3. gChainOkClock \in Nat /\ now \in 0..MaxTime /\ asks \in [Threads -> Questions]
    BY <1>1 DEF Chains!Init, Chains!ChainCacheAssumption
  <2>4. Clocked({}, StampOf(gChainOk), DigestOf(gChainOk), Chains!Digest, gChainOkClock)
    BY <2>3, FS_EmptySet DEF Clocked, Table, Stamped
  <2> QED BY <2>1, <2>2, <2>3, <2>4 DEF CacheInv, Sound
<1>3. Used = {}
  BY DEF Used, Chains!Init, Chains!Unused
<1>4. Len(UseOrder) = 0 /\ UseOrder \in Seq(Chains!Digest)
  BY <1>2, <1>3, OrderOfCache, FS_EmptySet
<1> QED BY <1>2, <1>4, EmptySeq DEF Registry!Init

(* Finding a digest is a use of it, recording one a use, an addition or    *)
(* the eviction of the digest used longest ago, and an expired entry one   *)
(* forgotten.                                                              *)
LEMMA HitIsUse ==
  ASSUME Chains!ChainCacheAssumption, CacheInv, NEW t \in Threads, Chains!chain_ok_get_hit(t)
  PROVE  CacheInv' /\ Registry!Next
<1> DEFINE dg == Chains!chain_ok_digest(asks[t])
           x == Chains!FirstOf(Chains!Hits(dg))
<1>1. /\ Chains!Hits(dg) # {} /\ gChainOkClock' = gChainOkClock + 1
      /\ gChainOk' = [gChainOk EXCEPT ![x].lastUse = gChainOkClock + 1] /\ now' = now
      /\ asks' \in [Threads -> Questions]
  <2>1. asks' = [asks EXCEPT ![t] = Chains!Idle] /\ Chains!Idle \in Questions
    BY IdleAsks DEF Chains!chain_ok_get_hit, Chains!Answer
  <2> QED BY <2>1 DEF Chains!chain_ok_get_hit, Chains!Tick, Chains!clocks, CacheInv
<1>2. x \in Used /\ gChainOk[x].dg = dg
  <2>1. x \in Chains!Hits(dg)
    BY <1>1, FirstIsIn DEF Chains!Hits, Chains!ChainCacheAssumption, Chains!Slots
  <2> QED BY <2>1 DEF Chains!Hits, Used
<1> HIDE DEF dg, x
<1>3. /\ gChainOk \in [Chains!Slots -> Entry] /\ gChainOkClock + 1 \in Nat
      /\ dg \in Chains!Digest /\ x \in UsedOf(gChainOk)
      /\ \A i \in UsedOf(gChainOk) \ {x} : gChainOk[i].dg # dg
  BY <1>2, UseOrderIs, SoundTells DEF CacheInv
<1>4. Written(x, dg, gChainOk, gChainOkClock, gChainOk')
  <2>1. x \in Chains!Slots /\ gChainOk[x].used
    BY <1>3 DEF UsedOf
  <2>2. gChainOk' \in [Chains!Slots -> Entry]
    BY <1>1, <1>3 DEF Entry
  <2>3. gChainOk'[x].used /\ gChainOk'[x].dg = dg /\ gChainOk'[x].lastUse = gChainOkClock + 1
    BY <1>1, <1>2, <1>3, <2>1 DEF Entry
  <2>4. \A i \in Chains!Slots \ {x} : gChainOk'[i] = gChainOk[i]
    BY <1>1, <1>3
  <2> QED BY <1>3, <2>1, <2>2, <2>3, <2>4 DEF Written
<1>5. Sound(gChainOk', gChainOkClock')
  BY <1>1, <1>4, WrittenOrder DEF CacheInv
<1>6. UseOrder' = Append(RemoveAt(UseOrder, PlaceIn(UseOrder, dg)), dg)
  BY <1>2, <1>3, <1>4, WrittenOrder, UseOrderIs DEF CacheInv
<1>7. dg \in ToSet(UseOrder)
  BY <1>2, OrderOfCache
<1>8. Registry!Use(dg)
  BY <1>6, <1>7, RegistryIs DEF Registry!Use
<1>9. CacheInv'
  BY <1>1, <1>5 DEF CacheInv
<1> QED BY <1>3, <1>8, <1>9 DEF Registry!Next

LEMMA MissIsForget ==
  ASSUME Chains!ChainCacheAssumption, CacheInv, NEW t \in Threads, Chains!chain_ok_get_miss(t)
  PROVE  CacheInv' /\ (Registry!Next \/ UNCHANGED UseOrder)
<1> DEFINE dg == Chains!chain_ok_digest(asks[t])
           x == Chains!FirstOf(Chains!Hits(dg))
<1>1. gChainOkClock' = gChainOkClock /\ now' = now /\ asks' = asks
  BY DEF Chains!chain_ok_get_miss, Chains!clocks
<1>2. CASE Chains!Hits(dg) = {}
  <2>1. gChainOk' = gChainOk
    BY <1>2 DEF Chains!chain_ok_get_miss
  <2>2. UseOrder' = UseOrder
    BY <2>1, UseOrderIs
  <2>3. CacheInv'
    BY <1>1, <2>1 DEF CacheInv
  <2> QED BY <2>2, <2>3
<1>3. CASE Chains!Hits(dg) # {}
  <2>1. gChainOk' = [gChainOk EXCEPT ![x].used = FALSE]
    BY <1>3 DEF Chains!chain_ok_get_miss
  <2>2. x \in Used /\ gChainOk[x].dg = dg
    <3>1. x \in Chains!Hits(dg)
      BY <1>3, FirstIsIn DEF Chains!Hits, Chains!ChainCacheAssumption, Chains!Slots
    <3> QED BY <3>1 DEF Chains!Hits, Used
  <2> HIDE DEF dg, x
  <2>3. /\ Sound(gChainOk', gChainOkClock)
        /\ OrderOf(gChainOk') = RemoveAt(OrderOf(gChainOk), PlaceIn(OrderOf(gChainOk), dg))
    BY <2>1, <2>2, UseOrderIs, Forgotten DEF CacheInv
  <2>4. dg \in ToSet(UseOrder) /\ dg \in Chains!Digest
    <3>1. dg \in ToSet(UseOrder)
      BY <2>2, OrderOfCache
    <3> QED BY <2>2, <3>1, UseOrderIs, SoundTells DEF CacheInv
  <2>5. Registry!Forget(dg)
    BY <2>3, <2>4, UseOrderIs, RegistryIs DEF Registry!Forget
  <2>6. CacheInv'
    BY <1>1, <2>3 DEF CacheInv
  <2> QED BY <2>4, <2>5, <2>6 DEF Registry!Next
<1> QED BY <1>2, <1>3

LEMMA LeastRecentIs ==
  ASSUME Chains!ChainCacheAssumption, CacheInv, Chains!FreeSlots = {}
  PROVE  /\ Used = Chains!Slots
         /\ Chains!FirstOf(Chains!LeastRecent) \in Chains!LeastRecent
<1>1. Used = Chains!Slots
  BY DEF Used, Chains!FreeSlots
<1>2. Stamped(Used, StampOf(gChainOk)) /\ \A i \in Used : StampOf(gChainOk)[i] = gChainOk[i].lastUse
  BY SoundTells, StampsAre, UseOrderIs DEF CacheInv, Table
<1>3. 1 \in Chains!Slots
  BY DEF Chains!Slots, Chains!ChainCacheAssumption
<1>4. \E x \in Used : \A e \in Used : StampOf(gChainOk)[x] <= StampOf(gChainOk)[e]
  BY <1>1, <1>2, <1>3, OldestExists
<1>5. Chains!LeastRecent # {} /\ Chains!LeastRecent \in SUBSET Chains!Slots
  BY <1>1, <1>2, <1>4 DEF Chains!LeastRecent
<1> QED BY <1>1, <1>5, FirstIsIn

LEMMA PutIsRecord ==
  ASSUME Chains!ChainCacheAssumption, CacheInv, NEW t \in Threads, Chains!chain_ok_put(t)
  PROVE  CacheInv' /\ Registry!Next
<1> DEFINE dg == Chains!chain_ok_digest(asks[t])
           x == Chains!PutSlot(dg)
<1>1. /\ gChainOkClock' = gChainOkClock + 1 /\ now' = now /\ asks' \in [Threads -> Questions]
      /\ gChainOk' = [gChainOk EXCEPT ![x] =
                        [used |-> TRUE, dg |-> dg, when |-> now, lastUse |-> gChainOkClock + 1]]
  <2>1. asks' = [asks EXCEPT ![t] = Chains!Idle] /\ Chains!Idle \in Questions
    BY IdleAsks DEF Chains!chain_ok_put, Chains!Answer
  <2> QED BY <2>1 DEF Chains!chain_ok_put, Chains!Tick, Chains!clocks, CacheInv
<1>2. dg \in Chains!Digest
  BY DEF CacheInv, Chains!chain_ok_digest, Chains!Digest
<1>3. Chains!Hits(dg) = {i \in Used : gChainOk[i].dg = dg}
  BY DEF Chains!Hits, Used
<1>4. ToSet(UseOrder) = {gChainOk[i].dg : i \in Used}
  BY OrderOfCache
<1>5. \/ x \in Used /\ gChainOk[x].dg = dg
      \/ x \in Chains!Slots \ Used /\ Chains!Hits(dg) = {}
      \/ Chains!FreeSlots = {} /\ x \in Chains!LeastRecent /\ Chains!Hits(dg) = {}
  <2>1. CASE Chains!Hits(dg) # {}
    <3>1. x \in Chains!Hits(dg)
      BY <2>1, FirstIsIn DEF Chains!PutSlot, Chains!Hits
    <3> QED BY <1>3, <3>1
  <2>2. CASE Chains!Hits(dg) = {} /\ Chains!FreeSlots # {}
    <3>1. x \in Chains!FreeSlots
      BY <2>2, FirstIsIn DEF Chains!PutSlot, Chains!FreeSlots
    <3> QED BY <2>2, <3>1 DEF Chains!FreeSlots, Used
  <2>3. CASE Chains!Hits(dg) = {} /\ Chains!FreeSlots = {}
    BY <2>3, LeastRecentIs DEF Chains!PutSlot
  <2> QED BY <2>1, <2>2, <2>3
<1> HIDE DEF dg, x
<1>6. /\ gChainOk \in [Chains!Slots -> Entry] /\ gChainOkClock \in Nat /\ now \in 0..MaxTime
      /\ \A i, j \in Used : gChainOk[i].dg = gChainOk[j].dg => i = j
  BY UseOrderIs, SoundTells DEF CacheInv
<1>7. x \in Chains!Slots /\ \A i \in Used \ {x} : gChainOk[i].dg # dg
  <2>1. x \in Chains!Slots
    BY <1>5 DEF Used, Chains!LeastRecent
  <2> QED BY <1>3, <1>5, <1>6, <2>1
<1>8. Written(x, dg, gChainOk, gChainOkClock, gChainOk')
  <2>1. [used |-> TRUE, dg |-> dg, when |-> now, lastUse |-> gChainOkClock + 1] \in Entry
    BY <1>2, <1>6 DEF Entry
  <2>2. gChainOk' \in [Chains!Slots -> Entry]
    BY <1>1, <1>6, <2>1
  <2>3. gChainOk'[x].used /\ gChainOk'[x].dg = dg /\ gChainOk'[x].lastUse = gChainOkClock + 1
    BY <1>1, <1>6, <1>7
  <2>4. \A i \in Chains!Slots \ {x} : gChainOk'[i] = gChainOk[i]
    BY <1>1, <1>6
  <2> QED BY <1>2, <1>7, <2>2, <2>3, <2>4, UseOrderIs DEF Written
<1>9. CacheInv'
  <2>1. Sound(gChainOk', gChainOkClock')
    BY <1>1, <1>8, WrittenOrder DEF CacheInv
  <2> QED BY <1>1, <2>1 DEF CacheInv
<1>10. /\ x \in Used => UseOrder' = Append(RemoveAt(UseOrder, PlaceIn(UseOrder, gChainOk[x].dg)), dg)
       /\ x \notin Used => UseOrder' = Append(UseOrder, dg)
  BY <1>8, WrittenOrder, UseOrderIs DEF CacheInv
<1>11. CASE x \in Used /\ gChainOk[x].dg = dg
  <2>1. Registry!Use(dg)
    BY <1>4, <1>10, <1>11, RegistryIs DEF Registry!Use
  <2> QED BY <1>2, <1>9, <2>1 DEF Registry!Next
<1>12. CASE Chains!Hits(dg) = {}
  <2>1. ~Registry!Has(dg)
    BY <1>3, <1>4, <1>12, RegistryIs
  <2>2. IsFiniteSet(Chains!Slots) /\ Cardinality(Chains!Slots) = MAXCHOK /\ MAXCHOK \in Nat
    <3>1. MAXCHOK \in Nat /\ MAXCHOK # 0
      BY DEF Chains!ChainCacheAssumption
    <3>2. IsFiniteSet(1..MAXCHOK) /\ Cardinality(1..MAXCHOK) = IF 1 > MAXCHOK THEN 0 ELSE MAXCHOK - 1 + 1
      BY <3>1, FS_Interval
    <3>3. Cardinality(1..MAXCHOK) = MAXCHOK
      BY <3>1, <3>2
    <3> QED BY <3>1, <3>2, <3>3 DEF Chains!Slots
  <2>3. Used \in SUBSET Chains!Slots /\ Len(UseOrder) = Cardinality(Used)
    BY OrderOfCache DEF Used
  <2>4. CASE x \in Chains!Slots \ Used
    <3>1. Len(UseOrder) # MAXCHOK
      BY <2>2, <2>3, <2>4, FS_Subset
    <3>2. Registry!Add(dg)
      BY <1>10, <2>1, <2>4, <3>1 DEF Registry!Add
    <3> QED BY <1>2, <1>9, <3>2 DEF Registry!Next
  <2>5. CASE Chains!FreeSlots = {} /\ x \in Chains!LeastRecent
    <3>1. Used = Chains!Slots /\ Len(UseOrder) = MAXCHOK
      BY <2>2, <2>3, <2>5, LeastRecentIs
    <3>2. RemoveAt(UseOrder, PlaceIn(UseOrder, gChainOk[x].dg)) = Tail(UseOrder)
      <4>1. Table(Used, StampOf(gChainOk), DigestOf(gChainOk), Chains!Digest)
        BY SoundTells, UseOrderIs DEF CacheInv
      <4>2. \A i \in Used : StampOf(gChainOk)[i] = gChainOk[i].lastUse /\ DigestOf(gChainOk)[i] = gChainOk[i].dg
        BY UseOrderIs DEF StampOf, DigestOf
      <4>3. x \in Used /\ \A e \in Used : StampOf(gChainOk)[x] <= StampOf(gChainOk)[e]
        BY <1>7, <2>5, <3>1, <4>2 DEF Chains!LeastRecent
      <4>4. UseOrder = OrderOfUse(Used, StampOf(gChainOk), DigestOf(gChainOk))
        BY UseOrderIs DEF OrderOf
      <4> QED BY <4>1, <4>2, <4>3, <4>4, OldestIsFirst
    <3>3. UseOrder' = Append(Tail(UseOrder), dg)
      BY <1>7, <1>10, <3>1, <3>2
    <3>4. Registry!Add(dg)
      BY <2>1, <3>1, <3>3 DEF Registry!Add
    <3> QED BY <1>2, <1>9, <3>4 DEF Registry!Next
  <2> QED BY <1>5, <1>12, <2>4, <2>5, <1>3
<1> QED BY <1>5, <1>11, <1>12

LEMMA OrderStays ==
  ASSUME Chains!ChainCacheAssumption, CacheInv, UNCHANGED <<gChainOk, gChainOkClock>>,
         now' \in 0..MaxTime, asks' \in [Threads -> Questions]
  PROVE  CacheInv' /\ UNCHANGED UseOrder
<1>1. UseOrder' = UseOrder
  BY UseOrderIs
<1> QED BY <1>1 DEF CacheInv

(* Every step of the cache is a step of the registry or leaves its order.  *)
LEMMA CacheSteps ==
  ASSUME Chains!ChainCacheAssumption, CacheInv, [Chains!Next]_(Chains!vars)
  PROVE  CacheInv' /\ (Registry!Next \/ UNCHANGED UseOrder)
<1>1. now \in 0..MaxTime /\ asks \in [Threads -> Questions] /\ Chains!Idle \in Questions
  BY IdleAsks DEF CacheInv
<1>2. ASSUME NEW t \in Threads, Chains!chain_ok_get_hit(t) PROVE CacheInv' /\ (Registry!Next \/ UNCHANGED UseOrder)
  BY <1>2, HitIsUse
<1>3. ASSUME NEW t \in Threads, Chains!chain_ok_get_miss(t) PROVE CacheInv' /\ (Registry!Next \/ UNCHANGED UseOrder)
  BY <1>3, MissIsForget
<1>4. ASSUME NEW t \in Threads, Chains!chain_ok_put(t) PROVE CacheInv' /\ (Registry!Next \/ UNCHANGED UseOrder)
  BY <1>4, PutIsRecord
<1>5. ASSUME NEW t \in Threads,
             \/ Chains!verify_chain_waived(t)
             \/ \E q \in Questions : Chains!verify_chain(t, q)
             \/ \E ok \in BOOLEAN : Chains!SecTrustEvaluate(t, ok)
      PROVE  CacheInv' /\ (Registry!Next \/ UNCHANGED UseOrder)
  <2>1. UNCHANGED <<gChainOk, gChainOkClock>> /\ now' = now
    BY <1>5 DEF Chains!verify_chain_waived, Chains!verify_chain, Chains!SecTrustEvaluate, Chains!clocks
  <2>2. asks' \in [Threads -> Questions]
    BY <1>1, <1>5 DEF Chains!verify_chain_waived, Chains!verify_chain, Chains!SecTrustEvaluate, Chains!Answer
  <2> QED BY <1>1, <2>1, <2>2, OrderStays
<1>6. CASE Chains!Second \/ Chains!SetClock
  <2>1. UNCHANGED <<gChainOk, gChainOkClock, asks>> /\ now' \in 0..MaxTime
    BY <1>1, <1>6 DEF Chains!Second, Chains!SetClock, Chains!ChainCacheAssumption
  <2> QED BY <1>1, <2>1, OrderStays
<1>7. CASE UNCHANGED Chains!vars
  BY <1>1, <1>7, OrderStays DEF Chains!vars, Chains!clocks
<1> QED BY <1>2, <1>3, <1>4, <1>5, <1>6, <1>7 DEF Chains!Next

(* The chain cache behaves as a registry of MAXCHOK digests, in order of   *)
(* use (chain_ok_get and chain_ok_put): a new one takes the place of the   *)
(* one used longest ago, and an expired one is forgotten.                  *)
LEMMA ChainsAreRegistry ==
  ASSUME Chains!ChainCacheAssumption PROVE MCSpec => Registry!Spec
<1>1. MCInit => Chains!Init
  BY DEF MCInit
<1>2. [MCNext]_<<part, vars, chains, sessions>> => [Chains!Next]_(Chains!vars)
  BY DEF MCNext, chains, Chains!vars, Chains!clocks
<1>3. MCInit => CacheInv /\ Registry!Init
  BY <1>1, CacheBegins
<1>4. CacheInv /\ [MCNext]_<<part, vars, chains, sessions>> => CacheInv' /\ [Registry!Next]_UseOrder
  BY <1>2, CacheSteps
<1> QED BY <1>3, <1>4, PTL DEF MCSpec, Registry!Spec

-----------------------------------------------------------------------------
(* SessionCache as a registry of the endpoints it has a session of.        *)
StoredIn(tab) == {i \in Cache!Slots : tab[i].sess # NoSess}
UseOf(tab) == [i \in StoredIn(tab) |-> tab[i].lastUse]
KeyOf(tab) == [i \in StoredIn(tab) |-> tab[i].key]
OrderIn(tab) == OrderOfUse(StoredIn(tab), UseOf(tab), KeyOf(tab))
Filed(tab, clock) == Clocked(StoredIn(tab), UseOf(tab), KeyOf(tab), Keys, clock)

LEMMA SessionOrderIs ==
  /\ SessionOrder = OrderIn(gSess) /\ SessionOrder' = OrderIn(gSess')
  /\ Stored = StoredIn(gSess)
<1>1. SessionOrder = OrderIn(gSess) /\ Stored = StoredIn(gSess)
  BY DEF SessionOrder, Stored, OrderIn, StoredIn, UseOf, KeyOf
<1>2. SessionOrder' = OrderIn(gSess')
  BY DEF SessionOrder, Stored, OrderIn, StoredIn, UseOf, KeyOf
<1> QED BY <1>1, <1>2

LEMMA FiledTells ==
  ASSUME NEW tab, NEW clock, Filed(tab, clock)
  PROVE  /\ Table(StoredIn(tab), UseOf(tab), KeyOf(tab), Keys)
         /\ \A i \in StoredIn(tab) : tab[i].key \in Keys /\ tab[i].lastUse \in Nat
         /\ \A i, j \in StoredIn(tab) : tab[i].key = tab[j].key => i = j
         /\ \A i \in StoredIn(tab) : UseOf(tab)[i] = tab[i].lastUse /\ KeyOf(tab)[i] = tab[i].key
         /\ OrderIn(tab) \in Seq(Keys) /\ Len(OrderIn(tab)) = Cardinality(StoredIn(tab))
         /\ Cardinality(StoredIn(tab)) \in Nat
         /\ ToSet(OrderIn(tab)) = {tab[i].key : i \in StoredIn(tab)}
<1>1. \A i \in StoredIn(tab) : UseOf(tab)[i] = tab[i].lastUse /\ KeyOf(tab)[i] = tab[i].key
  BY DEF UseOf, KeyOf
<1>2. Table(StoredIn(tab), UseOf(tab), KeyOf(tab), Keys)
  BY DEF Filed, Clocked
<1>3. /\ \A i \in StoredIn(tab) : tab[i].key \in Keys /\ tab[i].lastUse \in Nat
      /\ \A i, j \in StoredIn(tab) : tab[i].key = tab[j].key => i = j
  BY <1>1, <1>2 DEF Table, Stamped
<1>4. /\ OrderIn(tab) \in Seq(Keys) /\ Len(OrderIn(tab)) = Cardinality(StoredIn(tab))
      /\ Cardinality(StoredIn(tab)) \in Nat
      /\ ToSet(OrderIn(tab)) = {KeyOf(tab)[i] : i \in StoredIn(tab)}
  BY <1>2, OrderFacts DEF OrderIn
<1>5. {KeyOf(tab)[i] : i \in StoredIn(tab)} = {tab[i].key : i \in StoredIn(tab)}
  BY <1>1
<1> QED BY <1>1, <1>2, <1>3, <1>4, <1>5

(* Slot x is stamped and of endpoint k from now on: it was before, or it   *)
(* was free or the one used longest ago and no slot was of k.              *)
Restamps(x, k, tab, clock, tab2) ==
  /\ x \in Cache!Slots /\ k \in Keys
  /\ \A i \in StoredIn(tab) \ {x} : tab[i].key # k
  /\ tab2[x].sess # NoSess /\ tab2[x].key = k /\ tab2[x].lastUse = clock + 1
  /\ \A i \in Cache!Slots \ {x} : tab2[i] = tab[i]
PlaceFor(x, k, tab) ==
  \/ x \in StoredIn(tab) /\ tab[x].key = k
  \/ k \notin {tab[i].key : i \in StoredIn(tab)}
       /\ (x \in StoredIn(tab) => /\ StoredIn(tab) = Cache!Slots
                                  /\ \A i \in Cache!Slots : tab[x].lastUse <= tab[i].lastUse)

LEMMA RestampedOrder ==
  ASSUME NEW tab, NEW clock, Filed(tab, clock), NEW x, NEW k, NEW tab2,
         Restamps(x, k, tab, clock, tab2)
  PROVE  /\ Filed(tab2, clock + 1)
         /\ x \in StoredIn(tab) =>
              OrderIn(tab2) = Append(RemoveAt(OrderIn(tab), PlaceIn(OrderIn(tab), tab[x].key)), k)
         /\ x \notin StoredIn(tab) => OrderIn(tab2) = Append(OrderIn(tab), k)
<1>1. /\ StoredIn(tab2) = StoredIn(tab) \cup {x} /\ x \in StoredIn(tab2)
      /\ \A i \in StoredIn(tab) \ {x} : tab2[i] = tab[i] /\ i \in StoredIn(tab2)
  BY DEF StoredIn, Restamps
<1>2. PICK u, st, ks, st2, ks2 :
        u = StoredIn(tab) /\ st = UseOf(tab) /\ ks = KeyOf(tab) /\ st2 = UseOf(tab2) /\ ks2 = KeyOf(tab2)
  OBVIOUS
<1>3. /\ \A i \in u : st[i] = tab[i].lastUse /\ ks[i] = tab[i].key
      /\ \A i \in u \cup {x} : st2[i] = tab2[i].lastUse /\ ks2[i] = tab2[i].key
  BY <1>1, <1>2 DEF UseOf, KeyOf
<1>4. Recorded(x, k, u, st, ks, Keys, clock, st2, ks2)
  <2>1. Clocked(u, st, ks, Keys, clock) /\ k \in Keys
    BY <1>2 DEF Filed, Restamps
  <2>2. st2[x] = clock + 1 /\ ks2[x] = k
    BY <1>3 DEF Restamps
  <2>3. \A i \in u \ {x} : ks[i] # k
    BY <1>2, <1>3 DEF Restamps
  <2>4. \A i \in u \ {x} : st2[i] = st[i] /\ ks2[i] = ks[i]
    BY <1>1, <1>2, <1>3
  <2> QED BY <2>1, <2>2, <2>3, <2>4 DEF Recorded
<1>5. Clocked(u \cup {x}, st2, ks2, Keys, clock + 1)
  BY <1>4, RecordedClocked
<1>6. /\ ks2[x] = k
      /\ x \in u => Refills(x, u, st, ks, Keys, st2, ks2)
      /\ x \notin u => Grows(x, u, st, ks, Keys, st2, ks2)
  BY <1>4, RecordedUsed
<1>7. ASSUME x \in u
      PROVE  OrderOfUse(u \cup {x}, st2, ks2)
               = Append(RemoveAt(OrderOfUse(u, st, ks), PlaceIn(OrderOfUse(u, st, ks), ks[x])), k)
  <2>1. u \cup {x} = u
    BY <1>7
  <2>2. OrderOfUse(u, st2, ks2)
          = Append(RemoveAt(OrderOfUse(u, st, ks), PlaceIn(OrderOfUse(u, st, ks), ks[x])), ks2[x])
    BY <1>6, <1>7, OrderRefilled
  <2> QED BY <1>6, <2>1, <2>2
<1>8. ASSUME x \notin u
      PROVE  OrderOfUse(u \cup {x}, st2, ks2) = Append(OrderOfUse(u, st, ks), k)
  <2>1. OrderOfUse(u \cup {x}, st2, ks2) = Append(OrderOfUse(u, st, ks), ks2[x])
    BY <1>6, <1>8, OrderGrown
  <2> QED BY <1>6, <2>1
<1>9. OrderIn(tab2) = OrderOfUse(u \cup {x}, st2, ks2) /\ OrderIn(tab) = OrderOfUse(u, st, ks)
  BY <1>1, <1>2 DEF OrderIn
<1>10. Filed(tab2, clock + 1)
  BY <1>1, <1>2, <1>5 DEF Filed
<1> QED BY <1>2, <1>3, <1>7, <1>8, <1>9, <1>10

LEMMA SessionRegistryIs ==
  ASSUME NEW k
  PROVE  /\ SessionRegistry!Has(k) <=> k \in ToSet(SessionOrder)
         /\ SessionRegistry!Without(k) = RemoveAt(SessionOrder, PlaceIn(SessionOrder, k))
BY DEF SessionRegistry!Has, SessionRegistry!ToSet, ToSet, SessionRegistry!Without, SessionRegistry!RemoveAt,
       RemoveAt, SessionRegistry!Place, PlaceIn

(* Such a step is one of the registry.                                     *)
LEMMA RestampIsNext ==
  ASSUME Cache!SessionCacheAssumption, Filed(gSess, gSessClock), NEW x, NEW k,
         Restamps(x, k, gSess, gSessClock, gSess'), PlaceFor(x, k, gSess),
         gSessClock' = gSessClock + 1
  PROVE  Filed(gSess', gSessClock') /\ SessionRegistry!Next
<1>1. /\ Filed(gSess', gSessClock')
      /\ x \in Stored => SessionOrder' = Append(RemoveAt(SessionOrder, PlaceIn(SessionOrder, gSess[x].key)), k)
      /\ x \notin Stored => SessionOrder' = Append(SessionOrder, k)
  BY RestampedOrder, SessionOrderIs
<1>2. x \in Cache!Slots /\ k \in Keys
  BY DEF Restamps
<1>3. /\ Cardinality(Stored) \in Nat /\ Len(SessionOrder) = Cardinality(Stored)
      /\ ToSet(SessionOrder) = {gSess[i].key : i \in Stored}
  BY FiledTells, SessionOrderIs
<1>4. CASE x \in Stored /\ gSess[x].key = k
  <2>1. k \in ToSet(SessionOrder)
    BY <1>3, <1>4
  <2>2. SessionRegistry!Use(k)
    BY <1>1, <1>4, <2>1, SessionRegistryIs DEF SessionRegistry!Use
  <2> QED BY <1>1, <1>2, <2>2 DEF SessionRegistry!Next
<1>5. CASE k \notin {gSess[i].key : i \in Stored}
  <2>1. ~SessionRegistry!Has(k)
    BY <1>3, <1>5, SessionRegistryIs
  <2>2. IsFiniteSet(Cache!Slots) /\ Cardinality(Cache!Slots) = MAXSESS /\ MAXSESS \in Nat
    <3>1. MAXSESS \in Nat /\ MAXSESS # 0
      BY DEF Cache!SessionCacheAssumption
    <3>2. IsFiniteSet(1..MAXSESS) /\ Cardinality(1..MAXSESS) = IF 1 > MAXSESS THEN 0 ELSE MAXSESS - 1 + 1
      BY <3>1, FS_Interval
    <3>3. Cardinality(1..MAXSESS) = MAXSESS
      BY <3>1, <3>2
    <3> QED BY <3>1, <3>2, <3>3 DEF Cache!Slots
  <2>3. CASE x \notin Stored
    <3>1. Stored \in SUBSET Cache!Slots /\ Stored # Cache!Slots
      BY <1>2, <2>3 DEF Stored
    <3>2. Len(SessionOrder) # MAXSESS
      BY <1>3, <2>2, <3>1, FS_Subset
    <3>3. SessionRegistry!Add(k)
      BY <1>1, <2>1, <2>3, <3>2 DEF SessionRegistry!Add
    <3> QED BY <1>1, <1>2, <3>3 DEF SessionRegistry!Next
  <2>4. CASE x \in Stored
    <3>1. Stored = Cache!Slots /\ \A i \in Cache!Slots : gSess[x].lastUse <= gSess[i].lastUse
      <4>1. gSess[x].key \in {gSess[i].key : i \in Stored}
        BY <2>4
      <4> QED BY <1>5, <2>4, <4>1, SessionOrderIs DEF PlaceFor
    <3>2. Len(SessionOrder) = MAXSESS
      BY <1>3, <2>2, <3>1
    <3>3. RemoveAt(SessionOrder, PlaceIn(SessionOrder, gSess[x].key)) = Tail(SessionOrder)
      <4>1. /\ Table(Stored, UseOf(gSess), KeyOf(gSess), Keys)
            /\ \A i \in Stored : UseOf(gSess)[i] = gSess[i].lastUse /\ KeyOf(gSess)[i] = gSess[i].key
        BY FiledTells, SessionOrderIs
      <4>2. \A e \in Stored : UseOf(gSess)[x] <= UseOf(gSess)[e]
        BY <2>4, <3>1, <4>1
      <4>3. SessionOrder = OrderOfUse(Stored, UseOf(gSess), KeyOf(gSess))
        BY SessionOrderIs DEF OrderIn
      <4> QED BY <2>4, <4>1, <4>2, <4>3, OldestIsFirst
    <3>4. SessionRegistry!Add(k)
      BY <1>1, <2>1, <2>4, <3>2, <3>3 DEF SessionRegistry!Add
    <3> QED BY <1>1, <1>2, <3>4 DEF SessionRegistry!Next
  <2> QED BY <2>3, <2>4
<1> QED BY <1>4, <1>5, SessionOrderIs DEF PlaceFor

LEMMA FirstSlot ==
  ASSUME Cache!SessionCacheAssumption, NEW S \in SUBSET Cache!Slots, S # {}
  PROVE  Cache!FirstOf(S) \in S
<1>1. \E i \in S : \A j \in S : i <= j
  BY Least DEF Cache!SessionCacheAssumption, Cache!Slots
<1> QED BY <1>1 DEF Cache!FirstOf

GSess == [Cache!Slots -> [key : Keys \cup {NoKey}, sess : Sessions \cup {NoSess}, lastUse : 0..MaxTicks]]

LEMMA HitsAre ==
  ASSUME NEW k
  PROVE  Cache!Hits(k) = {i \in Stored : gSess[i].key = k}
BY DEF Cache!Hits, Cache!Holds, Cache!key_eq, Stored

(* A hit of sess_get is a use of its endpoint.                             *)
LEMMA FindingIsUse ==
  ASSUME Cache!SessionCacheAssumption, Cache!TypeOK, Filed(gSess, gSessClock), NEW c \in Conns,
         Cache!ossl_init(c)
  PROVE  Filed(gSess', gSessClock') /\ (SessionRegistry!Next \/ UNCHANGED SessionOrder)
<1> DEFINE k == peerID[c]  x == Cache!FirstOf(Cache!Hits(k))
<1>1. CASE ~Cache!Offers(c) \/ Cache!Hits(k) = {}
  <2>1. gSess' = gSess /\ gSessClock' = gSessClock
    BY <1>1 DEF Cache!ossl_init, Cache!sess_get
  <2>2. SessionOrder' = SessionOrder
    BY <2>1, SessionOrderIs
  <2> QED BY <2>1, <2>2
<1>2. CASE Cache!Offers(c) /\ Cache!Hits(k) # {}
  <2>1. gSessClock' = gSessClock + 1 /\ gSess' = [gSess EXCEPT ![x].lastUse = gSessClock + 1]
    BY <1>2 DEF Cache!ossl_init, Cache!sess_get, Cache!StampHit, Cache!Tick
  <2>2. x \in Cache!Hits(k)
    BY <1>2, FirstSlot DEF Cache!Hits
  <2>3. gSess \in GSess /\ k \in Keys
    BY <1>2 DEF Cache!TypeOK, GSess, Cache!Offers
  <2> HIDE DEF k, x
  <2>4. x \in Stored /\ gSess[x].key = k
    BY <2>2, HitsAre
  <2>5. x \in Cache!Slots /\ gSess[x].sess # NoSess
    BY <2>4 DEF Stored
  <2>6. \A i \in StoredIn(gSess) \ {x} : gSess[i].key # k
    BY <2>4, FiledTells, SessionOrderIs
  <2>7. gSess' = [gSess EXCEPT ![x] = [gSess[x] EXCEPT !.lastUse = gSessClock + 1]]
    BY <2>1
  <2>8. /\ gSess'[x].sess = gSess[x].sess /\ gSess'[x].key = gSess[x].key /\ gSess'[x].lastUse = gSessClock + 1
        /\ \A i \in Cache!Slots \ {x} : gSess'[i] = gSess[i]
    BY <2>3, <2>5, <2>7 DEF GSess
  <2>9. Restamps(x, k, gSess, gSessClock, gSess')
    BY <2>3, <2>4, <2>5, <2>6, <2>8 DEF Restamps
  <2>10. PlaceFor(x, k, gSess)
    BY <2>4, SessionOrderIs DEF PlaceFor
  <2> QED BY <2>1, <2>9, <2>10, RestampIsNext
<1> QED BY <1>1, <1>2

(* sess_put uses the endpoint's slot, or adds the endpoint in a free one or*)
(* in that of the endpoint used longest ago.                               *)
LEMMA StoringIsRecord ==
  ASSUME Cache!SessionCacheAssumption, Cache!TypeOK, Filed(gSess, gSessClock), NEW c \in Conns,
         NEW s \in Sessions, peerID[c] # NoKey, Cache!sess_put(c, s)
  PROVE  Filed(gSess', gSessClock') /\ SessionRegistry!Next
<1> DEFINE k == peerID[c]  x == Cache!PutSlot(k)
<1>1. /\ gSessClock' = gSessClock + 1
      /\ gSess' = [gSess EXCEPT ![x] = [key |-> k, sess |-> s, lastUse |-> gSessClock + 1]]
  BY DEF Cache!sess_put, Cache!Tick
<1>2. gSess \in GSess /\ k \in Keys /\ s # NoSess
  BY DEF Cache!TypeOK, GSess, Cache!SessionCacheAssumption
<1>3. Cache!Hits(k) = {i \in Stored : gSess[i].key = k}
  BY HitsAre
<1>4. \/ x \in Stored /\ gSess[x].key = k
      \/ x \in Cache!Slots \ Stored /\ Cache!Hits(k) = {}
      \/ Stored = Cache!Slots /\ x \in Cache!LeastRecent /\ Cache!Hits(k) = {}
  <2>1. CASE Cache!Hits(k) # {}
    <3>1. x \in Cache!Hits(k)
      BY <2>1, FirstSlot DEF Cache!PutSlot, Cache!Hits
    <3> QED BY <1>3, <3>1
  <2>2. CASE Cache!Hits(k) = {} /\ Cache!FreeSlots # {}
    <3>1. x \in Cache!FreeSlots
      BY <2>2, FirstSlot DEF Cache!PutSlot, Cache!FreeSlots
    <3> QED BY <2>2, <3>1 DEF Cache!FreeSlots, Stored
  <2>3. CASE Cache!Hits(k) = {} /\ Cache!FreeSlots = {}
    <3>1. Stored = Cache!Slots
      BY <2>3 DEF Cache!FreeSlots, Stored
    <3>2. \E y \in Stored : \A e \in Stored : UseOf(gSess)[y] <= UseOf(gSess)[e]
      <4>1. Stamped(Stored, UseOf(gSess))
        BY FiledTells, SessionOrderIs DEF Table
      <4>2. 1 \in Cache!Slots
        BY DEF Cache!Slots, Cache!SessionCacheAssumption
      <4> QED BY <3>1, <4>1, <4>2, OldestExists
    <3>3. \A i \in Stored : UseOf(gSess)[i] = gSess[i].lastUse
      BY FiledTells, SessionOrderIs
    <3>4. Cache!LeastRecent # {} /\ Cache!LeastRecent \in SUBSET Cache!Slots
      BY <3>1, <3>2, <3>3 DEF Cache!LeastRecent
    <3>5. Cache!FirstOf(Cache!LeastRecent) \in Cache!LeastRecent
      BY <3>4, FirstSlot
    <3> QED BY <2>3, <3>1, <3>5 DEF Cache!PutSlot
  <2> QED BY <2>1, <2>2, <2>3
<1> HIDE DEF k, x
<1>5. x \in Cache!Slots
  BY <1>4 DEF Stored, Cache!LeastRecent
<1>6. \A i \in StoredIn(gSess) \ {x} : gSess[i].key # k
  BY <1>3, <1>4, FiledTells, SessionOrderIs
<1>7. /\ gSess'[x].sess = s /\ gSess'[x].key = k /\ gSess'[x].lastUse = gSessClock + 1
      /\ \A i \in Cache!Slots \ {x} : gSess'[i] = gSess[i]
  BY <1>1, <1>2, <1>5 DEF GSess
<1>8. Restamps(x, k, gSess, gSessClock, gSess')
  BY <1>2, <1>5, <1>6, <1>7 DEF Restamps
<1>9. PlaceFor(x, k, gSess)
  <2>1. Cache!Hits(k) = {} => k \notin {gSess[i].key : i \in StoredIn(gSess)}
    BY <1>3, SessionOrderIs
  <2> QED BY <1>4, <2>1, SessionOrderIs DEF PlaceFor, Cache!LeastRecent
<1> QED BY <1>1, <1>8, <1>9, RestampIsNext

LEMMA SessionSteps ==
  ASSUME Cache!SessionCacheAssumption, CountInv, Filed(gSess, gSessClock), [Cache!Next]_(Cache!vars)
  PROVE  Filed(gSess', gSessClock') /\ (SessionRegistry!Next \/ UNCHANGED SessionOrder)
<1>0. Cache!TypeOK
  BY DEF CountInv
<1>1. ASSUME UNCHANGED <<gSess, gSessClock>>
      PROVE  Filed(gSess', gSessClock') /\ UNCHANGED SessionOrder
  BY <1>1, SessionOrderIs
<1>2. CASE UNCHANGED Cache!vars
  BY <1>1, <1>2 DEF Cache!vars
<1>3. ASSUME NEW c \in Conns, NEW s \in Cache!SSL_SESSION_new, Cache!Full12(c, s) \/ Cache!Ticket(c, s)
      PROVE  Filed(gSess', gSessClock') /\ (SessionRegistry!Next \/ UNCHANGED SessionOrder)
  <2>1. IF Cache!Keeps(c) THEN Cache!sess_put(c, s) ELSE UNCHANGED <<gSess, gSessClock>>
    BY <1>3 DEF Cache!Full12, Cache!Ticket, Cache!new_session_cb
  <2>2. CASE Cache!Keeps(c)
    BY <1>0, <1>3, <2>1, <2>2, StoringIsRecord, FreeObject DEF Cache!Keeps
  <2>3. CASE ~Cache!Keeps(c)
    BY <1>1, <2>1, <2>3
  <2> QED BY <2>2, <2>3
<1>4. ASSUME NEW c \in Conns,
             \/ \E k \in Keys \cup {NoKey} : Cache!SSLSetPeerID(c, k)
             \/ Cache!SSLSetPeerDomainName(c)
             \/ \E usable \in BOOLEAN : Cache!SSLSetCertificate(c, usable)
             \/ \E h \in Cache!Checks : Cache!SetCheck(c, h)
             \/ Cache!SSL_set_session(c) \/ Cache!Resumed(c) \/ Cache!Full13(c)
             \/ Cache!sess_put_drop(c) \/ Cache!Approved(c) \/ Cache!Close(c)
      PROVE  UNCHANGED <<gSess, gSessClock>>
  BY <1>4 DEF Cache!SSLSetPeerID, Cache!SSLSetPeerDomainName, Cache!SSLSetCertificate, Cache!SetCheck,
              Cache!SSL_set_session, Cache!Resumed, Cache!Full13, Cache!sess_put_drop, Cache!Approved, Cache!Close
<1> QED BY <1>0, <1>1, <1>2, <1>3, <1>4, FindingIsUse DEF Cache!Next

LEMMA SessionsBegin ==
  ASSUME Cache!SessionCacheAssumption, Cache!Init
  PROVE  Filed(gSess, gSessClock) /\ SessionRegistry!Init
<1>1. StoredIn(gSess) = {} /\ gSessClock \in Nat
  BY DEF StoredIn, Cache!Init, Cache!Empty
<1>2. Filed(gSess, gSessClock)
  BY <1>1, FS_EmptySet DEF Filed, Clocked, Table, Stamped
<1>3. Len(SessionOrder) = 0 /\ SessionOrder \in Seq(Keys)
  BY <1>1, <1>2, FiledTells, SessionOrderIs, FS_EmptySet
<1> QED BY <1>2, <1>3, EmptySeq DEF SessionRegistry!Init

(* The session cache behaves as a registry of MAXSESS endpoints, in order  *)
(* of use (sess_get and sess_put): one that is stored anew or found is the *)
(* latest, and a new one takes the place of the one used longest ago.      *)
LEMMA SessionsAreRegistry ==
  ASSUME Cache!SessionCacheAssumption PROVE MCSpec => SessionRegistry!Spec
<1>1. Cache!Init => Filed(gSess, gSessClock) /\ SessionRegistry!Init
  BY SessionsBegin
<1>2. CountInv /\ Filed(gSess, gSessClock) /\ [Cache!Next]_(Cache!vars)
        => Filed(gSess', gSessClock') /\ [SessionRegistry!Next]_SessionOrder
  BY SessionSteps
<1>3. Filed(gSess', gSessClock') <=> Filed(gSess, gSessClock)'
  BY DEF Filed, StoredIn, UseOf, KeyOf
<1> QED BY <1>1, <1>2, <1>3, CountsInvariant, PlaysSessions, PTL DEF Cache!Spec, SessionRegistry!Spec

(* Both caches a handshake consults are registries in order of use,        *)
(* whatever their sizes, threads and endpoints (chain_ok_get, chain_ok_put,*)
(* sess_get, sess_put): at most so many keys, each once, and no use ever   *)
(* costs a key its place but the one used longest ago.                     *)
THEOREM CachesAreRegistries ==
  ASSUME Chains!ChainCacheAssumption, Cache!SessionCacheAssumption
  PROVE  MCSpec => ImplementsRegistry
BY ChainsAreRegistry, SessionsAreRegistry DEF ImplementsRegistry
=============================================================================

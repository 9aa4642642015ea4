------------------------------ MODULE Session ------------------------------
(***************************************************************************)
(* What the caller of Secure Transport is told over one connection: the    *)
(* statuses of my_SSLHandshake and my_SSLRead, the getters, and what       *)
(* my_SSLGetBufferedReadSize says before the caller waits on its socket    *)
(* (aquatransport_hooks_mac.c).  tools/errorcontract.c, statecontract.c    *)
(* and readcontract.c measure the same answers on the stock stack; their   *)
(* listeners are this model's peer and their throttled callback its        *)
(* transport.                                                              *)
(*                                                                         *)
(* SSL_get_error looks at the error queue of the THREAD, which any earlier *)
(* OpenSSL call may have left an error on.  OpenSSL takes a record from    *)
(* the transport in two pieces, its header and its body, and decrypts it   *)
(* when it has both.                                                       *)
(***************************************************************************)
EXTENDS Integers, Sequences

CONSTANTS
  Alerts,      \* alert descriptions a peer may send
  MaxRead,     \* bound: the most bytes a caller asks for
  MaxPayload,  \* bound: plaintext bytes of a record
  MaxRecords   \* bound: records the peer sends after the handshake

SessionAssumption ==
  /\ Alerts \subseteq 1..255
  /\ MaxRead \in Nat \ {0} /\ MaxPayload \in Nat \ {0} /\ MaxRecords \in Nat

VARIABLES
  serverSide, breakAuth, approved,
  state,      \* Shadow.state
  errs,       \* the latest error on the thread's OpenSSL queue, or NoError
  cause,      \* history: what ended the call under way
  pc,         \* "caller", or the hook under way
  want,       \* how much SSLRead was asked for
  ret,        \* what the last hook answered
  records,    \* how many records the peer has begun
  sock,       \* pieces of records at the caller's transport
  partial,    \* TRUE when OpenSSL holds part of a record
  pending,    \* plaintext OpenSSL has decrypted and not handed over
  parked      \* the caller waits for its socket to become readable

options == <<serverSide, breakAuth>>
stream  == <<records, sock, partial, pending>>
vars == <<options, approved, state, errs, cause, pc, want, ret, stream, parked>>

States == {"NEW", "HANDSHAKING", "CONNECTED", "PEER_AUTH", "FAILED"}

(* Errors by library and reason.  An alert received is reason Offset plus  *)
(* its description.                                                        *)
Offset == 1000
VerifyFailed == 134
WrongVersion == 267
UnexpectedEof == 294
NoError == [lib |-> "none", reason |-> 0]
SslError(r) == [lib |-> "SSL", reason |-> r]
Errors == {SslError(Offset + a) : a \in Alerts}
            \cup {SslError(r) : r \in {VerifyFailed, WrongVersion, UnexpectedEof}}
            \cup {[lib |-> "X509", reason |-> VerifyFailed]}

NoRet == [op |-> "none", status |-> <<"none">>, n |-> 0]
Returned(op, status, n) == pc' = "caller" /\ ret' = [op |-> op, status |-> status, n |-> n]

Init ==
  /\ serverSide \in BOOLEAN /\ breakAuth \in BOOLEAN /\ approved = FALSE
  /\ state = "NEW"
  /\ errs \in Errors \cup {NoError} /\ cause = <<"none">>
  /\ pc = "caller" /\ want = 0 /\ ret = NoRet
  /\ records = 0 /\ sock = <<>> /\ partial = FALSE /\ pending = 0
  /\ parked = FALSE

-----------------------------------------------------------------------------
(* Any other OpenSSL call of this thread may leave an error queued.        *)
OtherOpenSSLCall ==
  /\ pc = "caller"
  /\ errs' \in Errors
  /\ UNCHANGED <<options, approved, state, cause, pc, want, ret, stream, parked>>

ERR_clear_error_forgotten == UNCHANGED errs
ERR_clear_error == errs' = NoError

(* SSL_get_error answers its error class whenever the queue is not empty,  *)
(* whatever the call itself ran into.                                      *)
SSL_get_error(q, class) == IF q # NoError THEN "SSL" ELSE class

-----------------------------------------------------------------------------
(* Failing handshakes.  Descriptions with a code of their own; 41 is SSL   *)
(* 3's no_certificate.                                                     *)
Listed == {10, 20, 21, 22, 30, 40, 42, 43, 44, 45, 46, 47, 48, 49, 50, 51, 60, 70, 71, 80, 90, 100}

kAlertStatus(a) ==
  IF a = 41 THEN <<"ClosedAbort">> ELSE IF a \in Listed THEN <<"Peer", a>> ELSE <<"FatalAlert">>

handshake_failure_status(q) ==
  IF q.lib # "SSL" THEN <<"ClosedAbort">>
  ELSE IF q.reason = VerifyFailed THEN <<"XCertChainInvalid">>
  ELSE IF q.reason = WrongVersion THEN <<"Protocol">>
  ELSE IF q.reason - Offset \in 1..255 THEN kAlertStatus(q.reason - Offset)
  ELSE <<"ClosedAbort">>

FailureStatus(q) == IF serverSide THEN <<"ClosedAbort">> ELSE handshake_failure_status(q)

(* What the listener of a case does, and the error OpenSSL queues for it.  *)
(* The transport's own failure queues none.                                *)
Causes == {<<"alert", a>> : a \in Alerts} \cup {<<"cert">>, <<"notTLS">>, <<"eof">>, <<"transport">>, <<"local">>}
Queued(c) ==
  CASE c[1] = "alert"  -> SslError(Offset + c[2])
    [] c = <<"cert">>      -> SslError(VerifyFailed)
    [] c = <<"notTLS">>    -> SslError(WrongVersion)
    [] c = <<"eof">>       -> SslError(UnexpectedEof)
    [] c = <<"local">>     -> [lib |-> "X509", reason |-> VerifyFailed]
    [] c = <<"transport">> -> NoError

SSLHandshake ==
  /\ pc = "caller" /\ state \in {"NEW", "HANDSHAKING", "PEER_AUTH"}
  /\ ERR_clear_error
  /\ state' = IF state = "NEW" THEN "HANDSHAKING" ELSE state
  /\ approved' = (approved \/ state = "PEER_AUTH")
  /\ pc' = "handshake" /\ cause' = <<"none">> /\ ret' = NoRet
  /\ UNCHANGED <<options, want, stream, parked>>

(* A step of the handshake may queue an error and let it go on, as the     *)
(* choice of a client certificate did in apsd.                             *)
handshake_queues ==
  /\ pc = "handshake" /\ cause = <<"none">>
  /\ errs' \in Errors /\ cause' = <<"queued", errs'>>
  /\ UNCHANGED <<options, approved, state, pc, want, ret, stream, parked>>

(* What ends the call: its own queued error, where the end queues none.    *)
Ended(c) ==
  IF cause # <<"none">> /\ c \in {<<"blocked">>, <<"asked">>, <<"transport">>} THEN cause ELSE c

(* The callback has nothing, or client_cert_cb waits for the application:  *)
(* what the hook answers is what SSL_get_error makes of it.                *)
Unfinished(class, s, status) ==
  /\ pc = "handshake"
  /\ IF SSL_get_error(errs, class) = class
     THEN state' = s /\ Returned("handshake", status, 0)
     ELSE state' = "FAILED" /\ Returned("handshake", FailureStatus(errs), 0)
  /\ UNCHANGED <<options, approved, errs, want, stream, parked>>

Pauses == ~serverSide /\ breakAuth /\ ~approved

handshake_blocks ==
  Unfinished("WANT_READ", state, <<"WouldBlock">>) /\ cause' = Ended(<<"blocked">>)
handshake_suspends ==
  Pauses /\ Unfinished("WANT_X509_LOOKUP", "PEER_AUTH", <<"PeerAuth">>) /\ cause' = Ended(<<"asked">>)

handshake_fails(c) ==
  /\ pc = "handshake" /\ cause' = Ended(c)
  /\ errs' = IF Queued(c) = NoError THEN errs ELSE Queued(c)
  /\ state' = "FAILED"
  /\ Returned("handshake", FailureStatus(errs'), 0)
  /\ UNCHANGED <<options, approved, want, stream, parked>>

(* A handshake may complete with an error of its own left on the queue.    *)
handshake_done ==
  /\ pc = "handshake" /\ cause' = <<"done">>
  /\ IF Pauses
     THEN state' = "PEER_AUTH" /\ Returned("handshake", <<"PeerAuth">>, 0)
     ELSE state' = "CONNECTED" /\ Returned("handshake", <<"noErr">>, 0)
  /\ UNCHANGED <<options, approved, errs, want, stream, parked>>

-----------------------------------------------------------------------------
(* The peer after the handshake: records of data, some of none (a session  *)
(* ticket), a close_notify, or an alert such as TLS 1.3's late             *)
(* certificate_required; each arrives in two pieces, or stops short.       *)
Whole == [kind : {"data"}, n : 0..MaxPayload] \cup [kind : {"close", "alert"}, n : {0}]
Header == [kind |-> "header", n |-> 0]
Pieces == Whole \cup {Header}

Owed == IF sock = <<>> THEN partial ELSE sock[Len(sock)] = Header

PeerBegins ==
  /\ state = "CONNECTED" /\ ~Owed /\ records < MaxRecords
  /\ records' = records + 1
  /\ sock' = Append(sock, Header)
  /\ UNCHANGED <<options, approved, state, errs, cause, pc, want, ret, partial, pending, parked>>

PeerEnds(p) ==
  /\ Owed
  /\ sock' = Append(sock, p)
  /\ UNCHANGED <<options, approved, state, errs, cause, pc, want, ret, records, partial, pending, parked>>

-----------------------------------------------------------------------------
(* my_SSLRead.                                                             *)
May(len) == pc = "caller" /\ state = "CONNECTED" /\ ~parked /\ len \in 0..MaxRead

SSLRead(len) ==
  /\ May(len) /\ len > 0
  /\ ERR_clear_error
  /\ pc' = "read" /\ want' = len /\ cause' = <<"none">> /\ ret' = NoRet
  /\ UNCHANGED <<options, approved, state, stream, parked>>

(* A read of nothing does not touch the transport.                         *)
SSLRead_zero ==
  /\ May(0)
  /\ cause' = <<"done">> /\ Returned("read", <<"noErr">>, 0)
  /\ UNCHANGED <<options, approved, state, errs, want, stream, parked>>

(* The flush of the write queue comes first and may find the transport     *)
(* dead.                                                                   *)
flush_fails(len) ==
  /\ May(len)
  /\ errs' \in Errors \cup {NoError}
  /\ cause' = <<"transport">> /\ Returned("read", <<"ClosedAbort">>, 0)
  /\ UNCHANGED <<options, approved, state, want, stream, parked>>

Least(m, n) == IF m < n THEN m ELSE n

(* SSL_read hands over what is decrypted, from one record.                 *)
read_pending ==
  /\ pc = "read" /\ pending > 0
  /\ pending' = pending - Least(want, pending)
  /\ cause' = <<"done">> /\ Returned("read", <<"noErr">>, Least(want, pending))
  /\ UNCHANGED <<options, approved, state, errs, want, records, sock, partial, parked>>

(* Otherwise it asks the transport, through bio_bread, and goes on until a *)
(* record has given it something.                                          *)
bio_bread_piece ==
  /\ pc = "read" /\ pending = 0
  /\ sock # <<>> /\ Head(sock).kind \in {"header", "data"}
  /\ sock' = Tail(sock)
  /\ partial' = (Head(sock) = Header)
  /\ pending' = Head(sock).n
  /\ UNCHANGED <<options, approved, state, errs, cause, pc, want, ret, records, parked>>

(* A close_notify ends it in order; an alert, or the end of the transport  *)
(* without one, does not.                                                  *)
bio_bread_closed ==
  /\ pc = "read" /\ pending = 0
  /\ sock # <<>> /\ Head(sock).kind = "close"
  /\ cause' = <<"close">>
  /\ Returned("read", IF SSL_get_error(errs, "ZERO_RETURN") = "ZERO_RETURN" THEN <<"ClosedGraceful">> ELSE <<"ClosedAbort">>, 0)
  /\ UNCHANGED <<options, approved, state, errs, want, stream, parked>>

bio_bread_fails ==
  /\ pc = "read" /\ pending = 0
  /\ \/ sock # <<>> /\ Head(sock).kind = "alert"
     \/ sock = <<>>
  /\ errs' \in Errors \cup {errs}
  /\ cause' = <<"transport">>
  /\ Returned("read", <<"ClosedAbort">>, 0)
  /\ UNCHANGED <<options, approved, state, want, stream, parked>>

(* Nothing there: errSSLWouldBlock, or noErr with no bytes.                *)
bio_bread_blocks ==
  /\ pc = "read" /\ pending = 0 /\ sock = <<>>
  /\ cause' = <<"blocked">>
  /\ Returned("read", IF SSL_get_error(errs, "WANT_READ") = "WANT_READ" THEN <<"WouldBlock">> ELSE <<"ClosedAbort">>, 0)
  /\ UNCHANGED <<options, approved, state, errs, want, stream, parked>>

-----------------------------------------------------------------------------
(* The getters: which stack answers, and what.                             *)
sh_session_state ==
  CASE state \in {"HANDSHAKING", "PEER_AUTH"} -> "Handshake"
    [] state = "CONNECTED"                    -> "Connected"
    [] OTHER                                  -> "native"

HasPeer == state \in {"CONNECTED", "PEER_AUTH"}

Answers(question) ==
  CASE question \in {"protocol", "cipher", "trust", "certificates"} -> HasPeer
    [] question = "buffered" -> state = "CONNECTED"

BufferedReadSize_unprocessed == IF partial THEN 1 ELSE 0
BufferedReadSize == IF pending > 0 THEN pending ELSE IF partial THEN 1 ELSE 0

(* CFNetwork drives its event loop off this: on zero it waits for the      *)
(* socket, otherwise it reads again.                                       *)
SSLGetBufferedReadSize ==
  /\ pc = "caller" /\ Answers("buffered") /\ ~parked
  /\ parked' = (BufferedReadSize = 0)
  /\ ret' = NoRet
  /\ UNCHANGED <<options, approved, state, errs, cause, pc, want, stream>>

SocketReadable ==
  /\ parked /\ sock # <<>>
  /\ parked' = FALSE
  /\ UNCHANGED <<options, approved, state, errs, cause, pc, want, ret, stream>>

-----------------------------------------------------------------------------
HandshakeEnds ==
  handshake_blocks \/ handshake_suspends \/ handshake_done \/ (\E c \in Causes : handshake_fails(c))
ReadGoesOn == read_pending \/ bio_bread_piece \/ bio_bread_closed \/ bio_bread_blocks
Hooks == HandshakeEnds \/ ReadGoesOn \/ bio_bread_fails
CallerReads == \E len \in 1..MaxRead : SSLRead(len)

Next ==
  \/ SSLHandshake \/ CallerReads \/ SSLRead_zero \/ SSLGetBufferedReadSize
  \/ \E len \in 0..MaxRead : flush_fails(len)
  \/ Hooks \/ handshake_queues
  \/ SocketReadable \/ OtherOpenSSLCall
  \/ PeerBegins
  \/ \E p \in Whole : PeerEnds(p)

Spec == Init /\ [][Next]_vars

(* A hook runs to its end, the caller's run loop serves a readable socket, *)
(* and a caller that is not waiting reads.                                 *)
Fairness == WF_vars(Hooks) /\ WF_vars(SocketReadable) /\ SF_vars(CallerReads)
FairSpec == Spec /\ Fairness

-----------------------------------------------------------------------------
(* Every variable has its type.                                            *)
Statuses == {<<"noErr">>, <<"WouldBlock">>, <<"PeerAuth">>, <<"ClosedAbort">>, <<"ClosedGraceful">>,
             <<"XCertChainInvalid">>, <<"Protocol">>, <<"FatalAlert">>}
              \cup {<<"Peer", a>> : a \in Listed}
TypeOK ==
  /\ serverSide \in BOOLEAN /\ breakAuth \in BOOLEAN /\ approved \in BOOLEAN
  /\ state \in States /\ errs \in Errors \cup {NoError}
  /\ pc \in {"caller", "handshake", "read"} /\ want \in 0..MaxRead
  /\ ret \in [op : {"handshake", "read"}, status : Statuses, n : 0..MaxPayload] \cup {NoRet}
  /\ records \in 0..MaxRecords /\ sock \in Seq(Pieces)
  /\ partial \in BOOLEAN /\ pending \in 0..MaxPayload /\ parked \in BOOLEAN

(* Each answer tells what ended THIS call: a would-block is never made an  *)
(* abort, nor a failure given another connection's name, by an error some  *)
(* earlier call left on the thread's queue (tools/errorcontract.c's rows,  *)
(* and "errSSLWouldBlock means come back" above my_SSLRead).               *)
ContractStatus ==
  CASE cause = <<"blocked">> -> {<<"WouldBlock">>}
    [] cause = <<"asked">>   -> {<<"PeerAuth">>}
    [] cause[1] = "queued"   -> {FailureStatus(cause[2])}
    [] cause = <<"done">>    -> {<<"noErr">>, <<"PeerAuth">>}
    [] cause = <<"close">>   -> {<<"ClosedGraceful">>}
    [] cause = <<"cert">>    -> {<<"XCertChainInvalid">>}
    [] cause = <<"notTLS">>  -> {<<"Protocol">>}
    [] cause[1] = "alert"    -> {kAlertStatus(cause[2])}
    [] OTHER                 -> {<<"ClosedAbort">>}
AnswersOwnOutcome ==
  ret # NoRet =>
    \/ ret.status \in ContractStatus
    \/ serverSide /\ state = "FAILED" /\ ret.status = <<"ClosedAbort">> /\ cause # <<"blocked">>

(* What the state, the peer and the protocol getters say agrees with what  *)
(* SSLHandshake has just said (tools/statecontract.c): handshaking until   *)
(* it is done, at the pause for the application as well, and from that     *)
(* pause on the peer's chain is there to be judged.                        *)
GettersAgree ==
  /\ (ret.op = "handshake" /\ ret.status \in {<<"WouldBlock">>, <<"PeerAuth">>}) => sh_session_state = "Handshake"
  /\ (ret.op = "handshake" /\ ret.status \in {<<"PeerAuth">>, <<"noErr">>}) =>
       \A q \in {"protocol", "cipher", "trust", "certificates"} : Answers(q)
  /\ ret.op = "read" => sh_session_state = "Connected" /\ Answers("buffered")

(* A caller that waits for its socket when SSLGetBufferedReadSize says     *)
(* zero is given everything that has arrived: it is never parked on a      *)
(* socket already drained.                                                 *)
Deliverable == pending > 0 \/ (sock # <<>> /\ Head(sock).kind \in {"header", "data"})
AllDelivered == Deliverable ~> ~Deliverable
=============================================================================

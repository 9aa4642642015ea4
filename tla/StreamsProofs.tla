---------------------------- MODULE StreamsProofs ----------------------------
(***************************************************************************)
(* What a caller is told, for every set of alerts and every size: an       *)
(* answer of SSLHandshake or SSLRead is about its own call, and the        *)
(* getters agree.  And the AirDrop radio, for every set of owners and      *)
(* every lease: no request renews a session the hardware was reset under.  *)
(***************************************************************************)
EXTENDS MCStreams, TLAPS

(* From ERR_clear_error to whatever ends the call the queue is empty, or   *)
(* holds what a step of this call put there, and no answer stands.         *)
OwnError == cause = <<"queued", errs>> /\ errs \in Told!Errors
QueueClear ==
  /\ call \in {"handshake", "read"} => answer = Told!NoRet
  /\ call = "handshake" => \/ cause = <<"none">> /\ errs = Told!NoError
                           \/ OwnError
  /\ call = "read" => errs = Told!NoError
  /\ call = "handshake" => shadow \in {"HANDSHAKING", "PEER_AUTH"}
  /\ call = "read" => shadow = "CONNECTED"

AnswerInv == QueueClear /\ Told!AnswersOwnOutcome /\ Told!GettersAgree

(* The listener's cases, told apart by the error OpenSSL queues for each.  *)
LEMMA FailureTold ==
  ASSUME Told!SessionAssumption, NEW c \in Told!Causes
  PROVE  /\ Told!Queued(c) = Told!NoError => c = <<"transport">>
         /\ c = <<"cert">> => Told!handshake_failure_status(Told!Queued(c)) = <<"XCertChainInvalid">>
         /\ c = <<"notTLS">> => Told!handshake_failure_status(Told!Queued(c)) = <<"Protocol">>
         /\ c[1] = "alert" => Told!handshake_failure_status(Told!Queued(c)) = Told!kAlertStatus(c[2])
         /\ c \in {<<"eof">>, <<"local">>, <<"transport">>} =>
              Told!handshake_failure_status(Told!Queued(c)) = <<"ClosedAbort">>
<1> USE DEF Told!Queued, Told!SslError, Told!NoError, Told!handshake_failure_status, Told!VerifyFailed, Told!WrongVersion,
      Told!UnexpectedEof, Told!Offset
<1>1. CASE \E a \in Alerts : c = <<"alert", a>>
  <2>1. PICK a \in Alerts : c = <<"alert", a>>
    BY <1>1
  <2>2. a \in Int /\ a >= 1 /\ a <= 255
    BY DEF Told!SessionAssumption
  <2>3. Told!Queued(c) = [lib |-> "SSL", reason |-> 1000 + a]
    BY <2>1
  <2>4. /\ 1000 + a # 134 /\ 1000 + a # 267 /\ (1000 + a) - 1000 \in 1..255
        /\ (1000 + a) - 1000 = a
    BY <2>2
  <2> HIDE DEF Told!Queued, Told!SslError
  <2>a. Told!Queued(c).lib = "SSL" /\ Told!Queued(c).reason = 1000 + a
    BY <2>3
  <2>5. Told!handshake_failure_status(Told!Queued(c)) = Told!kAlertStatus(a)
    BY <2>a, <2>4
  <2>6. Told!Queued(c).lib # Told!NoError.lib
    BY <2>a
  <2>7. c[1] = "alert" /\ c[2] = a
    BY <2>1
  <2>8. c \notin {<<"cert">>, <<"notTLS">>, <<"eof">>, <<"local">>, <<"transport">>}
    BY <2>7
  <2> HIDE DEF Told!Queued, Told!NoError, Told!handshake_failure_status
  <2>9. Told!Queued(c) # Told!NoError
    BY <2>6
  <2> QED BY <2>5, <2>7, <2>8, <2>9
<1>2. CASE c = <<"cert">>
  BY <1>2
<1>3. CASE c = <<"notTLS">>
  BY <1>3
<1>4. CASE c = <<"eof">>
  BY <1>4
<1>5. CASE c = <<"transport">>
  BY <1>5
<1>6. CASE c = <<"local">>
  BY <1>6
<1>7. \/ \E a \in Alerts : c = <<"alert", a>>
      \/ c \in {<<"cert">>, <<"notTLS">>, <<"eof">>, <<"transport">>, <<"local">>}
  BY DEF Told!Causes
<1> HIDE DEF Told!Queued, Told!SslError, Told!NoError, Told!handshake_failure_status, Told!VerifyFailed, Told!WrongVersion,
      Told!UnexpectedEof, Told!Offset
<1> QED BY <1>1, <1>2, <1>3, <1>4, <1>5, <1>6, <1>7

LEMMA ErrorsAreErrors ==
  ASSUME NEW q \in Told!Errors PROVE q # Told!NoError
<1>1. q.lib \in {"SSL", "X509"}
  BY DEF Told!Errors, Told!SslError
<1>2. Told!NoError.lib = "none"
  BY DEF Told!NoError
<1> QED BY <1>1, <1>2

LEMMA FailuresFail ==
  ASSUME NEW q PROVE Told!FailureStatus(q) \notin {<<"noErr">>, <<"WouldBlock">>, <<"PeerAuth">>}
BY DEF Told!FailureStatus, Told!handshake_failure_status, Told!kAlertStatus

(* An end the queue decides, by an error of this call.                     *)
LEMMA OwnErrorTold ==
  ASSUME OwnError, cause' = cause, errs' = errs, serverSide' = serverSide, shadow' = "FAILED", call' = "caller",
         answer' = [op |-> "handshake", status |-> Told!FailureStatus(errs), n |-> 0]
  PROVE  AnswerInv'
<1>1. Told!FailureStatus(errs)' = Told!FailureStatus(errs)
  BY DEF Told!FailureStatus
<1>2. cause'[1] = "queued" /\ cause'[2] = errs /\ cause' \notin {<<"blocked">>, <<"asked">>}
  BY DEF OwnError
<1>3. Told!ContractStatus' = {Told!FailureStatus(errs)}
  BY <1>1, <1>2 DEF Told!ContractStatus, OwnError
<1>4. Told!AnswersOwnOutcome'
  BY <1>3 DEF Told!AnswersOwnOutcome
<1>5. Told!GettersAgree'
  BY FailuresFail DEF Told!GettersAgree
<1> QED BY <1>4, <1>5 DEF AnswerInv, QueueClear

(* A handshake that is not finished.                                       *)
LEMMA UnfinishedKept ==
  ASSUME AnswerInv, Told!handshake_blocks \/ Told!handshake_suspends
  PROVE  AnswerInv'
<1>1. /\ call = "handshake" /\ shadow \in {"HANDSHAKING", "PEER_AUTH"} /\ call' = "caller"
      /\ UNCHANGED <<errs, serverSide>>
  BY DEF AnswerInv, QueueClear, Told!handshake_blocks, Told!handshake_suspends, Told!Unfinished, Told!Returned, Told!options
<1>2. CASE cause = <<"none">> /\ errs = Told!NoError
  <2>1. CASE Told!handshake_blocks
    <3>1. /\ cause' = <<"blocked">> /\ shadow' = shadow
          /\ answer' = [op |-> "handshake", status |-> <<"WouldBlock">>, n |-> 0]
      BY <1>2, <2>1 DEF Told!handshake_blocks, Told!Unfinished, Told!Returned, Told!SSL_get_error, Told!Ended
    <3>2. Told!AnswersOwnOutcome'
      BY <3>1 DEF Told!AnswersOwnOutcome, Told!ContractStatus
    <3>3. Told!GettersAgree'
      BY <1>1, <3>1 DEF Told!GettersAgree, Told!sh_session_state
    <3> QED BY <1>1, <3>2, <3>3 DEF AnswerInv, QueueClear
  <2>2. CASE Told!handshake_suspends
    <3>1. /\ cause' = <<"asked">> /\ shadow' = "PEER_AUTH"
          /\ answer' = [op |-> "handshake", status |-> <<"PeerAuth">>, n |-> 0]
      BY <1>2, <2>2 DEF Told!handshake_suspends, Told!Unfinished, Told!Returned, Told!SSL_get_error, Told!Ended
    <3>2. Told!AnswersOwnOutcome'
      BY <3>1 DEF Told!AnswersOwnOutcome, Told!ContractStatus
    <3>3. Told!GettersAgree'
      BY <3>1 DEF Told!GettersAgree, Told!sh_session_state, Told!Answers, Told!HasPeer
    <3> QED BY <1>1, <3>2, <3>3 DEF AnswerInv, QueueClear
  <2> QED BY <2>1, <2>2
<1>3. CASE OwnError
  <2>1. errs # Told!NoError
    BY <1>3, ErrorsAreErrors DEF OwnError
  <2>2. cause # <<"none">>
    BY <1>3 DEF OwnError
  <2>3. /\ cause' = cause /\ shadow' = "FAILED"
        /\ answer' = [op |-> "handshake", status |-> Told!FailureStatus(errs), n |-> 0]
    BY <2>1, <2>2 DEF Told!handshake_blocks, Told!handshake_suspends, Told!Unfinished, Told!Returned, Told!SSL_get_error, Told!Ended
  <2> QED BY <1>1, <1>3, <2>3, OwnErrorTold
<1> QED BY <1>1, <1>2, <1>3 DEF AnswerInv, QueueClear

LEMMA HandshakeKept ==
  ASSUME Told!SessionAssumption, AnswerInv, Told!SSLHandshake \/ Told!handshake_queues \/ Told!HandshakeEnds
  PROVE  AnswerInv'
<1> USE DEF AnswerInv, QueueClear, Told!AnswersOwnOutcome, Told!GettersAgree, Told!stream, Told!options, Told!NoRet, Told!Returned
<1>1. CASE Told!SSLHandshake
  BY <1>1 DEF Told!SSLHandshake, Told!ERR_clear_error
<1>2. CASE Told!handshake_queues
  BY <1>2 DEF Told!handshake_queues, OwnError
<1>3. ASSUME NEW c \in Told!Causes, Told!handshake_fails(c) PROVE AnswerInv'
  <2> DEFINE status == Told!FailureStatus(Told!Queued(c))
  <2>a. CASE OwnError /\ c = <<"transport">>
    <3>1. Told!Queued(c) = Told!NoError
      BY <2>a DEF Told!Queued
    <3>2. cause # <<"none">>
      BY <2>a DEF OwnError
    <3>3. errs' = errs /\ cause' = cause
      BY <1>3, <2>a, <3>1, <3>2 DEF Told!handshake_fails, Told!Ended
    <3>4. /\ serverSide' = serverSide /\ shadow' = "FAILED" /\ call' = "caller"
          /\ answer' = [op |-> "handshake", status |-> Told!FailureStatus(errs'), n |-> 0]
      BY <1>3 DEF Told!handshake_fails
    <3> QED BY <2>a, <3>3, <3>4, OwnErrorTold
  <2> SUFFICES ASSUME ~(OwnError /\ c = <<"transport">>) PROVE AnswerInv'
    BY <2>a
  <2>b. Told!Queued(c) = Told!NoError => errs = Told!NoError
    BY <1>3, FailureTold DEF Told!handshake_fails
  <2>c. cause' = c
    BY <1>3 DEF Told!handshake_fails, Told!Ended, Told!Causes
  <2>1. /\ call' = "caller" /\ cause' = c /\ shadow' = "FAILED"
        /\ errs' = Told!Queued(c) /\ serverSide' = serverSide
        /\ answer' = [op |-> "handshake", status |-> status, n |-> 0]
    BY <1>3, <2>b, <2>c DEF Told!handshake_fails
  <2> HIDE DEF status
  <2>2. c[1] \in {"alert", "cert", "notTLS", "eof", "transport", "local"}
    BY DEF Told!Causes
  <2>3. c[1] # "alert" => c \in {<<"cert">>, <<"notTLS">>, <<"eof">>, <<"transport">>, <<"local">>}
    BY DEF Told!Causes
  <2>4. Told!AnswersOwnOutcome'
    <3>1. CASE serverSide
      <4>1. status = <<"ClosedAbort">> /\ c # <<"blocked">>
        BY <3>1, <2>2 DEF status, Told!FailureStatus
      <4> QED BY <4>1, <2>1, <3>1
    <3>2. CASE ~serverSide
      <4>1. status = Told!handshake_failure_status(Told!Queued(c))
        BY <3>2 DEF status, Told!FailureStatus
      <4>2. CASE c[1] = "alert"
        <5>1. status = Told!kAlertStatus(c[2])
          BY <4>1, <4>2, FailureTold
        <5>2. Told!ContractStatus' = {Told!kAlertStatus(c[2])}
          BY <2>1, <4>2 DEF Told!ContractStatus
        <5> QED BY <5>1, <5>2, <2>1
      <4>3. CASE c = <<"cert">>
        BY <4>1, <4>3, <2>1, FailureTold DEF Told!ContractStatus
      <4>4. CASE c = <<"notTLS">>
        BY <4>1, <4>4, <2>1, FailureTold DEF Told!ContractStatus
      <4>5. CASE c \in {<<"eof">>, <<"local">>, <<"transport">>}
        <5>1. status = <<"ClosedAbort">>
          BY <4>1, <4>5, FailureTold
        <5>2. Told!ContractStatus' = {<<"ClosedAbort">>}
          BY <2>1, <4>5 DEF Told!ContractStatus
        <5> QED BY <5>1, <5>2, <2>1
      <4> QED BY <4>2, <4>3, <4>4, <4>5, <2>3
    <3> QED BY <3>1, <3>2
  <2>5. status \notin {<<"noErr">>, <<"WouldBlock">>, <<"PeerAuth">>}
    BY FailuresFail DEF status
  <2>6. Told!GettersAgree'
    BY <2>1, <2>5
  <2> QED BY <2>1, <2>4, <2>6
<1>4. CASE Told!handshake_done
  <2>1. /\ call' = "caller" /\ cause' = <<"done">>
        /\ \/ /\ shadow' = "PEER_AUTH"
              /\ answer' = [op |-> "handshake", status |-> <<"PeerAuth">>, n |-> 0]
           \/ /\ shadow' = "CONNECTED"
              /\ answer' = [op |-> "handshake", status |-> <<"noErr">>, n |-> 0]
    BY <1>4 DEF Told!handshake_done
  <2>2. Told!AnswersOwnOutcome'
    BY <2>1 DEF Told!ContractStatus
  <2>3. Told!GettersAgree'
    BY <2>1 DEF Told!sh_session_state, Told!Answers, Told!HasPeer
  <2> QED BY <2>1, <2>2, <2>3
<1> QED BY <1>1, <1>2, <1>3, <1>4, UnfinishedKept DEF Told!HandshakeEnds

LEMMA ReadKept ==
  ASSUME AnswerInv,
         Told!CallerReads \/ Told!SSLRead_zero \/ (\E len \in 0..MaxRead : Told!flush_fails(len))
           \/ Told!ReadGoesOn \/ Told!bio_bread_fails
  PROVE  AnswerInv'
<1> USE DEF AnswerInv, QueueClear, Told!AnswersOwnOutcome, Told!GettersAgree, Told!stream, Told!options, Told!NoRet, Told!Returned, Told!May
<1> DEFINE Ended(status, n) ==
      /\ call' = "caller" /\ answer' = [op |-> "read", status |-> status, n |-> n]
      /\ shadow = "CONNECTED" /\ shadow' = shadow
<1>1. ASSUME NEW status, NEW n, Ended(status, n), status \in Told!ContractStatus' PROVE AnswerInv'
  BY <1>1 DEF Told!sh_session_state, Told!Answers
<1>2. CASE Told!CallerReads
  BY <1>2 DEF Told!CallerReads, Told!SSLRead, Told!ERR_clear_error
<1>3. CASE Told!SSLRead_zero
  BY <1>1, <1>3 DEF Told!SSLRead_zero, Told!ContractStatus
<1>4. ASSUME NEW len \in 0..MaxRead, Told!flush_fails(len) PROVE AnswerInv'
  BY <1>1, <1>4 DEF Told!flush_fails, Told!ContractStatus
<1>5. CASE Told!read_pending
  BY <1>1, <1>5 DEF Told!read_pending, Told!ContractStatus
<1>6. CASE Told!bio_bread_piece
  BY <1>6 DEF Told!bio_bread_piece
<1>7. CASE Told!bio_bread_closed
  <2>1. Ended(<<"ClosedGraceful">>, 0) /\ cause' = <<"close">>
    BY <1>7 DEF Told!bio_bread_closed, Told!SSL_get_error
  <2> QED BY <1>1, <2>1 DEF Told!ContractStatus
<1>8. CASE Told!bio_bread_blocks
  <2>1. Ended(<<"WouldBlock">>, 0) /\ cause' = <<"blocked">>
    BY <1>8 DEF Told!bio_bread_blocks, Told!SSL_get_error
  <2> QED BY <1>1, <2>1 DEF Told!ContractStatus
<1>9. CASE Told!bio_bread_fails
  BY <1>1, <1>9 DEF Told!bio_bread_fails, Told!ContractStatus
<1> QED BY <1>2, <1>3, <1>4, <1>5, <1>6, <1>7, <1>8, <1>9 DEF Told!ReadGoesOn

LEMMA AnswersInvariant ==
  ASSUME Told!SessionAssumption
  PROVE  Told!Spec => []AnswerInv
<1> USE DEF AnswerInv, QueueClear, Told!AnswersOwnOutcome, Told!GettersAgree, Told!stream, Told!options, Told!NoRet
<1>1. Told!Init => AnswerInv
  BY DEF Told!Init
<1>2. AnswerInv /\ [Told!Next]_(Told!vars) => AnswerInv'
  <2> SUFFICES ASSUME AnswerInv, [Told!Next]_(Told!vars) PROVE AnswerInv'
    OBVIOUS
  <2>1. CASE Told!SSLGetBufferedReadSize
    BY <2>1 DEF Told!SSLGetBufferedReadSize
  <2>2. CASE Told!OtherOpenSSLCall
    BY <2>2 DEF Told!OtherOpenSSLCall, Told!ContractStatus, Told!FailureStatus, Told!sh_session_state, Told!Answers, Told!HasPeer
  <2>3. CASE UNCHANGED <<Told!options, shadow, errs, cause, call, answer>>
    BY <2>3 DEF OwnError, Told!ContractStatus, Told!FailureStatus, Told!sh_session_state, Told!Answers, Told!HasPeer
  <2>4. CASE Told!SSLHandshake \/ Told!handshake_queues \/ Told!HandshakeEnds
    BY <2>4, HandshakeKept
  <2>5. CASE Told!CallerReads \/ Told!SSLRead_zero \/ (\E len \in 0..MaxRead : Told!flush_fails(len))
               \/ Told!ReadGoesOn \/ Told!bio_bread_fails
    BY <2>5, ReadKept
  <2> QED
    BY <2>1, <2>2, <2>3, <2>4, <2>5 DEF Told!Next, Told!Hooks, Told!SocketReadable, Told!PeerBegins, Told!PeerEnds, Told!vars
<1> HIDE DEF AnswerInv
<1> QED BY <1>1, <1>2, PTL DEF Told!Spec

(* Whatever alerts a peer sends and whatever any call before it left on    *)
(* the thread's queue, an answer tells what ended its own call.            *)
THEOREM OwnOutcome ==
  ASSUME Told!SessionAssumption
  PROVE  MCSpec => []AnswersOwnOutcome
<1>1. MCInit => Told!Init
  BY DEF MCInit
<1>2. [MCNext]_<<part, vars, told, radio, shadows>> => [Told!Next]_(Told!vars)
  BY DEF MCNext, told, Told!vars, Told!options, Told!stream
<1>3. AnswerInv => AnswersOwnOutcome
  BY DEF AnswerInv, AnswersOwnOutcome
<1> QED BY <1>1, <1>2, <1>3, AnswersInvariant, PTL DEF MCSpec, Told!Spec

(* The state, the peer and the protocol getters agree with the answer      *)
(* SSLHandshake or SSLRead has just given (tools/statecontract.c).         *)
THEOREM GettersFollow ==
  ASSUME Told!SessionAssumption
  PROVE  Told!Spec => []Told!GettersAgree
<1>1. AnswerInv => Told!GettersAgree
  BY DEF AnswerInv
<1> QED BY <1>1, AnswersInvariant, PTL

-----------------------------------------------------------------------------
(* Radio.  What a request or the helper's loop does to the helper: it      *)
(* drains the notifications, and a session that gets its lease back is one *)
(* the power allowed.                                                      *)
Notice == {"WillSleep", "WillPowerOn", "HasPoweredOn"}
Command == {"start", "heartbeat", "stop"}
HelperOK ==
  /\ session \in {"none", "fresh", "stale", "exited"} /\ lease \in 0..LEASE
  /\ powerSleeping \in BOOLEAN /\ notices \in Seq(Notice) /\ late \in Seq(Command)

Drains ==
  /\ notices' = <<>> /\ powerSleeping' = Air!SleepingThen
  /\ session' = "stale" => Air!Drained = "stale"
  /\ session' \in {"none", "fresh", "stale", "exited"} /\ lease' \in {lease, LEASE}
  /\ lease' > lease => session' = "fresh" \/ (session' = Air!Drained /\ ~Air!SleepingThen)
Unserved == UNCHANGED <<session, lease, powerSleeping, notices>>

(* A session the hardware was reset under is refused, once the machine is  *)
(* awake: the notification that ends it is still to be drained, or the     *)
(* power is not known to be back.                                          *)
StaleIsRefused == session = "stale" /\ Air!Awake => Air!Ends \/ Air!SleepingThen

RadioInv == Air!TypeOK /\ StaleIsRefused

LEMMA Appended ==
  ASSUME NEW q \in Seq(Notice), NEW n \in Notice
  PROVE  /\ Append(q, n) \in Seq(Notice) /\ Append(q, n) # <<>>
         /\ Air!Last(Append(q, n)) = n
         /\ Air!ToSet(Append(q, n)) = Air!ToSet(q) \cup {n}
<1>1. /\ Append(q, n) \in Seq(Notice) /\ Len(Append(q, n)) = Len(q) + 1
      /\ Append(q, n)[Len(q) + 1] = n
      /\ \A i \in 1..Len(q) : Append(q, n)[i] = q[i]
  OBVIOUS
<1>2. Air!Last(Append(q, n)) = n
  BY <1>1 DEF Air!Last
<1>3. Append(q, n) # <<>>
  BY <1>1
<1>4. Air!ToSet(Append(q, n)) = Air!ToSet(q) \cup {n}
  <2>1. DOMAIN q = 1..Len(q) /\ DOMAIN Append(q, n) = 1..(Len(q) + 1) /\ Len(q) \in Nat
    BY <1>1
  <2> QED BY <1>1, <2>1 DEF Air!ToSet
<1> QED BY <1>1, <1>2, <1>3, <1>4

LEMMA ServeDrains ==
  ASSUME Air!RadioAssumption, HelperOK, NEW ok \in BOOLEAN, NEW command, Air!Serve(command, ok)
  PROVE  Drains
<1>1. CASE Air!start(ok)
  BY <1>1 DEF HelperOK, Drains, Air!start, Air!drainPowerEvents, Air!requireRadioAwake, Air!Granted, Air!Refused,
    Air!Drained, Air!RadioAssumption
<1>2. CASE Air!beats(ok)
  BY <1>2 DEF HelperOK, Drains, Air!beats, Air!drainPowerEvents, Air!requireRadioAwake, Air!Granted, Air!Refused,
    Air!Drained, Air!RadioAssumption
<1>3. CASE Air!stop(ok)
  BY <1>3 DEF HelperOK, Drains, Air!stop, Air!drainPowerEvents, Air!Drained
<1> QED BY <1>1, <1>2, <1>3 DEF Air!Serve

LEMMA Asks ==
  ASSUME Air!RadioAssumption, HelperOK, faults \in 0..MaxFaults, NEW ok \in BOOLEAN, NEW command \in Command,
         Air!Asked(command, ok)
  PROVE  /\ Drains \/ Unserved
         /\ late' \in Seq(Command) /\ faults' \in 0..MaxFaults
<1>1. faults' = faults \/ (faults' = faults + 1 /\ faults < MaxFaults)
  BY DEF Air!Asked, Air!Answered, Air!Unanswered, Air!Fault
<1>2. late' = late \/ late' = Append(late, command)
  BY DEF Air!Asked, Air!Answered, Air!Unanswered
<1>3. Drains \/ Unserved
  BY ServeDrains DEF Air!Asked, Air!Answered, Air!Unanswered, Unserved
<1>4. late' \in Seq(Command)
  <2>1. late \in Seq(Command)
    BY DEF HelperOK
  <2>2. Append(late, command) \in Seq(Command)
    BY <2>1
  <2> QED BY <1>2, <2>1, <2>2
<1>5. faults' \in 0..MaxFaults
  BY <1>1 DEF Air!RadioAssumption
<1> QED BY <1>3, <1>4, <1>5

(* What one step of the radio has to show.                                 *)
Renews == lease' > lease => session' # "stale"

LEMMA HelperKept ==
  ASSUME Air!RadioAssumption, RadioInv, Air!Awake, power' = power, Drains \/ Unserved
  PROVE  /\ HelperOK => /\ session' \in {"none", "fresh", "stale", "exited"} /\ lease' \in 0..LEASE
                        /\ powerSleeping' \in BOOLEAN /\ notices' \in Seq(Notice)
         /\ StaleIsRefused' /\ Renews
<1> USE DEF RadioInv, Air!TypeOK, Air!RadioAssumption
<1>1. CASE Unserved
  <2>1. UNCHANGED <<session, lease, powerSleeping, notices, power>>
    BY <1>1 DEF Unserved
  <2>2. StaleIsRefused'
    BY <2>1 DEF StaleIsRefused, Air!Awake, Air!Ends, Air!SleepingThen
  <2>3. ~(lease' > lease)
    BY <2>1
  <2> QED BY <2>1, <2>2, <2>3 DEF HelperOK, Renews
<1>2. CASE Drains
  <2>1. Air!Drained = "stale" => session = "stale" /\ ~Air!Ends
    BY DEF Air!Drained
  <2>2. Air!Drained = "stale" => Air!SleepingThen
    BY <2>1 DEF StaleIsRefused
  <2>3. Renews
    BY <1>2, <2>2 DEF Drains, Renews
  <2>4. StaleIsRefused'
    BY <1>2, <2>2 DEF Drains, StaleIsRefused, Air!SleepingThen
  <2>5. Air!SleepingThen \in BOOLEAN
    BY DEF Air!SleepingThen
  <2>6. lease' \in 0..LEASE
    BY <1>2 DEF Drains
  <2>7. <<>> \in Seq(Notice)
    OBVIOUS
  <2> QED BY <1>2, <2>3, <2>4, <2>5, <2>6, <2>7 DEF Drains
<1> QED BY <1>1, <1>2

(* A step of sharingd, or of the helper, while the machine is awake.       *)
SharingdOK ==
  /\ stage \in [Owners -> {"out", "added", "failed", "in"}]
  /\ radio_running \in BOOLEAN /\ heartbeat \in BOOLEAN /\ release \in BOOLEAN
  /\ beat \in {"no", "due", "waiting", "lost"}
MachineOK ==
  /\ power \in {"on", "sleepy", "asleep", "waking"}
  /\ wifi \in BOOLEAN /\ console \in BOOLEAN /\ faults \in 0..MaxFaults

LEMMA TypeParts == Air!TypeOK <=> SharingdOK /\ HelperOK /\ MachineOK
BY DEF Air!TypeOK, SharingdOK, HelperOK, MachineOK, Notice, Command

LEMMA AwakeStep ==
  ASSUME Air!RadioAssumption, RadioInv, Air!Awake, UNCHANGED <<power, wifi, console>>, Drains \/ Unserved,
         late' \in Seq(Command), faults' \in 0..MaxFaults, SharingdOK'
  PROVE  RadioInv' /\ Renews
<1>1. HelperOK /\ MachineOK
  BY TypeParts DEF RadioInv
<1>2. HelperOK' /\ StaleIsRefused' /\ Renews
  BY <1>1, HelperKept DEF HelperOK
<1>3. MachineOK'
  BY <1>1 DEF MachineOK
<1>4. Air!TypeOK'
  BY <1>2, <1>3, TypeParts, PTL
<1> QED BY <1>2, <1>4 DEF RadioInv

(* The owners' steps ask at most once.                                     *)
AsksOnce == (Drains \/ Unserved) /\ late' \in Seq(Command) /\ faults' \in 0..MaxFaults

LEMMA AsksOrNot ==
  ASSUME Air!RadioAssumption, HelperOK, MachineOK,
         \/ \E ok \in BOOLEAN, c \in Command : Air!Asked(c, ok)
         \/ UNCHANGED <<Air!helper, faults>>
  PROVE  AsksOnce
<1>1. CASE UNCHANGED <<Air!helper, faults>>
  BY <1>1 DEF Air!helper, AsksOnce, Unserved, HelperOK, MachineOK
<1>2. CASE \E ok \in BOOLEAN, c \in Command : Air!Asked(c, ok)
  BY <1>2, Asks DEF AsksOnce, MachineOK
<1> QED BY <1>1, <1>2

LEMMA OwnersStep ==
  ASSUME Air!RadioAssumption, RadioInv, NEW o \in Owners,
         Air!acquire_radio(o) \/ Air!Acquiring(o) \/ Air!release_radio(o)
  PROVE  RadioInv' /\ Renews
<1>1. HelperOK /\ MachineOK /\ SharingdOK
  BY TypeParts DEF RadioInv
<1>2. CASE Air!acquire_ensures(o)
  <2>1. Air!Awake /\ UNCHANGED <<power, wifi, console>>
    BY <1>2 DEF Air!acquire_ensures, Air!Unlocked
  <2>2. AsksOnce
    BY <1>1, <1>2, AsksOrNot DEF Air!acquire_ensures, Air!ensure_radio, Air!start_radio_session, Command
  <2>3. SharingdOK'
    BY <1>1, <1>2 DEF Air!acquire_ensures, Air!ensure_radio, Air!start_radio_session, SharingdOK
  <2> QED BY <2>1, <2>2, <2>3, AwakeStep DEF AsksOnce
<1>3. CASE Air!acquire_radio(o) \/ Air!acquire_fails(o) \/ Air!release_radio(o)
  <2>1. Air!Awake /\ UNCHANGED <<Air!helper, power, wifi, console, faults>>
    BY <1>3 DEF Air!acquire_radio, Air!acquire_fails, Air!release_radio, Air!Free, Air!Unlocked, Air!machine
  <2>2. AsksOnce
    BY <1>1, <2>1, AsksOrNot
  <2>3. SharingdOK'
    BY <1>1, <1>3 DEF Air!acquire_radio, Air!acquire_fails, Air!release_radio, SharingdOK
  <2> QED BY <2>1, <2>2, <2>3, AwakeStep DEF AsksOnce
<1> QED BY <1>2, <1>3 DEF Air!Acquiring

LEMMA SharingdStep ==
  ASSUME Air!RadioAssumption, RadioInv,
         Air!lookup \/ Air!force_stop_radio \/ Air!waits \/ Air!heartbeat_handler \/ Air!Blocks
  PROVE  RadioInv' /\ Renews
<1>1. HelperOK /\ MachineOK /\ SharingdOK
  BY TypeParts DEF RadioInv
<1>2. CASE Air!lookup
  <2>1. Air!Awake /\ UNCHANGED <<power, wifi, console>>
    BY <1>2 DEF Air!lookup, Air!Free, Air!Unlocked
  <2>2. AsksOnce
    BY <1>1, <1>2, AsksOrNot DEF Air!lookup, Air!ensure_radio, Air!start_radio_session, Command
  <2>3. SharingdOK'
    BY <1>1, <1>2 DEF Air!lookup, Air!ensure_radio, Air!start_radio_session, SharingdOK
  <2> QED BY <2>1, <2>2, <2>3, AwakeStep DEF AsksOnce
<1>3. CASE Air!force_stop_radio \/ Air!release_block
  <2>1. Air!Awake /\ UNCHANGED <<power, wifi, console>>
    BY <1>3 DEF Air!force_stop_radio, Air!release_block, Air!Free, Air!Unlocked
  <2>2. AsksOnce
    BY <1>1, <1>3, AsksOrNot DEF Air!force_stop_radio, Air!release_block, Air!StopSession, Command
  <2>3. SharingdOK'
    BY <1>1, <1>3 DEF Air!force_stop_radio, Air!release_block, Air!StopSession, Air!Cancel, SharingdOK
  <2> QED BY <2>1, <2>2, <2>3, AwakeStep DEF AsksOnce
<1>4. CASE Air!waits
  <2>1. Air!Awake /\ UNCHANGED <<Air!helper, power, wifi, console, faults>>
    BY <1>4 DEF Air!waits, Air!machine
  <2>2. AsksOnce
    BY <1>1, <2>1, AsksOrNot
  <2>3. SharingdOK'
    BY <1>1, <1>4 DEF Air!waits, SharingdOK
  <2> QED BY <2>1, <2>2, <2>3, AwakeStep DEF AsksOnce
<1>5. CASE Air!heartbeat_handler
  <2>1. Air!Awake /\ UNCHANGED <<power, wifi, console>>
    BY <1>5 DEF Air!heartbeat_handler, Air!Free, Air!Unlocked
  <2>2. AsksOnce
    BY <1>1, <1>5, AsksOrNot
    DEF Air!heartbeat_handler, Air!Beats, Air!Recovers, Air!start_radio_session, Command
  <2>3. radio_running' \in BOOLEAN
    BY <1>1, <1>5 DEF Air!heartbeat_handler, Air!Beats, Air!Recovers, Air!start_radio_session, SharingdOK
  <2>4. SharingdOK'
    BY <1>1, <1>5, <2>3 DEF Air!heartbeat_handler, SharingdOK
  <2> QED BY <2>1, <2>2, <2>4, AwakeStep DEF AsksOnce
<1>6. CASE Air!heartbeat_recovers
  <2>1. Air!Awake /\ UNCHANGED <<power, wifi, console>>
    BY <1>6 DEF Air!heartbeat_recovers
  <2>2. AsksOnce
    BY <1>1, <1>6, AsksOrNot DEF Air!heartbeat_recovers, Air!Recovers, Air!start_radio_session, Command
  <2>3. SharingdOK'
    BY <1>1, <1>6 DEF Air!heartbeat_recovers, Air!Recovers, Air!start_radio_session, SharingdOK
  <2> QED BY <2>1, <2>2, <2>3, AwakeStep DEF AsksOnce
<1> QED BY <1>2, <1>3, <1>4, <1>5, <1>6 DEF Air!Blocks

(* The helper's own steps, and the tick between them.                      *)
LEMMA HelperStep ==
  ASSUME Air!RadioAssumption, RadioInv, Air!serve_late \/ Air!loop \/ Air!Tick
  PROVE  RadioInv' /\ Renews
<1>1. HelperOK /\ MachineOK /\ SharingdOK
  BY TypeParts DEF RadioInv
<1>2. CASE Air!serve_late
  <2>1. Air!Awake /\ UNCHANGED <<power, wifi, console>> /\ UNCHANGED <<Air!sharingd, faults>>
    BY <1>2 DEF Air!serve_late, Air!machine
  <2>2. Drains
    BY <1>1, <1>2, ServeDrains DEF Air!serve_late
  <2>3. late' \in Seq(Command)
    BY <1>1, <1>2 DEF Air!serve_late, HelperOK
  <2>4. SharingdOK' /\ faults' \in 0..MaxFaults
    BY <1>1, <2>1 DEF Air!sharingd, SharingdOK, MachineOK
  <2> QED BY <2>1, <2>2, <2>3, <2>4, AwakeStep
<1>3. CASE Air!loop
  <2>1. Air!Awake /\ UNCHANGED <<power, wifi, console>> /\ UNCHANGED <<Air!sharingd, faults, late>>
    BY <1>3 DEF Air!loop, Air!machine
  <2>2. Drains
    BY <1>1, <1>3 DEF Air!loop, Air!drainPowerEvents, Air!Drained, Drains, HelperOK, Air!RadioAssumption
  <2>3. SharingdOK' /\ faults' \in 0..MaxFaults /\ late' \in Seq(Command)
    BY <1>1, <2>1 DEF Air!sharingd, SharingdOK, MachineOK, HelperOK
  <2> QED BY <2>1, <2>2, <2>3, AwakeStep
<1>4. CASE Air!Tick
  <2>1. UNCHANGED <<session, powerSleeping, notices, late, Air!machine, stage, radio_running, heartbeat, release>>
    BY <1>4 DEF Air!Tick
  <2>2. SharingdOK'
    BY <1>1, <1>4 DEF Air!Tick, SharingdOK
  <2>3. lease' \in 0..LEASE /\ ~(lease' > lease)
    BY <1>1, <1>4 DEF Air!Tick, HelperOK, Air!RadioAssumption
  <2>4. HelperOK' /\ MachineOK'
    BY <1>1, <2>1, <2>3 DEF HelperOK, MachineOK, Air!machine
  <2>5. StaleIsRefused'
    BY <2>1 DEF RadioInv, StaleIsRefused, Air!machine, Air!Awake, Air!Ends, Air!SleepingThen
  <2>6. Air!TypeOK'
    BY <2>2, <2>4, TypeParts, PTL
  <2> QED BY <2>3, <2>5, <2>6 DEF RadioInv, Renews
<1> QED BY <1>2, <1>3, <1>4

(* The machine's steps renew nothing; sleep is what makes a session stale, *)
(* and waking tells the helper of it.                                      *)
LEMMA MachineStep ==
  ASSUME Air!RadioAssumption, RadioInv, Air!PowersOn \/ Air!Machine
  PROVE  RadioInv' /\ Renews
<1>1. HelperOK /\ MachineOK /\ SharingdOK
  BY TypeParts DEF RadioInv
<1>2. ASSUME NEW n \in Notice, Air!Told(n), UNCHANGED <<session, lease, powerSleeping, late>>,
             n = "WillPowerOn" \/ n \in {"WillSleep", "HasPoweredOn"}
      PROVE  HelperOK' /\ StaleIsRefused'
  <2>1. notices' \in Seq(Notice) /\ notices' # <<>> /\ Air!Last(notices') = n /\ n \in Air!ToSet(notices')
    BY <1>1, <1>2, Appended DEF HelperOK, Air!Told
  <2>2. HelperOK'
    BY <1>1, <1>2, <2>1 DEF HelperOK
  <2>3. n = "WillPowerOn" => Air!SleepingThen'
    BY <2>1 DEF Air!SleepingThen
  <2>4. n \in {"WillSleep", "HasPoweredOn"} => Air!Ends'
    BY <2>1 DEF Air!Ends
  <2> QED BY <1>2, <2>2, <2>3, <2>4 DEF StaleIsRefused
<1>3. CASE Air!PowersOn \/ Air!Wakes \/ Air!WillSleep
  <2>1. UNCHANGED <<Air!sharingd, session, lease, powerSleeping, late, wifi, console>>
    BY <1>3 DEF Air!PowersOn, Air!Wakes, Air!WillSleep
  <2>2. PICK n \in Notice : Air!Told(n)
    BY <1>3 DEF Air!PowersOn, Air!Wakes, Air!WillSleep, Notice
  <2>3. HelperOK' /\ StaleIsRefused'
    BY <1>2, <2>1, <2>2 DEF Notice
  <2>4. MachineOK' /\ SharingdOK'
    BY <1>1, <1>3, <2>1
    DEF Air!PowersOn, Air!Wakes, Air!WillSleep, Air!Fault, MachineOK, SharingdOK, Air!sharingd, Air!RadioAssumption
  <2>5. ~(lease' > lease)
    BY <1>1, <2>1 DEF HelperOK
  <2>6. Air!TypeOK'
    BY <2>3, <2>4, TypeParts, PTL
  <2> QED BY <2>3, <2>5, <2>6 DEF RadioInv, Renews
<1>4. CASE Air!Sleeps
  <2>1. UNCHANGED <<Air!sharingd, lease, powerSleeping, notices, late, wifi, console>>
    BY <1>4 DEF Air!Sleeps
  <2>2. HelperOK' /\ SharingdOK' /\ MachineOK'
    BY <1>1, <1>4, <2>1
    DEF Air!Sleeps, Air!Fault, HelperOK, SharingdOK, MachineOK, Air!sharingd, Air!RadioAssumption
  <2>3. StaleIsRefused'
    BY <1>4 DEF Air!Sleeps, StaleIsRefused, Air!Awake
  <2>4. ~(lease' > lease)
    BY <1>1, <2>1 DEF HelperOK
  <2>5. Air!TypeOK'
    BY <2>2, TypeParts, PTL
  <2> QED BY <2>3, <2>4, <2>5 DEF RadioInv, Renews
<1>5. CASE Air!Toggles \/ Air!SharingdDies
  <2>1. UNCHANGED <<Air!helper, power>>
    BY <1>5 DEF Air!Toggles, Air!SharingdDies
  <2>2. HelperOK' /\ SharingdOK' /\ MachineOK'
    <3>1. HelperOK'
      BY <1>1, <2>1 DEF HelperOK, Air!helper
    <3>2. faults' \in 0..MaxFaults
      BY <1>1, <1>5 DEF Air!Toggles, Air!SharingdDies, Air!Fault, MachineOK, Air!RadioAssumption
    <3>3. (~wifi) \in BOOLEAN /\ (~console) \in BOOLEAN
      OBVIOUS
    <3>4. wifi' \in BOOLEAN /\ console' \in BOOLEAN
      BY <1>1, <1>5, <3>3 DEF Air!Toggles, Air!SharingdDies, MachineOK
    <3>5. SharingdOK'
      BY <1>1, <1>5 DEF Air!Toggles, Air!SharingdDies, Air!sharingd, SharingdOK
    <3> QED BY <1>1, <2>1, <3>1, <3>2, <3>4, <3>5 DEF MachineOK
  <2>3. StaleIsRefused'
    BY <2>1 DEF RadioInv, StaleIsRefused, Air!helper, Air!Awake, Air!Ends, Air!SleepingThen
  <2>4. ~(lease' > lease)
    BY <1>1, <2>1 DEF HelperOK, Air!helper
  <2>5. Air!TypeOK'
    BY <2>2, TypeParts, PTL
  <2> QED BY <2>3, <2>4, <2>5 DEF RadioInv, Renews
<1>6. CASE Air!OwlExits \/ Air!HelperDies
  <2>1. HelperOK' /\ SharingdOK' /\ MachineOK'
    <3>1. <<>> \in Seq(Notice) /\ <<>> \in Seq(Command) /\ 0 \in 0..LEASE
      BY DEF Air!RadioAssumption
    <3>2. HelperOK'
      BY <1>1, <1>6, <3>1 DEF Air!OwlExits, Air!HelperDies, HelperOK
    <3>3. SharingdOK' /\ MachineOK'
      BY <1>1, <1>6 DEF Air!OwlExits, Air!HelperDies, Air!Fault, SharingdOK, MachineOK, Air!sharingd, Air!RadioAssumption
    <3> QED BY <3>2, <3>3
  <2>2. session' # "stale"
    BY <1>6 DEF Air!OwlExits, Air!HelperDies
  <2>3. Air!TypeOK'
    BY <2>1, TypeParts, PTL
  <2> QED BY <2>2, <2>3 DEF RadioInv, Renews, StaleIsRefused
<1> QED BY <1>3, <1>4, <1>5, <1>6 DEF Air!Machine

LEMMA RadioKept ==
  ASSUME Air!RadioAssumption, RadioInv, [Air!Next]_(Air!vars)
  PROVE  RadioInv' /\ Renews
<1>1. CASE UNCHANGED Air!vars
  <2>1. RadioInv'
    BY <1>1 DEF RadioInv, Air!TypeOK, StaleIsRefused, Air!Awake, Air!Ends, Air!SleepingThen, Air!vars, Air!sharingd,
      Air!helper, Air!machine
  <2>2. ~(lease' > lease)
    BY <1>1 DEF RadioInv, Air!TypeOK, Air!RadioAssumption, Air!vars, Air!helper
  <2> QED BY <2>1, <2>2 DEF Renews
<1>2. CASE Air!Next
  BY <1>2, OwnersStep, SharingdStep, HelperStep, MachineStep DEF Air!Next
<1> QED BY <1>1, <1>2

LEMMA RadioInvariant ==
  ASSUME Air!RadioAssumption
  PROVE  Air!Init /\ [][Air!Next]_(Air!vars) => []RadioInv /\ [][Renews]_(Air!vars)
<1>1. Air!Init => RadioInv
  <2> SUFFICES ASSUME Air!Init PROVE RadioInv
    OBVIOUS
  <2>1. <<>> \in Seq(Notice) /\ <<>> \in Seq(Command) /\ 0 \in 0..LEASE /\ 0 \in 0..MaxFaults
    BY DEF Air!RadioAssumption
  <2>2. SharingdOK /\ HelperOK /\ MachineOK
    BY <2>1 DEF Air!Init, SharingdOK, HelperOK, MachineOK
  <2> QED BY <2>2, TypeParts DEF RadioInv, StaleIsRefused, Air!Init
<1>2. RadioInv /\ [Air!Next]_(Air!vars) => RadioInv' /\ Renews
  BY RadioKept
<1> QED BY <1>1, <1>2, PTL

(* Every variable of the radio has its type; no more goes wrong than       *)
(* MaxFaults allows, and no lease is longer than LEASE.                    *)
THEOREM RadioTypes ==
  ASSUME Air!RadioAssumption
  PROVE  Air!Spec => []Air!TypeOK
<1>1. RadioInv => Air!TypeOK
  BY DEF RadioInv
<1> QED BY <1>1, RadioInvariant, PTL DEF Air!Spec

(* Whichever power notifications came, came late or were missed, and       *)
(* however late a request is served, nothing renews a session the hardware *)
(* was reset under.                                                        *)
THEOREM NothingStaleRenewed ==
  ASSUME Air!RadioAssumption
  PROVE  MCSpec => NoStaleRenewal
<1>1. MCInit => Air!Init
  BY DEF MCInit
<1>2. [MCNext]_<<part, vars, told, radio, shadows>> => [Air!Next]_(Air!vars)
  BY DEF MCNext, radio, Air!vars, Air!sharingd, Air!helper, Air!machine
<1>3. [Renews]_(Air!vars) => [lease' > lease => session' # "stale"]_radio
  BY DEF Renews, radio, Air!vars, Air!sharingd, Air!helper, Air!machine
<1> QED BY <1>1, <1>2, <1>3, RadioInvariant, PTL DEF MCSpec, NoStaleRenewal
=============================================================================

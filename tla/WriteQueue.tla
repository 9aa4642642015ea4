---------------------------- MODULE WriteQueue -----------------------------
(***************************************************************************)
(* The write side of one connection: my_SSLWrite, and the flush at the     *)
(* head of my_SSLRead and my_SSLClose (aquatransport_hooks_mac.c), the     *)
(* queue sh_flush_write / sh_hold_write / sh_reset_write and the latch in  *)
(* bio_bwrite (aquatransport_engine.c).                                    *)
(*                                                                         *)
(* Plaintext bytes are numbered in the order the application offers them.  *)
(* OpenSSL turns the buffer of one SSL_write into records of at most       *)
(* MaxRecord bytes and pushes each through bio_bwrite into the             *)
(* application's write callback, which may take any part of it; one step   *)
(* of the model is one call of that callback, or one decision around it.   *)
(* What OpenSSL keeps between a blocked SSL_write and its retry is wnum,   *)
(* rec and tot, as in its record layer.                                    *)
(*                                                                         *)
(* The caller is Secure Transport's: it uses a context from one thread at  *)
(* a time, re-presents what was not taken, and stops at errSSLClosedAbort. *)
(***************************************************************************)
EXTENDS Integers, Sequences, SequencesExt

CONSTANTS
  RunMax,      \* IO_RUN_MAX, the most one SSL_write is given of a caller's buffer
  MaxRecord,   \* the most plaintext one TLS record carries
  IntMod,      \* an int has this many values; SSL_write's length is an int
  CanFail,     \* TRUE when realloc may fail
  MaxLen,      \* bound: the longest buffer a caller offers
  MaxBytes     \* bound: bytes offered over one connection

ASSUME WriteAssumption ==
  /\ RunMax \in Nat \ {0} /\ MaxRecord \in Nat \ {0}
  /\ IntMod \in Nat /\ 2 * RunMax < IntMod
  /\ CanFail \in BOOLEAN
  /\ MaxLen \in Nat /\ MaxBytes \in Nat

VARIABLES
  state,     \* "connected", "new" after a re-init, "aborted", "closed"
  wpend,     \* Shadow.wpend: plaintext accepted and not yet taken by SSL_write
  wblocked,  \* Shadow.wblocked
  wnum,      \* OpenSSL: bytes of the current buffer already sent as whole records
  rec,       \* OpenSSL: what is left to send of the record in flight
  tot,       \* OpenSSL: the plaintext length of that record
  wire,      \* what the peer receives, by plaintext byte; 0 is close_notify
  accepted,  \* how many bytes the caller was told are taken
  pc,        \* "idle", or which SSL_write of the hook is under way
  hook,      \* the hook under way
  data,      \* the caller's buffer
  off,       \* my_SSLWrite's off
  entry,     \* history of this entry: callback calls, would-block seen, queue at its start
  ret        \* what the last my_SSLWrite answered

queue == <<wpend, wblocked>>
ssl   == <<wnum, rec, tot>>
frame == <<hook, data, off>>
vars  == <<state, queue, ssl, wire, accepted, pc, frame, entry, ret>>

Statuses == {"noErr", "WouldBlock", "ClosedAbort"}
NoRet == [status |-> "none", processed |-> 0]
FreshEntry == [asked |-> 0, said |-> FALSE, held |-> <<>>]

(* Bytes m+1 .. m+n of the stream.                                         *)
Bytes(m, n) == [k \in 1..n |-> m + k]

Init ==
  /\ state = "connected"
  /\ wpend = <<>> /\ wblocked = FALSE
  /\ wnum = 0 /\ rec = <<>> /\ tot = 0
  /\ wire = <<>> /\ accepted = 0
  /\ pc = "idle" /\ hook = "none" /\ data = <<>> /\ off = 0
  /\ entry = FreshEntry /\ ret = NoRet

-----------------------------------------------------------------------------
(* Every entry clears the latch and goes first to the queue.               *)
sh_unblock_write_forgotten == UNCHANGED wblocked
sh_unblock_write == wblocked' = FALSE

AfterEntry(len) ==
  IF wpend # <<>> THEN "flush" ELSE IF len > 0 THEN "write" ELSE "return"

Enter(h, len) ==
  /\ pc = "idle"
  /\ sh_unblock_write
  /\ hook' = h /\ off' = 0
  /\ data' = Bytes(accepted, len)
  /\ pc' = AfterEntry(len)
  /\ entry' = [asked |-> 0, said |-> FALSE, held |-> wpend]
  /\ ret' = NoRet
  /\ UNCHANGED <<state, wpend, ssl, wire, accepted>>

EnterWrite(len) == state = "connected" /\ accepted + len <= MaxBytes /\ Enter("write", len)
EnterRead  == state = "connected" /\ Enter("read", 0)
EnterClose == state \in {"connected", "aborted"} /\ Enter("close", 0)

-----------------------------------------------------------------------------
(* SSL_write, and under it bio_bwrite.                                     *)

(* A size_t passed as an int: the low bits, and negative from half up.     *)
AsInt_one_run(n) == IF n > RunMax THEN RunMax ELSE n
AsInt(n) == LET m == n % IntMod IN IF 2 * m >= IntMod THEN m - IntMod ELSE m

Least(m, n) == IF m < n THEN m ELSE n

(* The run my_SSLWrite presents, and the whole queue sh_flush_write does.  *)
Run == SubSeq(data, off + 1, Least(off + RunMax, Len(data)))
Presented == IF pc = "flush" THEN wpend ELSE Run
Length == AsInt(Len(Presented))

InSSL == pc \in {"flush", "write"}

(* OpenSSL refuses a retry shorter than what it has in hand.               *)
BadLength == Length <= 0 \/ (rec # <<>> /\ Length < wnum + tot)

(* The record in flight: what is left of it, or the next one.              *)
Fresh == rec = <<>>
Record == IF Fresh THEN SubSeq(Presented, wnum + 1, Least(wnum + MaxRecord, Length)) ELSE rec
RecordLen == IF Fresh THEN Len(Record) ELSE tot

Written == InSSL /\ ~BadLength /\ Fresh /\ wnum = Length
Sending == InSSL /\ ~BadLength /\ ~(Fresh /\ wnum = Length)

(* The callback took n bytes of the record and answered os.                *)
Latch_never(os) == UNCHANGED wblocked
Latch(os) == wblocked' = (wblocked \/ os = "WouldBlock")

Asked(n, os) ==
  /\ Sending /\ ~wblocked
  /\ n <= Len(Record)
  /\ Latch(os)
  /\ wire' = wire \o SubSeq(Record, 1, n)
  /\ rec' = SubSeq(Record, n + 1, Len(Record))
  /\ IF n = Len(Record) THEN wnum' = wnum + RecordLen /\ tot' = 0
                        ELSE wnum' = wnum /\ tot' = RecordLen
  /\ entry' = [entry EXCEPT !.asked = @ + 1, !.said = @ \/ os = "WouldBlock"]

(* Any bytes taken are progress, whatever the status, and the record layer *)
(* loops.                                                                  *)
bio_bwrite_took(n, os) ==
  /\ n > 0 /\ Asked(n, os)
  /\ UNCHANGED <<state, wpend, accepted, pc, frame, ret>>

-----------------------------------------------------------------------------
(* Returning from a hook.                                                  *)
Return(status, processed) ==
  /\ pc' = "idle"
  /\ accepted' = accepted + processed
  /\ state' = IF status = "ClosedAbort" THEN "aborted" ELSE state
  /\ ret' = IF hook = "write" THEN [status |-> status, processed |-> processed] ELSE NoRet
  /\ UNCHANGED frame

(* SSL_shutdown sends close_notify unless a record is in flight, whether   *)
(* or not the flush emptied the queue; it may also fail to go out.         *)
CloseNotify ==
  \/ rec' = <<>> /\ wire' = Append(wire, 0)
  \/ wire' = wire

(* my_SSLClose drops the shadow, queue and all, after SSL_shutdown.        *)
Closed ==
  /\ pc' = "idle" /\ state' = "closed"
  /\ wpend' = <<>>
  /\ ret' = NoRet
  /\ UNCHANGED <<accepted, frame>>

(* SSL_write answered want-write: the socket is full.  Blocked in the      *)
(* flush nothing new is taken; blocked on the caller's buffer the rest of  *)
(* it is queued and all of it reported as taken.                           *)
Rest_from_start == data
Rest == SubSeq(data, off + 1, Len(data))

sh_hold_write == wpend' = wpend \o Rest

BlockedFlush ==
  /\ pc = "flush" /\ hook # "close"
  /\ Return("WouldBlock", 0) /\ UNCHANGED wpend

BlockedWrite_unreported == pc = "write" /\ sh_hold_write /\ Return("WouldBlock", off)
BlockedWrite ==
  /\ pc = "write"
  /\ \/ sh_hold_write /\ Return("WouldBlock", Len(data))
     \/ CanFail /\ wpend' = wpend /\ Return("WouldBlock", off)

Blocked == BlockedFlush \/ BlockedWrite

(* The callback took nothing: would-block, or an empty success.            *)
bio_bwrite_refused(os) ==
  /\ os \in {"WouldBlock", "noErr"}
  /\ Asked(0, os)
  /\ Blocked

(* Latched: the callback is not asked.                                     *)
bio_bwrite_latched ==
  /\ Sending /\ wblocked
  /\ rec' = Record /\ tot' = RecordLen
  /\ Blocked
  /\ UNCHANGED <<wblocked, wnum, wire, entry>>

(* The callback failed.                                                    *)
bio_bwrite_error ==
  /\ Asked(0, "Error")
  /\ hook # "close"
  /\ Return("ClosedAbort", 0)
  /\ UNCHANGED wpend

bad_length ==
  /\ InSSL /\ BadLength /\ hook # "close"
  /\ Return("ClosedAbort", 0)
  /\ UNCHANGED <<queue, ssl, wire, entry>>

(* In my_SSLClose the flush may stop short for any of these reasons, and   *)
(* its answer is ignored.                                                  *)
close_blocked ==
  /\ pc = "flush" /\ hook = "close"
  /\ \/ Sending /\ rec' = Record
     \/ BadLength /\ rec' = rec
  /\ CloseNotify /\ Closed
  /\ UNCHANGED <<wblocked, wnum, tot, entry>>

(* SSL_write took the whole buffer.  After the flush, the queue is empty   *)
(* and the hook goes on; after a run, the next run or the end.             *)
flushed ==
  /\ pc = "flush" /\ Written
  /\ wpend' = <<>> /\ wnum' = 0
  /\ pc' = IF data # <<>> THEN "write" ELSE "return"
  /\ UNCHANGED <<state, wblocked, rec, tot, wire, accepted, frame, entry, ret>>

run_written ==
  /\ pc = "write" /\ Written
  /\ wnum' = 0
  /\ off' = off + Len(Run)
  /\ pc' = IF off' < Len(data) THEN "write" ELSE "return"
  /\ UNCHANGED <<state, queue, rec, tot, wire, accepted, hook, data, entry, ret>>

return_ok ==
  /\ pc = "return" /\ hook # "close"
  /\ Return("noErr", Len(data))
  /\ UNCHANGED <<queue, ssl, wire, entry>>

return_close ==
  /\ pc = "return" /\ hook = "close"
  /\ rec' = rec
  /\ CloseNotify /\ Closed
  /\ UNCHANGED <<wblocked, wnum, tot, entry>>

-----------------------------------------------------------------------------
(* A late peer name or certificate frees the SSL object and resets the     *)
(* write side; the next handshake starts a new stream.                     *)
sh_reset_write == wblocked' = FALSE /\ wpend' = <<>>

Reinit ==
  /\ state \in {"connected", "aborted"} /\ pc = "idle"
  /\ state' = "new"
  /\ sh_reset_write
  /\ wnum' = 0 /\ rec' = <<>> /\ tot' = 0
  /\ wire' = <<>> /\ accepted' = 0
  /\ entry' = FreshEntry /\ ret' = NoRet
  /\ UNCHANGED <<pc, frame>>

Rehandshake ==
  /\ state = "new"
  /\ state' = "connected"
  /\ UNCHANGED <<queue, ssl, wire, accepted, pc, frame, entry, ret>>

(* A closed context is released, and the next one starts with a zeroed     *)
(* shadow.                                                                 *)
NextConnection ==
  /\ state = "closed"
  /\ state' = "new"
  /\ wpend' = <<>> /\ wblocked' = FALSE
  /\ wnum' = 0 /\ rec' = <<>> /\ tot' = 0
  /\ wire' = <<>> /\ accepted' = 0
  /\ hook' = "none" /\ data' = <<>> /\ off' = 0
  /\ entry' = FreshEntry /\ UNCHANGED <<pc, ret>>

Callback ==
  \/ \E n \in 1..MaxRecord, os \in {"noErr", "WouldBlock", "Error"} : bio_bwrite_took(n, os)
  \/ \E os \in {"noErr", "WouldBlock"} : bio_bwrite_refused(os)
  \/ bio_bwrite_error

Continue ==
  \/ Callback \/ bio_bwrite_latched \/ bad_length \/ close_blocked
  \/ flushed \/ run_written \/ return_ok \/ return_close

Next ==
  \/ \E len \in 0..MaxLen : EnterWrite(len)
  \/ EnterRead \/ EnterClose
  \/ Continue
  \/ Reinit \/ Rehandshake \/ NextConnection

Spec == Init /\ [][Next]_vars

(* A hook runs to its end; the caller comes back to a context that said it *)
(* is holding data ("come back"); and a transport asked over and over      *)
(* takes something.  The last two are the caller's and the network's part  *)
(* of Secure Transport's contract.                                         *)
TransportTakes == \E n \in 1..MaxRecord, os \in {"noErr", "WouldBlock", "Error"} : bio_bwrite_took(n, os)
Fairness ==
  /\ WF_vars(Continue)
  /\ WF_vars(wpend # <<>> /\ EnterWrite(0))
  /\ SF_vars(TransportTakes)
FairSpec == Spec /\ Fairness

-----------------------------------------------------------------------------
(* Every variable has its type.                                            *)
TypeOK ==
  /\ state \in {"connected", "new", "aborted", "closed"}
  /\ wpend \in Seq(1..MaxBytes) /\ wblocked \in BOOLEAN
  /\ wnum \in 0..MaxBytes /\ tot \in 0..MaxRecord
  /\ rec \in Seq(1..MaxBytes) /\ Len(rec) <= MaxRecord
  /\ wire \in Seq(0..MaxBytes)
  /\ accepted \in 0..MaxBytes
  /\ pc \in {"idle", "flush", "write", "return"}
  /\ hook \in {"none", "write", "read", "close"}
  /\ data \in Seq(1..MaxBytes) /\ off \in 0..Len(data)
  /\ ret.status \in Statuses \cup {"none"} /\ ret.processed \in 0..MaxLen

(* The peer receives the caller's bytes in order, none skipped, repeated   *)
(* or left over from an earlier connection, with close_notify after them;  *)
(* this through partial writes, retries from the moved buffer, runs and    *)
(* re-handshakes.                                                          *)
WireInOrder ==
  \A k \in DOMAIN wire : wire[k] = k \/ (k = Len(wire) /\ wire[k] = 0)

(* What SSLWrite reported as taken is sent or held, on the wire, in the    *)
(* record in flight, or in the queue; and the peer sees an orderly close   *)
(* only if it got all of it, although SSLClose ignores what its flush      *)
(* answers.                                                                *)
AcceptedKept ==
  /\ state \in {"connected", "aborted"} =>
       1..accepted \subseteq ToSet(wire) \cup ToSet(rec) \cup ToSet(wpend)
  /\ 0 \in ToSet(wire) => 1..accepted \subseteq ToSet(wire)

(* noErr says the transport has all that was taken; errSSLWouldBlock says  *)
(* the context is holding something, either the whole of this buffer or,   *)
(* this buffer refused, what it held before ("Writing" in                  *)
(* docs/TECHNICAL.md), and with no memory to hold it in, that only the     *)
(* runs already sent are taken.                                            *)
HonestAnswer ==
  (pc = "idle" /\ state = "connected" /\ ret # NoRet) =>
    \/ /\ ret.status = "noErr" /\ ret.processed = Len(data)
       /\ wpend = <<>> /\ 1..accepted \subseteq ToSet(wire)
    \/ /\ ret.status = "WouldBlock" /\ wpend # <<>>
       /\ \/ data # <<>> /\ ret.processed = Len(data)
          \/ ret.processed = 0 /\ wpend = entry.held
    \/ CanFail /\ ret = [status |-> "WouldBlock", processed |-> off] /\ wpend = <<>>

(* Once the callback has said would-block it is not asked again before the *)
(* caller's next entry, however many records and runs are left.            *)
NotAskedAgain == [][entry'.asked > entry.asked => ~entry.said]_vars

(* The queue drains, if the caller keeps coming back and the transport     *)
(* keeps taking a little: no entry starves it.                             *)
QueueDrains == wpend # <<>> ~> (wpend = <<>> \/ state = "aborted")
=============================================================================

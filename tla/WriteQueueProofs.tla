-------------------------- MODULE WriteQueueProofs --------------------------
(***************************************************************************)
(* WriteQueue for every run, record and buffer size: what the peer gets is *)
(* the caller's stream, what was taken is kept, and the queue is one       *)
(* call's worth.  The streams are short of what an int can count           *)
(* (ShortStream): sh_flush_write hands the whole queue to SSL_write, whose *)
(* length is an int.                                                       *)
(* That the callback is not asked twice needs no bound (Latched).          *)
(***************************************************************************)
EXTENDS WriteQueue, SequenceTheorems, TLAPS

ShortStream == 2 * MaxBytes < IntMod

-----------------------------------------------------------------------------
(* Every sequence of the model is a run of consecutive bytes.              *)
IsRun(s, m) == s \in Seq(Int) /\ \A k \in 1..Len(s) : s[k] = m + k

LEMMA RunLen ==
  ASSUME NEW s, NEW m, IsRun(s, m)
  PROVE  Len(s) \in Nat /\ (s = <<>> <=> Len(s) = 0)
BY EmptySeq, LenProperties DEF IsRun

LEMMA RunEmpty ==
  ASSUME NEW m \in Int
  PROVE  IsRun(<<>>, m) /\ Len(<<>>) = 0
BY DEF IsRun

LEMMA RunBytes ==
  ASSUME NEW m \in Nat, NEW n \in Nat
  PROVE  IsRun(Bytes(m, n), m) /\ Len(Bytes(m, n)) = n
<1>1. Bytes(m, n) \in [1..n -> Int]
  BY DEF Bytes
<1>2. Bytes(m, n) \in Seq(Int)
  BY <1>1, SeqDef
<1>3. Len(Bytes(m, n)) = n
  BY <1>1, <1>2, LenProperties
<1> QED BY <1>2, <1>3 DEF IsRun, Bytes

LEMMA RunPart ==
  ASSUME NEW m \in Int, NEW s, IsRun(s, m), NEW a \in 0..Len(s), NEW b \in a..Len(s)
  PROVE  IsRun(SubSeq(s, a + 1, b), m + a) /\ Len(SubSeq(s, a + 1, b)) = b - a
<1>1. Len(s) \in Nat
  BY RunLen
<1>2. \A i \in (a + 1)..b : s[i] \in Int
  BY <1>1 DEF IsRun
<1>3. /\ SubSeq(s, a + 1, b) \in Seq(Int)
      /\ Len(SubSeq(s, a + 1, b)) = b - a
      /\ \A i \in 1..(b - a) : SubSeq(s, a + 1, b)[i] = s[a + i]
  BY <1>1, <1>2, SubSeqProperties
<1> QED BY <1>1, <1>3 DEF IsRun

LEMMA RunJoin ==
  ASSUME NEW m \in Int, NEW s, NEW t, IsRun(s, m), IsRun(t, m + Len(s))
  PROVE  IsRun(s \o t, m) /\ Len(s \o t) = Len(s) + Len(t)
<1>1. s \in Seq(Int) /\ t \in Seq(Int)
  BY DEF IsRun
<1>2. /\ s \o t \in Seq(Int) /\ Len(s \o t) = Len(s) + Len(t)
      /\ \A i \in 1 .. Len(s) + Len(t) : (s \o t)[i] = IF i <= Len(s) THEN s[i] ELSE t[i - Len(s)]
  BY <1>1, ConcatProperties
<1>3. Len(s) \in Nat /\ Len(t) \in Nat
  BY RunLen
<1>4. ASSUME NEW i \in 1..Len(s \o t) PROVE (s \o t)[i] = m + i
  <2>1. CASE i <= Len(s)
    BY <1>2, <1>3, <2>1 DEF IsRun
  <2>2. CASE ~(i <= Len(s))
    <3>1. i - Len(s) \in 1..Len(t)
      BY <1>2, <1>3, <2>2
    <3> QED BY <1>2, <1>3, <2>2, <3>1 DEF IsRun
  <2> QED BY <2>1, <2>2
<1> QED BY <1>2, <1>4 DEF IsRun

(* A run from the start of the stream holds exactly its bytes.             *)
LEMMA RunMembers ==
  ASSUME NEW m \in Int, NEW s, IsRun(s, m), NEW x \in Int
  PROVE  x \in ToSet(s) <=> x \in (m + 1)..(m + Len(s))
<1>1. Len(s) \in Nat /\ DOMAIN s = 1..Len(s)
  BY LenProperties DEF IsRun
<1>2. ASSUME x \in (m + 1)..(m + Len(s)) PROVE x \in ToSet(s)
  <2>1. x - m \in 1..Len(s)
    BY <1>1, <1>2
  <2> QED BY <1>1, <2>1 DEF IsRun, ToSet
<1>3. ASSUME x \in ToSet(s) PROVE x \in (m + 1)..(m + Len(s))
  BY <1>1, <1>3 DEF IsRun, ToSet
<1> QED BY <1>2, <1>3

(* A length below half of an int's values is passed as it is.              *)
LEMMA IntIsExact ==
  ASSUME ShortStream, NEW n \in 0..MaxBytes
  PROVE  AsInt(n) = n
<1>1. /\ IntMod \in Nat /\ MaxBytes \in Nat /\ 2 * MaxBytes < IntMod
  BY WriteAssumption DEF ShortStream
<1>2. n % IntMod = n
  BY <1>1
<1> QED BY <1>1, <1>2 DEF AsInt

LEMMA LeastIs ==
  ASSUME NEW m \in Int, NEW n \in Int
  PROVE  Least(m, n) \in Int /\ Least(m, n) <= m /\ Least(m, n) <= n /\ Least(m, n) \in {m, n}
BY DEF Least

-----------------------------------------------------------------------------
(* Used is how much of its buffer the SSL_write under way has made into    *)
(* records, and Base how much of the stream it has finished with before.   *)
Used == wnum + tot
Base == Len(wire) + Len(rec) - Used

Numbers == wnum \in Nat /\ tot \in Nat /\ off \in Nat /\ accepted \in 0..MaxBytes

(* The record in flight follows the wire.                                  *)
Flight ==
  /\ IsRun(wire, 0) /\ IsRun(rec, Len(wire)) /\ Base >= 0
  /\ Len(rec) <= tot /\ (rec = <<>> => tot = 0)

(* The queue begins where SSL_write is and ends what was taken.            *)
Held ==
  /\ IsRun(wpend, Base)
  /\ wpend # <<>> => accepted = Base + Len(wpend) /\ Used <= Len(wpend)

AtRest ==
  pc = "idle" =>
    /\ rec = <<>> => wnum = 0
    /\ wpend = <<>> => accepted <= Base /\ (state # "aborted" => accepted = Base)

Within ==
  pc # "idle" =>
    /\ IsRun(data, accepted) /\ accepted + Len(data) <= MaxBytes
    /\ state = "connected" \/ (state = "aborted" /\ hook = "close")
    /\ hook = "close" => data = <<>>

InFlush == pc = "flush" => wpend # <<>> /\ off = 0 /\ wpend = entry.held
InWrite ==
  pc = "write" =>
    /\ wpend = <<>> /\ hook # "close" /\ off < Len(data) /\ Base = accepted + off
    /\ rec = <<>> => Used = 0 \/ Used <= Len(Run)
InReturn ==
  pc = "return" =>
    /\ wpend = <<>> /\ (rec = <<>> => wnum = 0)
    /\ accepted + Len(data) <= Base /\ (state = "connected" => accepted + Len(data) = Base)

Open == Flight /\ Held /\ AtRest /\ Within /\ InFlush /\ InWrite /\ InReturn
Ended == pc = "idle" /\ wpend = <<>> /\ WireInOrder /\ (0 \in ToSet(wire) => 1..accepted \subseteq ToSet(wire))

IInv ==
  /\ pc \in {"idle", "flush", "write", "return"}
  /\ Numbers /\ HonestAnswer
  /\ state = "closed" => Ended
  /\ state # "closed" => Open
  /\ state \in {"new", "closed"} => ret = NoRet
  /\ entry = [asked |-> entry.asked, said |-> entry.said, held |-> entry.held]

LEMMA LensAre ==
  ASSUME Open
  PROVE  /\ Len(wire) \in Nat /\ Len(rec) \in Nat /\ Len(wpend) \in Nat
         /\ rec = <<>> <=> Len(rec) = 0
         /\ wpend = <<>> <=> Len(wpend) = 0
         /\ pc # "idle" => Len(data) \in Nat /\ (data = <<>> <=> Len(data) = 0)
BY RunLen DEF Open, Flight, Held, Within

(* What SSL_write is given begins at Base, and its length is passed whole. *)
LEMMA PresentedIs ==
  ASSUME ShortStream, IInv, InSSL
  PROVE  /\ IsRun(Presented, Base) /\ Len(Presented) \in Nat \ {0}
         /\ Length = Len(Presented) /\ state # "closed"
         /\ pc = "write" => Len(Run) <= Len(data) - off
<1>1. state # "closed" /\ Open
  BY DEF IInv, InSSL, Ended
<1>2. /\ Len(wire) \in Nat /\ Len(rec) \in Nat /\ Len(wpend) \in Nat /\ Len(data) \in Nat
      /\ wpend = <<>> <=> Len(wpend) = 0
  BY <1>1, LensAre DEF InSSL
<1>3. Base \in Int /\ accepted \in 0..MaxBytes /\ off \in Nat /\ MaxBytes \in Nat /\ RunMax \in Nat \ {0}
  BY WriteAssumption, <1>2 DEF IInv, Numbers, Base, Used
<1>4. CASE pc = "flush"
  <2>1. Presented = wpend /\ wpend # <<>> /\ accepted = Base + Len(wpend)
    BY <1>1, <1>4 DEF Presented, Open, InFlush, Held
  <2>2. Len(wpend) \in 0..MaxBytes
    BY <1>1, <1>2, <1>3, <2>1 DEF Open, Flight
  <2> QED BY <1>1, <1>2, <1>4, <2>1, <2>2, IntIsExact DEF Length, Open, Held
<1>5. CASE pc = "write"
  <2>1. Presented = Run /\ off < Len(data) /\ Base = accepted + off /\ IsRun(data, accepted)
        /\ accepted + Len(data) <= MaxBytes
    BY <1>1, <1>5 DEF Presented, Open, InWrite, Within
  <2> DEFINE b == Least(off + RunMax, Len(data))
  <2>2. b \in (off + 1)..Len(data)
    <3>1. off + RunMax \in Int /\ Len(data) \in Int
      BY <1>2, <1>3
    <3> QED BY <1>2, <1>3, <2>1, <3>1 DEF Least
  <2>3. IsRun(Run, accepted + off) /\ Len(Run) = b - off
    <3> HIDE DEF b
    <3>1. off \in 0..Len(data) /\ b \in off..Len(data)
      BY <1>2, <1>3, <2>1, <2>2
    <3>2. Run = SubSeq(data, off + 1, b)
      BY DEF Run, b
    <3> QED BY <1>3, <2>1, <3>1, <3>2, RunPart
  <2>4. Len(Run) \in 1..(Len(data) - off) /\ Len(Run) \in 0..MaxBytes
    BY <1>2, <1>3, <2>1, <2>2, <2>3
  <2> QED BY <1>1, <1>2, <1>3, <1>5, <2>1, <2>3, <2>4, IntIsExact DEF Length
<1> QED BY <1>4, <1>5 DEF InSSL

(* The record sent next: the rest of the one in flight, or a new one.      *)
LEMMA RecordIs ==
  ASSUME ShortStream, IInv, Sending
  PROVE  /\ IsRun(Record, Len(wire)) /\ Len(Record) \in Nat \ {0}
         /\ RecordLen \in Nat /\ Len(Record) <= RecordLen
         /\ wnum + RecordLen <= Len(Presented)
         /\ Base = Len(wire) + Len(Record) - (wnum + RecordLen)
<1>1. /\ InSSL /\ ~BadLength /\ ~(Fresh /\ wnum = Length)
  BY DEF Sending
<1>2. /\ IsRun(Presented, Base) /\ Len(Presented) \in Nat \ {0}
      /\ Length = Len(Presented) /\ state # "closed"
  BY <1>1, PresentedIs
<1>3. Open /\ wnum \in Nat /\ tot \in Nat
  BY <1>2 DEF IInv, Numbers
<1>4. Len(wire) \in Nat /\ Len(rec) \in Nat /\ Base \in Nat /\ (rec = <<>> <=> Len(rec) = 0)
  BY <1>3, LensAre DEF Open, Flight, Base, Used
<1>5. CASE Fresh
  <2>1. rec = <<>> /\ tot = 0
    BY <1>3, <1>5 DEF Fresh, Open, Flight
  <2>2. wnum <= Len(Presented)
    BY <1>1, <1>2, <1>3, <2>1 DEF InSSL, Open, Held, InFlush, InWrite, Presented, Used
  <2>3. wnum < Len(Presented)
    BY <1>1, <1>2, <1>3, <1>5, <2>2
  <2> DEFINE e == Least(wnum + MaxRecord, Length)
  <2>4. e \in (wnum + 1)..Len(Presented)
    <3>1. MaxRecord \in Nat \ {0}
      BY WriteAssumption
    <3> QED BY <1>2, <1>3, <2>3, <3>1 DEF Least
  <2>5. Record = SubSeq(Presented, wnum + 1, e)
    BY <1>5 DEF Record
  <2>6. IsRun(Record, Base + wnum) /\ Len(Record) = e - wnum
    <3> HIDE DEF e
    <3>1. wnum \in 0..Len(Presented) /\ e \in wnum..Len(Presented)
      BY <1>2, <1>3, <2>3, <2>4
    <3> QED BY <1>2, <1>4, <2>5, <3>1, RunPart
  <2>7. Base + wnum = Len(wire) /\ RecordLen = Len(Record)
    BY <1>3, <1>4, <1>5, <2>1 DEF Base, Used, RecordLen
  <2> HIDE DEF e
  <2> QED BY <1>2, <1>3, <1>4, <2>4, <2>6, <2>7
<1>6. CASE ~Fresh
  <2>1. Record = rec /\ RecordLen = tot /\ rec # <<>>
    BY <1>6 DEF Record, RecordLen, Fresh
  <2>2. wnum + tot <= Len(Presented)
    BY <1>1, <1>2, <1>3, <2>1 DEF BadLength
  <2> QED BY <1>3, <1>4, <2>1, <2>2 DEF Open, Flight, Base, Used
<1> QED BY <1>5, <1>6

(* However much of it the callback takes, the stream goes on from there.   *)
After ==
  /\ Flight' /\ Base' = Base /\ wnum' \in Nat /\ tot' \in Nat
  /\ Used' = wnum + RecordLen /\ RecordLen \in Nat /\ Used' <= Len(Presented)

LEMMA AfterAsked ==
  ASSUME ShortStream, IInv, NEW n \in Nat, NEW os, Asked(n, os)
  PROVE  After /\ (n = 0 => rec' # <<>>)
<1> DEFINE L == Len(Record)
           s == SubSeq(Record, 1, n)
           r == SubSeq(Record, n + 1, L)
<1>1. /\ Sending /\ n <= L /\ wire' = wire \o s /\ rec' = r
      /\ IF n = L THEN wnum' = wnum + RecordLen /\ tot' = 0
                  ELSE wnum' = wnum /\ tot' = RecordLen
  BY DEF Asked
<1>2. /\ IsRun(Record, Len(wire)) /\ L \in Nat \ {0}
      /\ RecordLen \in Nat /\ L <= RecordLen
      /\ wnum + RecordLen <= Len(Presented)
      /\ Base = Len(wire) + L - (wnum + RecordLen)
  BY <1>1, RecordIs
<1>3. Open /\ wnum \in Nat /\ tot \in Nat /\ Len(Presented) \in Nat
  BY <1>1, PresentedIs DEF IInv, Numbers, Sending
<1>4. IsRun(wire, 0) /\ Len(wire) \in Nat /\ Base >= 0
  BY <1>3, LensAre DEF Open, Flight
<1>5. IsRun(s, Len(wire)) /\ Len(s) = n
  <2>1. 0 \in 0..L /\ n \in 0..L
    BY <1>1, <1>2
  <2>2. IsRun(SubSeq(Record, 0 + 1, n), Len(wire) + 0) /\ Len(SubSeq(Record, 0 + 1, n)) = n - 0
    BY <1>2, <1>4, <2>1, RunPart
  <2> QED BY <1>4, <2>2
<1>6. IsRun(r, Len(wire) + n) /\ Len(r) = L - n
  <2>1. n \in 0..L /\ L \in n..L
    BY <1>1, <1>2
  <2> QED BY <1>2, <1>4, <2>1, RunPart
<1> HIDE DEF s, r, L
<1>7. IsRun(wire', 0) /\ Len(wire') = Len(wire) + n
  <2>1. 0 + Len(wire) = Len(wire) /\ 0 \in Int
    BY <1>4
  <2>2. IsRun(s, 0 + Len(wire))
    BY <1>5, <2>1
  <2>3. IsRun(wire \o s, 0) /\ Len(wire \o s) = Len(wire) + Len(s)
    BY <1>4, <2>1, <2>2, RunJoin
  <2> QED BY <1>1, <1>5, <2>3
<1>8. Len(rec') = L - n /\ IsRun(rec', Len(wire')) /\ (rec' = <<>> <=> Len(rec') = 0)
  BY <1>1, <1>6, <1>7, RunLen
<1>9. /\ wnum' \in Nat /\ tot' \in Nat /\ Used' = wnum + RecordLen
      /\ Len(rec') <= tot' /\ (rec' = <<>> => tot' = 0)
  <2>1. CASE n = L
    BY <1>1, <1>2, <1>3, <1>8, <2>1 DEF Used
  <2>2. CASE n # L
    BY <1>1, <1>2, <1>3, <1>8, <2>2 DEF Used
  <2> QED BY <2>1, <2>2
<1>10. Base' = Base
  <2>1. Base' = Len(wire') + Len(rec') - Used'
    BY DEF Base
  <2>2. Len(wire') = Len(wire) + n /\ Len(rec') = L - n /\ Used' = wnum + RecordLen
    BY <1>7, <1>8, <1>9
  <2>3. Base' = (Len(wire) + n) + ((L - n) - (wnum + RecordLen))
    BY <2>1, <2>2
  <2> QED BY <1>2, <1>3, <1>4, <2>3
<1> QED BY <1>1, <1>2, <1>4, <1>7, <1>8, <1>9, <1>10 DEF After, Flight

(* The latch keeps a record ready without asking.                          *)
LEMMA AfterReady ==
  ASSUME ShortStream, IInv, Sending, rec' = Record, tot' = RecordLen, UNCHANGED <<wire, wnum>>
  PROVE  After /\ rec' # <<>>
<1>1. /\ IsRun(Record, Len(wire)) /\ Len(Record) \in Nat \ {0}
      /\ RecordLen \in Nat /\ Len(Record) <= RecordLen
      /\ wnum + RecordLen <= Len(Presented)
      /\ Base = Len(wire) + Len(Record) - (wnum + RecordLen)
  BY RecordIs
<1>2. Open /\ wnum \in Nat /\ IsRun(wire, 0) /\ Base >= 0
  BY PresentedIs DEF IInv, Numbers, Sending, Open, Flight
<1>3. rec' # <<>>
  BY <1>1, RunLen
<1>4. Used' = wnum + RecordLen
  BY <1>1, <1>2 DEF Used
<1>5. Base' = Base
  BY <1>1, <1>4 DEF Base
<1> QED BY <1>1, <1>2, <1>3, <1>4, <1>5 DEF After, Flight

-----------------------------------------------------------------------------
(* What each step leaves.                                                  *)
LEMMA EnterOK ==
  ASSUME ShortStream, IInv, NEW h, NEW len \in Nat, Enter(h, len), accepted + len <= MaxBytes,
         state = "connected" \/ (state = "aborted" /\ h = "close"), h = "close" => len = 0
  PROVE  IInv'
<1>1. Open /\ state # "closed" /\ pc = "idle"
  BY DEF IInv, Enter
<1>2. /\ off' = 0 /\ data' = Bytes(accepted, len) /\ pc' = AfterEntry(len) /\ hook' = h
      /\ entry' = [asked |-> 0, said |-> FALSE, held |-> wpend] /\ ret' = NoRet
      /\ UNCHANGED <<state, wpend, wnum, rec, tot, wire, accepted>>
  BY DEF Enter, ssl
<1>3. accepted \in 0..MaxBytes /\ MaxBytes \in Nat
  BY WriteAssumption DEF IInv, Numbers
<1>4. IsRun(data', accepted') /\ Len(data') = len /\ (data' = <<>> <=> len = 0)
  <2>1. IsRun(Bytes(accepted, len), accepted) /\ Len(Bytes(accepted, len)) = len
    BY <1>3, RunBytes
  <2>2. Bytes(accepted, len) = <<>> <=> len = 0
    BY <2>1, RunLen
  <2> QED BY <1>2, <2>1, <2>2
<1>5. Base' = Base /\ Used' = Used
  BY <1>2 DEF Base, Used
<1>6. Flight' /\ Held'
  BY <1>1, <1>2, <1>5 DEF Open, Flight, Held
<1>7. pc' \in {"flush", "write", "return"}
  BY <1>2 DEF AfterEntry
<1>8. Within'
  BY <1>2, <1>3, <1>4 DEF Within
<1>9. AtRest' /\ HonestAnswer'
  BY <1>7 DEF AtRest, HonestAnswer
<1>10. InFlush'
  BY <1>2 DEF InFlush, AfterEntry
<1>11. InWrite'
  <2> SUFFICES ASSUME pc' = "write" PROVE InWrite'
    BY DEF InWrite
  <2>1. wpend = <<>> /\ len > 0 /\ state = "connected"
    BY <1>2 DEF AfterEntry
  <2>2. Base = accepted /\ (rec = <<>> => Used = 0)
    BY <1>1, <2>1 DEF Open, AtRest, Flight, Used
  <2>3. h # "close"
    BY <2>1
  <2> QED BY <1>2, <1>3, <1>4, <1>5, <2>1, <2>2, <2>3 DEF InWrite
<1>12. InReturn'
  <2> SUFFICES ASSUME pc' = "return" PROVE InReturn'
    BY DEF InReturn
  <2>1. wpend = <<>> /\ len = 0
    BY <1>2 DEF AfterEntry
  <2>2. accepted + Len(data') = accepted
    BY <1>3, <1>4, <2>1
  <2> QED BY <1>1, <1>2, <1>5, <2>1, <2>2 DEF InReturn, Open, AtRest
<1>13. Numbers'
  BY <1>2 DEF IInv, Numbers
<1>14. state' # "closed" /\ state' # "new" /\ entry' = [asked |-> entry'.asked, said |-> entry'.said, held |-> entry'.held]
  BY <1>2
<1> QED BY <1>6, <1>7, <1>8, <1>9, <1>10, <1>11, <1>12, <1>13, <1>14 DEF IInv, Open

LEMMA TookOK ==
  ASSUME ShortStream, IInv, NEW n \in Nat, NEW os, bio_bwrite_took(n, os)
  PROVE  IInv'
<1>1. Asked(n, os) /\ UNCHANGED <<state, wpend, accepted, pc, hook, data, off, ret>>
  BY DEF bio_bwrite_took, frame
<1>2. After
  BY <1>1, AfterAsked
<1>3. InSSL /\ Open /\ state # "closed" /\ Numbers
  BY <1>1, PresentedIs DEF Asked, Sending, IInv
<1>4. /\ entry'.held = entry.held
      /\ entry' = [asked |-> entry'.asked, said |-> entry'.said, held |-> entry'.held]
  BY <1>1 DEF Asked, IInv
<1>5. pc \in {"flush", "write"} /\ pc' = pc
  BY <1>1, <1>3 DEF InSSL
<1>6. Held'
  <2>1. wpend # <<>> => pc = "flush" /\ Presented = wpend
    BY <1>3, <1>5 DEF Open, InWrite, Presented
  <2> QED BY <1>1, <1>2, <1>3, <2>1 DEF Open, Held, After
<1>7. InWrite'
  <2>1. pc = "write" => Run' = Run /\ Presented = Run
    BY <1>1 DEF Run, Presented
  <2> QED BY <1>1, <1>2, <1>3, <2>1 DEF Open, InWrite, After
<1>8. AtRest' /\ HonestAnswer' /\ InReturn'
  BY <1>5 DEF AtRest, HonestAnswer, InReturn
<1>9. InFlush' /\ Within'
  BY <1>1, <1>3, <1>4 DEF Open, InFlush, Within
<1>10. Numbers'
  BY <1>1, <1>2, <1>3 DEF Numbers, After
<1>11. state' \notin {"new", "closed"}
  BY <1>1, <1>3, <1>5 DEF Open, Within
<1> QED BY <1>2, <1>4, <1>5, <1>6, <1>7, <1>8, <1>9, <1>10, <1>11 DEF IInv, Open, After

(* Would-block keeps the queue, or puts the rest of the buffer into it.    *)
LEMMA BlockedOK ==
  ASSUME ShortStream, IInv, InSSL, After, rec' # <<>>, Blocked, entry'.held = entry.held,
         entry' = [asked |-> entry'.asked, said |-> entry'.said, held |-> entry'.held]
  PROVE  IInv'
<1>1. /\ Open /\ Numbers /\ state # "closed" /\ state' = state /\ state = "connected"
      /\ pc' = "idle" /\ UNCHANGED <<hook, data, off>>
  <2>1. Open /\ Numbers /\ state # "closed"
    BY PresentedIs DEF IInv
  <2>2. hook # "close" /\ pc # "idle"
    BY <2>1 DEF Blocked, BlockedFlush, BlockedWrite, Open, InWrite
  <2>3. state = "connected"
    BY <2>1, <2>2 DEF Open, Within
  <2> QED BY <2>1, <2>3 DEF Blocked, BlockedFlush, BlockedWrite, Return, frame
<1>2. Base' = Base /\ Base \in Int /\ Used' <= Len(Presented) /\ Flight'
  <2>1. Len(wire) \in Nat /\ Len(rec) \in Nat
    BY <1>1, LensAre
  <2>2. wnum \in Nat /\ tot \in Nat
    BY <1>1 DEF Numbers
  <2>3. Base \in Int
    BY <2>1, <2>2 DEF Base, Used
  <2>4. Flight' /\ Base' = Base /\ Used' <= Len(Presented)
    BY DEF After
  <2> QED BY <2>3, <2>4
<1>3. Numbers' /\ Held' /\ AtRest' /\ HonestAnswer'
  <2>1. CASE BlockedFlush
    <3>1. /\ pc = "flush" /\ wpend' = wpend /\ accepted' = accepted
          /\ ret' \in {NoRet, [status |-> "WouldBlock", processed |-> 0]}
      BY <1>1, <2>1 DEF BlockedFlush, Return, Numbers
    <3>2. wpend # <<>> /\ wpend = entry.held /\ Presented = wpend
      BY <1>1, <3>1 DEF Open, InFlush, Presented
    <3>3. Numbers'
      BY <1>1, <3>1 DEF Numbers, After
    <3>4. Held' /\ AtRest'
      BY <1>1, <1>2, <3>1, <3>2 DEF Open, Held, AtRest
    <3>5. HonestAnswer'
      BY <3>1, <3>2 DEF HonestAnswer
    <3> QED BY <3>3, <3>4, <3>5
  <2>2. CASE pc = "write"
    <3>1. /\ wpend = <<>> /\ off < Len(data) /\ Base = accepted + off /\ IsRun(data, accepted)
          /\ accepted + Len(data) <= MaxBytes /\ Len(data) \in Nat /\ Presented = Run
          /\ accepted \in 0..MaxBytes /\ off \in Nat /\ MaxBytes \in Nat
      BY WriteAssumption, <1>1, <2>2, LensAre DEF Open, InWrite, Within, Presented, Numbers
    <3>2. data # <<>> /\ Len(Run) \in Nat /\ Len(Run) <= Len(data) - off
      BY <2>2, <3>1, PresentedIs, RunLen
    <3>3. IsRun(Rest, Base) /\ Len(Rest) = Len(data) - off
      <4>1. off \in 0..Len(data) /\ Len(data) \in off..Len(data)
        BY <3>1
      <4> QED BY <3>1, <4>1, RunPart DEF Rest
    <3>4. CASE sh_hold_write /\ Return("WouldBlock", Len(data))
      <4>1. <<>> \o Rest = Rest
        BY <3>3, ConcatEmptySeq DEF IsRun
      <4>2. /\ wpend' = Rest /\ accepted' = accepted + Len(data)
            /\ ret' \in {NoRet, [status |-> "WouldBlock", processed |-> Len(data)]}
        BY <3>1, <3>4, <4>1 DEF sh_hold_write, Return
      <4>3. Rest # <<>>
        BY <3>1, <3>3, RunLen
      <4>4. accepted + Len(data) = Base + Len(Rest)
        BY <3>1, <3>3
      <4>5. Used' <= Len(Rest)
        <5>1. Used' = wnum + RecordLen
          BY DEF After
        <5>2. wnum + RecordLen <= Len(Run) /\ RecordLen \in Int /\ wnum \in Int
          BY <1>1, <1>2, <3>1, <5>1 DEF Numbers, After
        <5> QED BY <3>1, <3>2, <3>3, <5>1, <5>2
      <4>6. Numbers'
        BY <1>1, <3>1, <4>2 DEF Numbers, After
      <4>7. Held' /\ AtRest'
        BY <1>1, <1>2, <3>3, <4>2, <4>3, <4>4, <4>5 DEF Held, AtRest
      <4>8. HonestAnswer'
        BY <1>1, <3>2, <4>2, <4>3 DEF HonestAnswer
      <4> QED BY <4>6, <4>7, <4>8
    <3>5. CASE CanFail /\ wpend' = wpend /\ Return("WouldBlock", off)
      <4>1. /\ wpend' = <<>> /\ accepted' = accepted + off
            /\ ret' \in {NoRet, [status |-> "WouldBlock", processed |-> off]}
        BY <3>1, <3>5 DEF Return
      <4>2. Numbers'
        BY <1>1, <3>1, <4>1 DEF Numbers, After
      <4>3. Held' /\ AtRest'
        BY <1>1, <1>2, <3>1, <4>1, RunEmpty DEF Held, AtRest
      <4>4. HonestAnswer'
        BY <1>1, <3>5, <4>1 DEF HonestAnswer
      <4> QED BY <4>2, <4>3, <4>4
    <3> QED BY <2>1, <2>2, <3>4, <3>5 DEF Blocked, BlockedWrite, BlockedFlush
  <2> QED BY <2>1, <2>2 DEF Blocked, BlockedWrite
<1>4. Within' /\ InFlush' /\ InWrite' /\ InReturn'
  BY <1>1 DEF Within, InFlush, InWrite, InReturn
<1> QED BY <1>1, <1>2, <1>3, <1>4 DEF IInv, Open

(* A failed write keeps what was taken; the context is not used again.     *)
LEMMA AbortOK ==
  ASSUME ShortStream, IInv, InSSL, hook # "close", Return("ClosedAbort", 0), wpend' = wpend,
         Flight', Base' = Base, wnum' \in Nat, tot' \in Nat, rec' # <<>>,
         pc = "flush" => Used' <= Len(wpend), entry'.held = entry.held,
         entry' = [asked |-> entry'.asked, said |-> entry'.said, held |-> entry'.held]
  PROVE  IInv'
<1>1. /\ Open /\ Numbers /\ state' = "aborted" /\ pc' = "idle" /\ UNCHANGED <<hook, data, off>>
  BY PresentedIs DEF IInv, Return, frame
<1>2. accepted' = accepted /\ Numbers'
  BY <1>1 DEF Return, Numbers
<1>3. CASE pc = "flush"
  <2>1. wpend # <<>>
    BY <1>1, <1>3 DEF Open, InFlush
  <2> QED BY <1>1, <1>2, <1>3, <2>1 DEF IInv, Open, Held, AtRest, Within, InFlush, InWrite, InReturn, HonestAnswer
<1>4. CASE pc = "write"
  <2>1. wpend = <<>> /\ Base = accepted + off /\ Base \in Int /\ accepted <= Base
    BY <1>1, <1>4 DEF Open, InWrite, Numbers
  <2> QED BY <1>1, <1>2, <1>4, <2>1, RunEmpty DEF IInv, Open, Held, AtRest, Within, InFlush, InWrite, InReturn, HonestAnswer
<1> QED BY <1>3, <1>4 DEF InSSL

LEMMA BadLengthOK ==
  ASSUME ShortStream, IInv, bad_length
  PROVE  IInv'
<1>1. /\ InSSL /\ BadLength /\ hook # "close" /\ Return("ClosedAbort", 0)
      /\ UNCHANGED <<wpend, wnum, rec, tot, wire, entry>>
  BY DEF bad_length, queue, ssl
<1>2. Open /\ Numbers /\ Length = Len(Presented) /\ Len(Presented) \in Nat \ {0}
  BY <1>1, PresentedIs DEF IInv
<1>3. rec # <<>>
  BY <1>1, <1>2 DEF BadLength
<1>4. Base' = Base /\ Used' = Used /\ Flight'
  BY <1>1, <1>2 DEF Base, Used, Open, Flight
<1>5. pc = "flush" => Used <= Len(wpend)
  BY <1>2 DEF Open, Held, InFlush
<1> QED BY <1>1, <1>2, <1>3, <1>4, <1>5, AbortOK DEF Numbers, IInv

LEMMA ErrorOK ==
  ASSUME ShortStream, IInv, bio_bwrite_error
  PROVE  IInv'
<1>1. Asked(0, "Error") /\ hook # "close" /\ Return("ClosedAbort", 0) /\ wpend' = wpend
  BY DEF bio_bwrite_error
<1>2. After /\ rec' # <<>> /\ InSSL
  BY <1>1, AfterAsked DEF Asked, Sending
<1>3. /\ entry'.held = entry.held
      /\ entry' = [asked |-> entry'.asked, said |-> entry'.said, held |-> entry'.held]
  BY <1>1 DEF Asked, IInv
<1>4. pc = "flush" => Presented = wpend
  BY DEF Presented
<1> QED BY <1>1, <1>2, <1>3, <1>4, AbortOK DEF After

(* SSLClose ends the stream where it is, and with close_notify only where  *)
(* all that was taken is on the wire.                                      *)
LEMMA ClosedOK ==
  ASSUME IInv, Closed, IsRun(wire, 0), wnum' \in Nat, tot' \in Nat, off' = off, UNCHANGED entry,
         wire' = wire \/ (wire' = Append(wire, 0) /\ accepted <= Len(wire))
  PROVE  IInv'
<1>1. /\ pc' = "idle" /\ state' = "closed" /\ wpend' = <<>> /\ ret' = NoRet /\ accepted' = accepted
      /\ accepted \in Nat /\ Numbers'
  BY DEF Closed, IInv, Numbers
<1>2. Len(wire) \in Nat /\ wire \in Seq(Int) /\ \A k \in 1..Len(wire) : wire[k] = k
  BY RunLen DEF IsRun
<1>3. Ended'
  <2>1. CASE wire' = wire
    <3>1. DOMAIN wire = 1..Len(wire)
      BY <1>2, LenProperties
    <3>2. 0 \notin ToSet(wire)
      BY <1>2, <3>1 DEF ToSet
    <3> QED BY <1>1, <1>2, <2>1, <3>1, <3>2 DEF Ended, WireInOrder
  <2>2. CASE wire' = Append(wire, 0) /\ accepted <= Len(wire)
    <3> DEFINE w == Append(wire, 0)
    <3>1. /\ w \in Seq(Int) /\ Len(w) = Len(wire) + 1 /\ w[Len(wire) + 1] = 0
          /\ \A k \in 1..Len(wire) : w[k] = k
      BY <1>2, AppendProperties
    <3>2. DOMAIN w = 1..(Len(wire) + 1)
      BY <3>1, LenProperties
    <3> HIDE DEF w
    <3>3. \A k \in DOMAIN w : w[k] = k \/ (k = Len(w) /\ w[k] = 0)
      BY <1>2, <3>1, <3>2
    <3>4. 1..accepted \subseteq ToSet(w)
      <4>1. ASSUME NEW x \in 1..accepted PROVE x \in DOMAIN w /\ w[x] = x
        BY <1>1, <1>2, <2>2, <3>1, <3>2, <4>1
      <4> QED BY <4>1 DEF ToSet
    <3>5. wire' = w
      BY <2>2 DEF w
    <3> QED BY <1>1, <3>3, <3>4, <3>5 DEF Ended, WireInOrder
  <2> QED BY <2>1, <2>2
<1>4. HonestAnswer'
  BY <1>1 DEF HonestAnswer
<1> QED BY <1>1, <1>3, <1>4 DEF IInv

LEMMA CloseBlockedOK ==
  ASSUME ShortStream, IInv, close_blocked
  PROVE  IInv'
<1>1. /\ pc = "flush" /\ CloseNotify /\ Closed /\ UNCHANGED <<wnum, tot, entry, off>>
      /\ (Sending /\ rec' = Record) \/ (BadLength /\ rec' = rec)
  BY DEF close_blocked, Closed, frame
<1>2. Open /\ Numbers /\ Length = Len(Presented) /\ Len(Presented) \in Nat \ {0}
  BY <1>1, PresentedIs DEF IInv, InSSL
<1>3. rec' # <<>>
  <2>1. CASE Sending
    <3>1. IsRun(Record, Len(wire)) /\ Len(Record) # 0
      BY <2>1, RecordIs
    <3>2. Record # <<>>
      BY <3>1, RunLen
    <3>3. Sending => ~BadLength
      BY DEF Sending
    <3> QED BY <1>1, <2>1, <3>2, <3>3
  <2>2. CASE BadLength /\ rec' = rec
    BY <1>2, <2>2 DEF BadLength
  <2> QED BY <1>1, <2>1, <2>2
<1>4. wire' = wire
  BY <1>1, <1>3 DEF CloseNotify
<1> QED BY <1>1, <1>2, <1>4, ClosedOK DEF Open, Flight, Numbers

LEMMA ReturnCloseOK ==
  ASSUME ShortStream, IInv, return_close
  PROVE  IInv'
<1>1. /\ pc = "return" /\ hook = "close" /\ rec' = rec /\ CloseNotify /\ Closed
      /\ UNCHANGED <<wnum, tot, entry, off>>
  BY DEF return_close, Closed, frame
<1>2. Open /\ Numbers
  BY <1>1 DEF IInv, Ended
<1>3. ASSUME rec = <<>> PROVE accepted <= Len(wire)
  <2>1. wnum = 0 /\ tot = 0 /\ data = <<>> /\ accepted + Len(data) <= Base
    BY <1>1, <1>2, <1>3 DEF Open, InReturn, Flight, Within
  <2>2. Len(wire) \in Nat /\ Len(rec) = 0 /\ Len(data) = 0
    BY <1>1, <1>2, <1>3, <2>1, LensAre
  <2> QED BY <1>2, <2>1, <2>2 DEF Base, Used, Numbers
<1>4. wire' = wire \/ (wire' = Append(wire, 0) /\ accepted <= Len(wire))
  BY <1>1, <1>3 DEF CloseNotify
<1> QED BY <1>1, <1>2, <1>4, ClosedOK DEF Open, Flight, Numbers

(* SSL_write took all it was given.                                        *)
LEMMA FlushedOK ==
  ASSUME ShortStream, IInv, flushed
  PROVE  IInv'
<1>1. /\ pc = "flush" /\ Written /\ wpend' = <<>> /\ wnum' = 0
      /\ pc' = IF data # <<>> THEN "write" ELSE "return"
      /\ UNCHANGED <<state, rec, tot, wire, accepted, hook, data, off, entry, ret>>
  BY DEF flushed, frame
<1>2. Open /\ Numbers /\ state # "closed" /\ Length = Len(Presented) /\ Presented = wpend
  BY <1>1, PresentedIs DEF IInv, InSSL, Presented
<1>3. rec = <<>> /\ wnum = Len(wpend) /\ tot = 0 /\ wpend # <<>> /\ off = 0 /\ accepted = Base + Len(wpend)
  BY <1>1, <1>2 DEF Written, Fresh, Open, Flight, InFlush, Held
<1>4. /\ Len(wire) \in Nat /\ Len(rec) = 0 /\ Len(wpend) \in Nat
      /\ Len(data) \in Nat /\ (data = <<>> <=> Len(data) = 0)
  BY <1>1, <1>2, <1>3, LensAre
<1>5. Base = Len(wire) - Len(wpend) /\ accepted = Len(wire)
  BY <1>3, <1>4 DEF Base, Used
<1>6. Used' = 0 /\ Base' = Len(wire)
  BY <1>1, <1>3, <1>4 DEF Base, Used
<1>7. Flight' /\ Held'
  BY <1>1, <1>2, <1>3, <1>4, <1>6, RunEmpty DEF Open, Flight, Held
<1>8. Within' /\ AtRest' /\ InFlush' /\ HonestAnswer'
  BY <1>1, <1>2 DEF Open, Within, AtRest, InFlush, HonestAnswer
<1>9. InWrite'
  <2> SUFFICES ASSUME pc' = "write" PROVE InWrite'
    BY DEF InWrite
  <2>1. data # <<>> /\ hook # "close"
    BY <1>1, <1>2 DEF Open, Within
  <2> QED BY <1>1, <1>3, <1>4, <1>5, <1>6, <2>1 DEF InWrite
<1>10. InReturn'
  BY <1>1, <1>4, <1>5, <1>6 DEF InReturn
<1>11. Numbers'
  BY <1>1, <1>2 DEF Numbers
<1>12. state' \notin {"new", "closed"}
  BY <1>1, <1>2 DEF Open, Within
<1> QED BY <1>1, <1>7, <1>8, <1>9, <1>10, <1>11, <1>12 DEF IInv, Open

LEMMA RunWrittenOK ==
  ASSUME ShortStream, IInv, run_written
  PROVE  IInv'
<1>1. /\ pc = "write" /\ Written /\ wnum' = 0 /\ off' = off + Len(Run)
      /\ pc' = IF off + Len(Run) < Len(data) THEN "write" ELSE "return"
      /\ UNCHANGED <<state, wpend, rec, tot, wire, accepted, hook, data, entry, ret>>
  BY DEF run_written, queue
<1>2. /\ Open /\ Numbers /\ state # "closed" /\ Length = Len(Run) /\ Len(Run) \in Nat \ {0}
      /\ Len(Run) <= Len(data) - off
  BY <1>1, PresentedIs DEF IInv, InSSL, Presented
<1>3. /\ rec = <<>> /\ wnum = Len(Run) /\ tot = 0 /\ wpend = <<>> /\ Base = accepted + off /\ hook # "close"
      /\ accepted \in Nat /\ off \in Nat
  BY <1>1, <1>2 DEF Written, Fresh, Open, Flight, InWrite, Numbers
<1>4. Len(wire) \in Nat /\ Len(rec) = 0 /\ Len(data) \in Nat
  BY <1>1, <1>2, <1>3, LensAre
<1>5. Len(wire) = accepted + (off + Len(Run))
  BY <1>2, <1>3, <1>4 DEF Base, Used
<1>6. Used' = 0 /\ Base' = Len(wire)
  BY <1>1, <1>3, <1>4 DEF Base, Used
<1>7. Flight' /\ Held'
  BY <1>1, <1>2, <1>3, <1>4, <1>6, RunEmpty DEF Open, Flight, Held
<1>8. Within' /\ AtRest' /\ InFlush' /\ HonestAnswer'
  BY <1>1, <1>2 DEF Open, Within, AtRest, InFlush, HonestAnswer
<1>9. CASE off + Len(Run) < Len(data)
  <2>1. InWrite'
    BY <1>1, <1>3, <1>5, <1>6, <1>9 DEF InWrite
  <2>2. InReturn'
    BY <1>1, <1>9 DEF InReturn
  <2> QED BY <1>1, <1>2, <1>3, <1>7, <1>8, <2>1, <2>2 DEF IInv, Open, Numbers, Within
<1>10. CASE ~(off + Len(Run) < Len(data))
  <2>1. accepted + Len(data) = Len(wire)
    BY <1>2, <1>3, <1>4, <1>5, <1>10
  <2>2. InReturn'
    BY <1>1, <1>3, <1>4, <1>6, <2>1 DEF InReturn
  <2>3. InWrite'
    BY <1>1, <1>10 DEF InWrite
  <2> QED BY <1>1, <1>2, <1>3, <1>7, <1>8, <2>2, <2>3 DEF IInv, Open, Numbers, Within
<1> QED BY <1>9, <1>10

LEMMA ReturnOK ==
  ASSUME ShortStream, IInv, return_ok
  PROVE  IInv'
<1>1. /\ pc = "return" /\ hook # "close" /\ Return("noErr", Len(data))
      /\ UNCHANGED <<wpend, wnum, rec, tot, wire, entry>>
  BY DEF return_ok, queue, ssl
<1>2. Open /\ Numbers /\ state = "connected"
  BY <1>1 DEF IInv, Ended, Open, Within
<1>3. /\ wpend = <<>> /\ (rec = <<>> => wnum = 0) /\ accepted + Len(data) = Base
      /\ accepted + Len(data) <= MaxBytes
  BY <1>1, <1>2 DEF Open, InReturn, Within
<1>4. Len(wire) \in Nat /\ Len(rec) \in Nat /\ Len(data) \in Nat
  BY <1>1, <1>2, LensAre
<1>5. /\ accepted' = accepted + Len(data) /\ pc' = "idle" /\ state' = state
      /\ UNCHANGED <<hook, data, off>>
      /\ ret' \in {NoRet, [status |-> "noErr", processed |-> Len(data)]}
  BY <1>1 DEF Return, frame
<1>6. Base' = Base /\ Used' = Used /\ Base \in Int
  BY <1>1, <1>2, <1>4 DEF Base, Used, Numbers
<1>7. Flight' /\ Held'
  BY <1>1, <1>2, <1>3, <1>6, RunEmpty DEF Open, Flight, Held
<1>8. AtRest'
  BY <1>1, <1>3, <1>5, <1>6 DEF AtRest
<1>9. Base <= Len(wire)
  BY <1>2, <1>4 DEF Base, Used, Numbers, Open, Flight
<1>10. HonestAnswer'
  <2>1. 1..(accepted + Len(data)) \subseteq ToSet(wire)
    BY <1>2, <1>3, <1>4, <1>6, <1>9, RunMembers DEF Open, Flight, Numbers
  <2> QED BY <1>1, <1>3, <1>5, <2>1 DEF HonestAnswer
<1>11. Within' /\ InFlush' /\ InWrite' /\ InReturn'
  BY <1>5 DEF Within, InFlush, InWrite, InReturn
<1>12. Numbers'
  BY WriteAssumption, <1>1, <1>2, <1>3, <1>4, <1>5 DEF Numbers
<1> QED BY <1>1, <1>2, <1>5, <1>7, <1>8, <1>10, <1>11, <1>12 DEF IInv, Open

(* A stream that starts: after a re-initialisation, or on another context. *)
LEMMA FreshOK ==
  ASSUME ShortStream, pc = "idle", wpend = <<>>, wnum = 0, rec = <<>>, tot = 0, wire = <<>>, accepted = 0,
         off \in Nat, ret = NoRet, entry = FreshEntry, state # "closed"
  PROVE  IInv
<1>1. Used = 0 /\ Base = 0
  BY RunEmpty DEF Used, Base
<1>2. Numbers
  BY WriteAssumption DEF Numbers
<1>3. Flight /\ Held /\ AtRest
  BY <1>1, RunEmpty DEF Flight, Held, AtRest
<1>4. Within /\ InFlush /\ InWrite /\ InReturn /\ HonestAnswer
  BY DEF Within, InFlush, InWrite, InReturn, HonestAnswer
<1>5. entry = [asked |-> entry.asked, said |-> entry.said, held |-> entry.held]
  BY DEF FreshEntry
<1> QED BY <1>2, <1>3, <1>4, <1>5 DEF IInv, Open

LEMMA FreshStepOK ==
  ASSUME ShortStream, IInv, Reinit \/ NextConnection
  PROVE  IInv'
<1>1. /\ pc' = "idle" /\ wpend' = <<>> /\ wnum' = 0 /\ rec' = <<>> /\ tot' = 0 /\ wire' = <<>>
      /\ accepted' = 0 /\ off' \in Nat /\ ret' = NoRet /\ entry' = FreshEntry /\ state' = "new"
  BY DEF Reinit, NextConnection, sh_reset_write, frame, IInv, Ended, Numbers
<1>2. Used' = 0 /\ Base' = 0
  BY <1>1, RunEmpty DEF Used, Base
<1>3. Numbers'
  BY WriteAssumption, <1>1 DEF Numbers
<1>4. Flight' /\ Held' /\ AtRest'
  BY <1>1, <1>2, RunEmpty DEF Flight, Held, AtRest
<1>5. Within' /\ InFlush' /\ InWrite' /\ InReturn' /\ HonestAnswer'
  BY <1>1 DEF Within, InFlush, InWrite, InReturn, HonestAnswer
<1>6. entry' = [asked |-> entry'.asked, said |-> entry'.said, held |-> entry'.held]
  BY <1>1 DEF FreshEntry
<1> QED BY <1>1, <1>3, <1>4, <1>5, <1>6 DEF IInv, Open

LEMMA RehandshakeOK ==
  ASSUME ShortStream, IInv, Rehandshake
  PROVE  IInv'
<1>1. /\ state = "new" /\ state' = "connected" /\ ret = NoRet
      /\ UNCHANGED <<wpend, wnum, rec, tot, wire, accepted, pc, hook, data, off, entry, ret>>
  BY DEF Rehandshake, queue, ssl, frame, IInv
<1>2. Open /\ Numbers /\ pc = "idle"
  BY <1>1 DEF IInv, Open, Within
<1>3. Base' = Base /\ Used' = Used
  BY <1>1 DEF Base, Used
<1>4. Open'
  BY <1>1, <1>2, <1>3 DEF Open, Flight, Held, AtRest, Within, InFlush, InWrite, InReturn
<1> QED BY <1>1, <1>2, <1>4 DEF IInv, Numbers, HonestAnswer

LEMMA StutterOK ==
  ASSUME IInv, UNCHANGED vars
  PROVE  IInv'
<1>1. UNCHANGED <<state, wpend, wnum, rec, tot, wire, accepted, pc, hook, data, off, entry, ret>>
  BY DEF vars, queue, ssl, frame
<1>2. Base' = Base /\ Used' = Used /\ Run' = Run
  BY <1>1 DEF Base, Used, Run
<1>3. Open => Open'
  BY <1>1, <1>2 DEF Open, Flight, Held, AtRest, Within, InFlush, InWrite, InReturn
<1>4. Ended => Ended'
  BY <1>1 DEF Ended, WireInOrder
<1> QED BY <1>1, <1>3, <1>4 DEF IInv, Numbers, HonestAnswer

(* No step breaks the stream.                                              *)
LEMMA Inductive ==
  ASSUME ShortStream
  PROVE  IInv /\ [Next]_vars => IInv'
<1> SUFFICES ASSUME IInv, [Next]_vars PROVE IInv'
  OBVIOUS
<1>0. MaxLen \in Nat /\ MaxRecord \in Nat /\ accepted \in 0..MaxBytes /\ MaxBytes \in Nat
  BY WriteAssumption DEF IInv, Numbers
<1>1. ASSUME NEW len \in 0..MaxLen, EnterWrite(len) PROVE IInv'
  BY <1>0, <1>1, EnterOK DEF EnterWrite
<1>2. ASSUME EnterRead \/ EnterClose PROVE IInv'
  <2>1. accepted + 0 <= MaxBytes /\ 0 \in Nat
    BY <1>0
  <2>2. CASE EnterRead
    BY <2>1, <2>2, EnterOK DEF EnterRead
  <2>3. CASE EnterClose
    BY <2>1, <2>3, EnterOK DEF EnterClose
  <2> QED BY <1>2, <2>2, <2>3
<1>3. ASSUME NEW n \in 1..MaxRecord, NEW os, bio_bwrite_took(n, os) PROVE IInv'
  <2>1. n \in Nat
    BY <1>0
  <2> QED BY <1>3, <2>1, TookOK
<1>4. ASSUME NEW os, bio_bwrite_refused(os) PROVE IInv'
  <2>1. Asked(0, os) /\ Blocked /\ InSSL
    BY <1>4 DEF bio_bwrite_refused, Asked, Sending
  <2>2. /\ entry'.held = entry.held
        /\ entry' = [asked |-> entry'.asked, said |-> entry'.said, held |-> entry'.held]
    BY <2>1 DEF Asked, IInv
  <2> QED BY <2>1, <2>2, AfterAsked, BlockedOK
<1>5. ASSUME bio_bwrite_latched PROVE IInv'
  BY <1>5, AfterReady, BlockedOK DEF bio_bwrite_latched, Sending, IInv
<1>6. ASSUME Callback PROVE IInv'
  BY <1>3, <1>4, <1>6, ErrorOK DEF Callback
<1>7. ASSUME Continue PROVE IInv'
  BY <1>5, <1>6, <1>7, BadLengthOK, CloseBlockedOK, FlushedOK, RunWrittenOK, ReturnOK, ReturnCloseOK DEF Continue
<1> QED BY <1>1, <1>2, <1>7, FreshStepOK, RehandshakeOK, StutterOK DEF Next

LEMMA Invariance ==
  ASSUME ShortStream
  PROVE  Spec => []IInv
<1>1. Init => IInv
  <2>1. Init => /\ pc = "idle" /\ wpend = <<>> /\ wnum = 0 /\ rec = <<>> /\ tot = 0 /\ wire = <<>>
                /\ accepted = 0 /\ off \in Nat /\ ret = NoRet /\ entry = FreshEntry /\ state # "closed"
    BY DEF Init
  <2> QED BY <2>1, FreshOK
<1>2. IInv /\ [Next]_vars => IInv'
  BY Inductive
<1> QED BY <1>1, <1>2, PTL DEF Spec

(* Whatever the transport takes of a record and however the runs, retries, *)
(* flushes and re-handshakes follow, the peer receives the bytes in order  *)
(* (sh_flush_write, my_SSLWrite, bio_bwrite).                              *)
THEOREM InOrder ==
  ASSUME ShortStream
  PROVE  Spec => []WireInOrder
<1>1. IInv => WireInOrder
  <2> SUFFICES ASSUME IInv PROVE WireInOrder
    OBVIOUS
  <2>1. CASE state = "closed"
    BY <2>1 DEF IInv, Ended
  <2>2. CASE state # "closed"
    <3>1. IsRun(wire, 0)
      BY <2>2 DEF IInv, Open, Flight
    <3> QED BY <3>1, LenProperties DEF IsRun, WireInOrder
  <2> QED BY <2>1, <2>2
<1> QED BY <1>1, Invariance, PTL

(* What SSLWrite answered as taken is on the wire or in the queue, and the *)
(* peer gets close_notify only after all of it.                            *)
THEOREM Kept ==
  ASSUME ShortStream
  PROVE  Spec => []AcceptedKept
<1>1. IInv => AcceptedKept
  <2> SUFFICES ASSUME IInv PROVE AcceptedKept
    OBVIOUS
  <2>1. CASE state = "closed"
    BY <2>1 DEF IInv, Ended, AcceptedKept
  <2>2. CASE state # "closed"
    <3>1. Open /\ Numbers /\ pc \in {"idle", "flush", "write", "return"}
      BY <2>2 DEF IInv
    <3>2. Len(wire) \in Nat /\ Len(rec) \in Nat /\ Len(wpend) \in Nat /\ Base \in Int /\ Base <= Len(wire)
      BY <3>1, LensAre DEF Base, Used, Numbers, Open, Flight
    <3>3. 0 \notin ToSet(wire)
      BY <3>1, <3>2, RunMembers DEF Open, Flight
    <3>4. ASSUME NEW x \in 1..accepted PROVE x \in ToSet(wire) \cup ToSet(wpend)
      <4>1. CASE wpend # <<>>
        <5>1. accepted = Base + Len(wpend) /\ IsRun(wpend, Base)
          BY <3>1, <4>1 DEF Open, Held
        <5>2. x \in Int /\ (x \in (0 + 1)..(0 + Len(wire)) \/ x \in (Base + 1)..(Base + Len(wpend)))
          BY <3>1, <3>2, <5>1 DEF Numbers
        <5> QED BY <3>1, <3>2, <5>1, <5>2, RunMembers DEF Open, Flight
      <4>2. CASE wpend = <<>>
        <5>1. accepted <= Base
          <6>1. pc # "idle" => Len(data) \in Nat
            BY <3>1, LensAre
          <6> QED BY <3>1, <3>2, <4>2, <6>1 DEF Open, AtRest, InFlush, InWrite, InReturn, Numbers
        <5>2. x \in Int /\ x \in (0 + 1)..(0 + Len(wire))
          BY <3>1, <3>2, <5>1 DEF Numbers
        <5> QED BY <3>1, <5>2, RunMembers DEF Open, Flight
      <4> QED BY <4>1, <4>2
    <3> QED BY <3>3, <3>4 DEF AcceptedKept
  <2> QED BY <2>1, <2>2
<1> QED BY <1>1, Invariance, PTL

(* noErr tells that the transport has everything; errSSLWouldBlock that    *)
(* the queue holds something, or that there was no memory for it.          *)
THEOREM Honest ==
  ASSUME ShortStream
  PROVE  Spec => []HonestAnswer
<1>1. IInv => HonestAnswer
  BY DEF IInv
<1> QED BY <1>1, Invariance, PTL

-----------------------------------------------------------------------------
(* The latch.  What the callback said in this entry is latched, whatever   *)
(* the lengths: this needs no ShortStream.                                 *)
Latched ==
  /\ wblocked \in BOOLEAN /\ entry.said \in BOOLEAN /\ entry.asked \in Nat
  /\ entry = [asked |-> entry.asked, said |-> entry.said, held |-> entry.held]
  /\ entry.said => wblocked

Spared == entry'.asked > entry.asked => ~entry.said

LEMMA AskedSpares ==
  ASSUME Latched, NEW n, NEW os, Asked(n, os)
  PROVE  Latched' /\ Spared
<1>1. ~wblocked /\ ~entry.said
  BY DEF Asked, Latched
<1>2. entry' = [entry EXCEPT !.asked = @ + 1, !.said = @ \/ os = "WouldBlock"]
  BY DEF Asked
<1>3. /\ entry' = [asked |-> entry.asked + 1, said |-> (entry.said \/ os = "WouldBlock"), held |-> entry.held]
  BY <1>2 DEF Latched
<1>4. entry'.asked \in Nat /\ entry'.said = (os = "WouldBlock") /\ entry'.held = entry.held
  BY <1>1, <1>3 DEF Latched
<1>5. wblocked' = (os = "WouldBlock")
  BY <1>1 DEF Asked, Latch
<1>6. Latched'
  BY <1>3, <1>4, <1>5 DEF Latched
<1> QED BY <1>1, <1>6 DEF Spared

LEMMA RestedSpares ==
  ASSUME Latched, UNCHANGED <<wblocked, entry>>
  PROVE  Latched' /\ Spared
BY DEF Latched, Spared

LEMMA AnewSpares ==
  ASSUME Latched, wblocked' = FALSE, NEW held, entry' = [asked |-> 0, said |-> FALSE, held |-> held]
  PROVE  Latched' /\ Spared
<1>1. entry'.asked = 0 /\ entry'.said = FALSE /\ entry'.held = held
  OBVIOUS
<1>2. Latched'
  BY <1>1 DEF Latched
<1>3. ~(entry'.asked > entry.asked)
  BY <1>1 DEF Latched
<1> QED BY <1>2, <1>3 DEF Spared

LEMMA NextSpares ==
  ASSUME Latched, [Next]_vars
  PROVE  Latched' /\ Spared
<1>1. ASSUME NEW h, NEW len, Enter(h, len) PROVE Latched' /\ Spared
  BY <1>1, AnewSpares DEF Enter, sh_unblock_write
<1>2. ASSUME (\E len \in 0..MaxLen : EnterWrite(len)) \/ EnterRead \/ EnterClose PROVE Latched' /\ Spared
  BY <1>1, <1>2 DEF EnterWrite, EnterRead, EnterClose
<1>3. ASSUME NEW n, NEW os, Asked(n, os) PROVE Latched' /\ Spared
  BY <1>3, AskedSpares
<1>4. ASSUME Callback PROVE Latched' /\ Spared
  BY <1>3, <1>4 DEF Callback, bio_bwrite_took, bio_bwrite_refused, bio_bwrite_error
<1>5. ASSUME \/ bio_bwrite_latched \/ bad_length \/ close_blocked
             \/ flushed \/ run_written \/ return_ok \/ return_close \/ Rehandshake
      PROVE  Latched' /\ Spared
  <2>1. UNCHANGED <<wblocked, entry>>
    BY <1>5 DEF bio_bwrite_latched, bad_length, close_blocked, flushed, run_written, return_ok, return_close,
                Rehandshake, queue
  <2> QED BY <2>1, RestedSpares
<1>6. ASSUME Reinit \/ NextConnection PROVE Latched' /\ Spared
  BY <1>6, AnewSpares DEF Reinit, NextConnection, sh_reset_write, FreshEntry
<1>7. ASSUME UNCHANGED vars PROVE Latched' /\ Spared
  <2>1. UNCHANGED <<wblocked, entry>>
    BY <1>7 DEF vars, queue
  <2> QED BY <2>1, RestedSpares
<1> QED BY <1>2, <1>4, <1>5, <1>6, <1>7 DEF Next, Continue

(* Once the callback has answered errSSLWouldBlock, bio_bwrite does not    *)
(* call it again before the caller's next entry, however many records and  *)
(* runs are left (wblocked, and sh_unblock_write at every entry).          *)
THEOREM AsksOncePerEntry == Spec => NotAskedAgain
<1>1. Init => Latched
  <2> SUFFICES ASSUME Init PROVE Latched
    OBVIOUS
  <2>1. wblocked = FALSE /\ entry = [asked |-> 0, said |-> FALSE, held |-> <<>>]
    BY DEF Init, FreshEntry
  <2>2. entry.asked = 0 /\ entry.said = FALSE /\ entry.held = <<>>
    BY <2>1
  <2> QED BY <2>1, <2>2 DEF Latched
<1>2. Latched /\ [Next]_vars => Latched' /\ [entry'.asked > entry.asked => ~entry.said]_vars
  BY NextSpares DEF Spared
<1> QED BY <1>1, <1>2, PTL DEF Spec, NotAskedAgain

-----------------------------------------------------------------------------
(* The queue is one call's worth: sh_hold_write appends, but my_SSLWrite   *)
(* lets it append to an empty queue only, and what it appends is part of   *)
(* the buffer of that call.                                                *)
Fits == data \in Seq(Int) /\ Len(data) <= MaxLen /\ Len(wpend) \in 0..MaxLen

FilledWhenEmpty == wpend' \in {wpend, <<>>} \/ (wpend = <<>> /\ pc = "write" /\ wpend' = Rest)

LEMMA OnlyEmptyIsFilled ==
  ASSUME ShortStream, IInv, Next
  PROVE  FilledWhenEmpty
<1>1. ASSUME sh_hold_write, pc = "write" PROVE FilledWhenEmpty
  <2>1. Open /\ Numbers /\ wpend = <<>>
    BY <1>1, PresentedIs DEF IInv, InSSL, Open, InWrite
  <2>2. IsRun(data, accepted) /\ off < Len(data) /\ Len(data) \in Nat /\ off \in Nat /\ accepted \in Int
    BY <1>1, <2>1, LensAre DEF Open, Within, InWrite, Numbers
  <2>3. off \in 0..Len(data) /\ Len(data) \in off..Len(data)
    BY <2>2
  <2>4. IsRun(Rest, accepted + off)
    BY <2>2, <2>3, RunPart DEF Rest
  <2>5. <<>> \o Rest = Rest
    BY <2>4, ConcatEmptySeq DEF IsRun
  <2>6. wpend' = Rest
    BY <1>1, <2>1, <2>5 DEF sh_hold_write
  <2> QED BY <1>1, <2>1, <2>6 DEF FilledWhenEmpty
<1>2. ASSUME Blocked PROVE FilledWhenEmpty
  <2>1. wpend' = wpend \/ (sh_hold_write /\ pc = "write")
    BY <1>2 DEF Blocked, BlockedFlush, BlockedWrite
  <2>2. CASE wpend' = wpend
    BY <2>2 DEF FilledWhenEmpty
  <2> QED BY <1>1, <2>1, <2>2
<1>3. CASE \/ \E len \in 0..MaxLen : EnterWrite(len)
           \/ EnterRead \/ EnterClose \/ Rehandshake
  <2>1. wpend' = wpend
    BY <1>3 DEF EnterWrite, EnterRead, EnterClose, Enter, Rehandshake, queue
  <2> QED BY <2>1 DEF FilledWhenEmpty
<1>4. CASE Reinit \/ NextConnection \/ close_blocked \/ return_close \/ flushed
  <2>1. wpend' = <<>>
    BY <1>4 DEF Reinit, NextConnection, sh_reset_write, close_blocked, return_close, Closed, flushed
  <2> QED BY <2>1 DEF FilledWhenEmpty
<1>5. CASE bad_length \/ run_written \/ return_ok
  <2>1. wpend' = wpend
    BY <1>5 DEF bad_length, run_written, return_ok, queue
  <2> QED BY <2>1 DEF FilledWhenEmpty
<1>6. CASE bio_bwrite_latched
  BY <1>2, <1>6 DEF bio_bwrite_latched
<1>7. CASE Callback
  <2>1. Blocked \/ wpend' = wpend
    BY <1>7 DEF Callback, bio_bwrite_took, bio_bwrite_refused, bio_bwrite_error
  <2>2. CASE wpend' = wpend
    BY <2>2 DEF FilledWhenEmpty
  <2> QED BY <1>2, <2>1, <2>2
<1> QED BY <1>3, <1>4, <1>5, <1>6, <1>7 DEF Next, Continue

(* The caller's buffer changes at an entry and with the context.           *)
LEMMA DataFits ==
  ASSUME IInv, Fits, Next
  PROVE  data' \in Seq(Int) /\ Len(data') <= MaxLen
<1>1. accepted \in Nat /\ MaxLen \in Nat
  BY WriteAssumption DEF IInv, Numbers
<1>2. ASSUME NEW len \in 0..MaxLen, data' = Bytes(accepted, len)
      PROVE  data' \in Seq(Int) /\ Len(data') <= MaxLen
  <2>1. len \in Nat /\ len <= MaxLen
    BY <1>1
  <2>2. IsRun(Bytes(accepted, len), accepted) /\ Len(Bytes(accepted, len)) = len
    BY <1>1, <2>1, RunBytes
  <2> QED BY <1>2, <2>1, <2>2 DEF IsRun
<1>3. CASE (\E len \in 0..MaxLen : EnterWrite(len)) \/ EnterRead \/ EnterClose
  <2>1. 0 \in 0..MaxLen
    BY <1>1
  <2>2. \E len \in 0..MaxLen : data' = Bytes(accepted, len)
    BY <1>3, <2>1 DEF EnterWrite, EnterRead, EnterClose, Enter
  <2> QED BY <1>2, <2>2
<1>4. CASE NextConnection
  <2>1. data' = <<>>
    BY <1>4 DEF NextConnection
  <2> QED BY <1>1, <2>1, EmptySeq
<1>5. CASE Callback
  <2>1. data' = data
    BY <1>5 DEF Callback, bio_bwrite_took, bio_bwrite_refused, bio_bwrite_error, Blocked, BlockedFlush,
                BlockedWrite, Return, frame
  <2> QED BY <2>1 DEF Fits
<1>6. CASE \/ bio_bwrite_latched \/ bad_length \/ close_blocked
           \/ flushed \/ run_written \/ return_ok \/ return_close \/ Reinit \/ Rehandshake
  <2>1. data' = data
    BY <1>6 DEF bio_bwrite_latched, bad_length, close_blocked, flushed, run_written, return_ok, return_close,
                Reinit, Rehandshake, Blocked, BlockedFlush, BlockedWrite, Return, Closed, frame
  <2> QED BY <2>1 DEF Fits
<1> QED BY <1>3, <1>4, <1>5, <1>6 DEF Next, Continue

LEMMA RestFits ==
  ASSUME IInv, Fits, pc = "write"
  PROVE  Len(Rest) \in 0..MaxLen
<1>1. Open /\ Numbers
  BY DEF IInv, Ended
<1>2. IsRun(data, accepted) /\ off < Len(data) /\ Len(data) \in Nat /\ off \in Nat /\ accepted \in Int
  BY <1>1, LensAre DEF Open, Within, InWrite, Numbers
<1>3. off \in 0..Len(data) /\ Len(data) \in off..Len(data)
  BY <1>2
<1>4. Len(Rest) = Len(data) - off
  BY <1>2, <1>3, RunPart DEF Rest
<1> QED BY WriteAssumption, <1>2, <1>4 DEF Fits

(* Refusing new data while the queue is full bounds it at one call's worth *)
(* ("Writing" in docs/TECHNICAL.md): although sh_hold_write appends, it    *)
(* only ever fills an empty queue, with what one SSLWrite has left, so the *)
(* queue is never longer than one buffer and leaves it all at once.        *)
THEOREM OneCallsWorth ==
  ASSUME ShortStream
  PROVE  Spec => /\ [](Len(wpend) <= MaxLen)
                 /\ [][wpend = <<>> \/ wpend' = <<>> \/ wpend' = wpend]_vars
<1>1. Init => Fits
  <2> SUFFICES ASSUME Init PROVE Fits
    OBVIOUS
  <2>1. data = <<>> /\ wpend = <<>>
    BY DEF Init
  <2> QED BY <2>1, WriteAssumption, EmptySeq DEF Fits
<1>2. IInv /\ Fits /\ [Next]_vars => Fits' /\ [wpend = <<>> \/ wpend' = <<>> \/ wpend' = wpend]_vars
  <2> SUFFICES ASSUME IInv, Fits, [Next]_vars
               PROVE  Fits' /\ [wpend = <<>> \/ wpend' = <<>> \/ wpend' = wpend]_vars
    OBVIOUS
  <2>1. CASE Next
    <3>1. FilledWhenEmpty
      BY <2>1, OnlyEmptyIsFilled
    <3>2. data' \in Seq(Int) /\ Len(data') <= MaxLen
      BY <2>1, DataFits
    <3>3. Len(wpend') \in 0..MaxLen
      <4>1. CASE wpend' = wpend
        BY <4>1 DEF Fits
      <4>2. CASE wpend' = <<>>
        BY <4>2, WriteAssumption, EmptySeq
      <4>3. CASE pc = "write" /\ wpend' = Rest
        BY <4>3, RestFits
      <4> QED BY <3>1, <4>1, <4>2, <4>3 DEF FilledWhenEmpty
    <3> QED BY <3>1, <3>2, <3>3 DEF Fits, FilledWhenEmpty
  <2>2. CASE UNCHANGED vars
    <3>1. UNCHANGED <<data, wpend>>
      BY <2>2 DEF vars, queue, frame
    <3> QED BY <2>2, <3>1 DEF Fits
  <2> QED BY <2>1, <2>2
<1>3. Fits => Len(wpend) <= MaxLen
  BY WriteAssumption DEF Fits
<1> QED BY <1>1, <1>2, <1>3, Invariance, PTL DEF Spec
=============================================================================

---------------------------- MODULE AirDropProofs ----------------------------
(***************************************************************************)
(* The AirDrop adapter for any number of receivers, browsers, operations,  *)
(* threads, peers and probes.  TransferMode: the counts are exact, a switch*)
(* of protocol waits for the transfers of the old one, and the radio is    *)
(* owned only by those who use it.  AirDropLoading: an answer that the     *)
(* adapter is active is true, and no unrelated process loads it.           *)
(* Discovery: a peer's name is from the probe it has, whose endpoint is    *)
(* its own.                                                                *)
(***************************************************************************)
EXTENDS MCAirDrop, RegistryProofs

-----------------------------------------------------------------------------
(* The sets of operations the counts stand for.                            *)
CountedOps == {o \in Ops : Counted(o)}
ReceivingOps == {o \in Ops : Receiving(o)}
Lessees(s) == {o \in Ops : Receiving(o) /\ s \in op[o].servers}

(* Only a receive ends its lease, so its end is subtracted once.           *)
UnleaseIsIncoming == \A o \in Ops : op[o].pc = "applied" => op[o].incoming

CInv == CountsExact /\ UnleaseIsIncoming

OpType == [pc : {"new", "counted", "failing", "failed", "owned", "leased",
                 "released", "uncounted", "applied", "flushing", "done"},
           native : BOOLEAN, incoming : BOOLEAN, servers : SUBSET Servers]

(* The steps that leave the operations and the counts alone.               *)
CountsRest == UNCHANGED <<op, activeTransfers, receivingTransfers, leased>>

LEMMA CardTypes ==
  ASSUME NEW S \in SUBSET Ops
  PROVE  Cardinality(S) \in Nat
BY TransferModeAssumption, FS_Subset, FS_CardinalityType

LEMMA Cards ==
  ASSUME NEW S \in SUBSET Ops, NEW o \in Ops
  PROVE  /\ IsFiniteSet(S) /\ Cardinality(S) \in Nat
         /\ o \notin S => Cardinality(S \cup {o}) = Cardinality(S) + 1
         /\ o \in S => Cardinality(S \ {o}) = Cardinality(S) - 1
         /\ Cardinality(S) = 0 => S = {}
<1>1. IsFiniteSet(S)
  BY TransferModeAssumption, FS_Subset
<1> QED
  BY <1>1, FS_CardinalityType, FS_AddElement, FS_RemoveElement, FS_EmptySet

LEMMA CountsAreSets ==
  CountsExact <=> /\ activeTransfers = Cardinality(CountedOps)
                  /\ receivingTransfers = Cardinality(ReceivingOps)
                  /\ \A s \in Servers : leased[s] = Cardinality(Lessees(s))
BY DEF CountsExact, CountOf, CountedOps, ReceivingOps, Lessees

LEMMA CountsAreSetsNext ==
  CountsExact' <=> /\ activeTransfers' = Cardinality(CountedOps')
                   /\ receivingTransfers' = Cardinality(ReceivingOps')
                   /\ \A s \in Servers : leased'[s] = Cardinality(Lessees(s)')
BY DEF CountsExact, CountOf, CountedOps, ReceivingOps, Lessees

(* Only the operations' own steps change an operation.                     *)
LEMMA MainLeavesCounts ==
  ASSUME \/ \E x \in Servers \cup Browsers : start(x)
         \/ \E b \in Browsers : stop_browser(b)
         \/ \E s \in Servers : stop_server(s)
         \/ stop_server_now \/ retry_pending_radio
         \/ \E m \in {"modern", "native"} : modeRequested(m)
         \/ expire_mode_owner \/ apply_on_main \/ Blocks \/ UNCHANGED vars
  PROVE  CountsRest
BY DEF CountsRest, start, stop_browser, stop_server, stop_server_now, retry_pending_radio,
       modeRequested, expire_mode_owner, apply_on_main, Blocks, flush, transit, vars,
       leaseVars, modeVars, objectVars, mainVars

(* A step of one operation that changes no more than where it is.          *)
LEMMA MoveKeepsCounts ==
  ASSUME TypeOK, CInv, NEW o \in Ops, NEW pc, Goto(o, pc),
         UNCHANGED <<activeTransfers, receivingTransfers, leased>>,
         (op[o].pc \in {"counted", "failing", "owned", "leased", "released"})
           <=> (pc \in {"counted", "failing", "owned", "leased", "released"}),
         op[o].incoming => ((op[o].pc \in {"leased", "released", "uncounted", "applied"})
           <=> (pc \in {"leased", "released", "uncounted", "applied"})),
         pc = "applied" => op[o].incoming
  PROVE  CInv'
<1>1. op \in [Ops -> OpType]
  BY DEF TypeOK, OpType
<1>2. op' = [op EXCEPT ![o].pc = pc]
  BY DEF Goto
<1>3. \A p \in Ops : /\ op'[p].servers = op[p].servers /\ op'[p].incoming = op[p].incoming
                     /\ op'[p].pc = IF p = o THEN pc ELSE op[p].pc
  BY <1>1, <1>2 DEF OpType
<1>4. \A p \in Ops : (Counted(p)' <=> Counted(p)) /\ (Receiving(p)' <=> Receiving(p))
  BY <1>3 DEF Counted, Receiving
<1>5. CountedOps' = CountedOps /\ ReceivingOps' = ReceivingOps /\ \A s \in Servers : Lessees(s)' = Lessees(s)
  BY <1>3, <1>4 DEF CountedOps, ReceivingOps, Lessees
<1>6. CountsExact'
  BY <1>5, CountsAreSets, CountsAreSetsNext DEF CInv
<1>7. UnleaseIsIncoming'
  BY <1>3 DEF CInv, UnleaseIsIncoming
<1> QED BY <1>6, <1>7 DEF CInv

(* A step of one operation that leaves the counts of receives alone and    *)
(* enters or leaves the count of the active.                               *)
LEMMA EnterCounts ==
  ASSUME TypeOK, CInv, NEW o \in Ops, NEW r \in OpType, op' = [op EXCEPT ![o] = r],
         ~Counted(o), r.pc \in {"counted", "owned"}, ~Receiving(o),
         activeTransfers' = activeTransfers + 1, UNCHANGED <<receivingTransfers, leased>>
  PROVE  CInv'
<1>1. op \in [Ops -> OpType]
  BY DEF TypeOK, OpType
<1>2. \A p \in Ops : op'[p] = IF p = o THEN r ELSE op[p]
  BY <1>1
<1>3. \A p \in Ops : /\ Counted(p)' <=> (p = o \/ Counted(p))
                     /\ Receiving(p)' <=> Receiving(p)
  BY <1>2 DEF Counted, Receiving
<1>4. CountedOps' = CountedOps \cup {o} /\ o \notin CountedOps
  BY <1>3 DEF CountedOps
<1>5. ReceivingOps' = ReceivingOps /\ \A s \in Servers : Lessees(s)' = Lessees(s)
  BY <1>2, <1>3 DEF ReceivingOps, Lessees
<1>6. Cardinality(CountedOps') = Cardinality(CountedOps) + 1
  BY <1>4, Cards DEF CountedOps
<1>7. CountsExact'
  BY <1>5, <1>6, CountsAreSets, CountsAreSetsNext DEF CInv
<1>8. UnleaseIsIncoming'
  BY <1>2 DEF CInv, UnleaseIsIncoming
<1> QED BY <1>7, <1>8 DEF CInv

LEMMA LeaveCounts ==
  ASSUME TypeOK, CInv, NEW o \in Ops, NEW pc, Goto(o, pc),
         \/ op[o].pc = "failing" /\ pc = "failed"
         \/ op[o].pc = "released" /\ pc = "uncounted",
         activeTransfers' = activeTransfers - 1, UNCHANGED <<receivingTransfers, leased>>
  PROVE  CInv'
<1>1. op \in [Ops -> OpType]
  BY DEF TypeOK, OpType
<1>2. \A p \in Ops : /\ op'[p].servers = op[p].servers /\ op'[p].incoming = op[p].incoming
                     /\ op'[p].pc = IF p = o THEN pc ELSE op[p].pc
  BY <1>1 DEF OpType, Goto
<1>3. \A p \in Ops : /\ Counted(p)' <=> (p # o /\ Counted(p))
                     /\ Receiving(p)' <=> Receiving(p)
  BY <1>2 DEF Counted, Receiving
<1>4. CountedOps' = CountedOps \ {o} /\ o \in CountedOps
  BY <1>3 DEF CountedOps, Counted
<1>5. ReceivingOps' = ReceivingOps /\ \A s \in Servers : Lessees(s)' = Lessees(s)
  BY <1>2, <1>3 DEF ReceivingOps, Lessees
<1>6. Cardinality(CountedOps') = Cardinality(CountedOps) - 1
  BY <1>4, Cards DEF CountedOps
<1>7. CountsExact'
  BY <1>5, <1>6, CountsAreSets, CountsAreSetsNext DEF CInv
<1>8. UnleaseIsIncoming'
  BY <1>2 DEF CInv, UnleaseIsIncoming
<1> QED BY <1>7, <1>8 DEF CInv

(* The lease and its end move the same servers' counts both ways.          *)
LEMMA LeaseCounts ==
  ASSUME TypeOK, CInv, NEW o \in Ops, take_lease(o)
  PROVE  CInv'
<1> DEFINE incoming == op[o].incoming /\ ~op[o].native
           taken == IF incoming THEN transferServers ELSE {}
<1>1. op \in [Ops -> OpType]
  BY DEF TypeOK, OpType
<1>2. /\ op[o].pc = "owned" /\ UNCHANGED activeTransfers
      /\ op' = [op EXCEPT ![o].pc = "leased", ![o].incoming = incoming, ![o].servers = taken]
      /\ receivingTransfers' = receivingTransfers + (IF incoming THEN 1 ELSE 0)
      /\ leased' = [s \in Servers |-> leased[s] + (IF s \in taken THEN 1 ELSE 0)]
  BY DEF take_lease, At
<1>3. \A p \in Ops \ {o} : op'[p] = op[p]
  BY <1>1, <1>2
<1>4. op'[o].pc = "leased" /\ op'[o].incoming = incoming /\ op'[o].servers = taken
  BY <1>1, <1>2 DEF OpType
<1>5. ~Receiving(o) /\ Counted(o)
  BY <1>2 DEF Receiving, Counted
<1>6. Counted(o)' /\ (Receiving(o)' <=> incoming)
  BY <1>4 DEF Receiving, Counted
<1>7. \A p \in Ops \ {o} : (Counted(p)' <=> Counted(p)) /\ (Receiving(p)' <=> Receiving(p))
  BY <1>3 DEF Receiving, Counted
<1>8. CountedOps' = CountedOps
  BY <1>5, <1>6, <1>7 DEF CountedOps
<1>9. receivingTransfers' = Cardinality(ReceivingOps')
  <2>1. o \notin ReceivingOps /\ ReceivingOps' = IF incoming THEN ReceivingOps \cup {o} ELSE ReceivingOps
    BY <1>5, <1>6, <1>7 DEF ReceivingOps
  <2>2. receivingTransfers = Cardinality(ReceivingOps) /\ Cardinality(ReceivingOps) \in Nat
    BY Cards, CountsAreSets DEF CInv, ReceivingOps
  <2>3. Cardinality(ReceivingOps \cup {o}) = Cardinality(ReceivingOps) + 1
    BY <2>1, Cards DEF ReceivingOps
  <2> HIDE DEF incoming
  <2> QED BY <1>2, <2>1, <2>2, <2>3
<1>10. ASSUME NEW s \in Servers PROVE leased'[s] = Cardinality(Lessees(s)')
  <2>1. o \notin Lessees(s) /\ Lessees(s)' = IF s \in taken THEN Lessees(s) \cup {o} ELSE Lessees(s)
    BY <1>3, <1>4, <1>5, <1>6, <1>7 DEF Lessees
  <2>2. leased[s] = Cardinality(Lessees(s)) /\ Cardinality(Lessees(s)) \in Nat
    BY Cards, CountsAreSets DEF CInv, Lessees
  <2>3. Cardinality(Lessees(s) \cup {o}) = Cardinality(Lessees(s)) + 1
    BY <2>1, Cards DEF Lessees
  <2> HIDE DEF taken
  <2> QED BY <1>2, <2>1, <2>2, <2>3
<1>11. CountsExact'
  BY <1>2, <1>8, <1>9, <1>10, CountsAreSets, CountsAreSetsNext DEF CInv
<1>12. UnleaseIsIncoming'
  BY <1>3, <1>4 DEF CInv, UnleaseIsIncoming
<1> QED BY <1>11, <1>12 DEF CInv

LEMMA UnleaseCounts ==
  ASSUME TypeOK, CInv, NEW o \in Ops, finish_unlease(o)
  PROVE  CInv'
<1>1. op \in [Ops -> OpType]
  BY DEF TypeOK, OpType
<1>2. /\ op[o].pc = "applied" /\ UNCHANGED activeTransfers
      /\ op' = [op EXCEPT ![o].pc = "flushing", ![o].servers = {}]
      /\ receivingTransfers' = receivingTransfers - 1
      /\ leased' = [s \in Servers |-> leased[s] - (IF s \in op[o].servers THEN 1 ELSE 0)]
  BY DEF finish_unlease, At
<1>3. \A p \in Ops \ {o} : op'[p] = op[p]
  BY <1>1, <1>2
<1>4. op'[o].pc = "flushing"
  BY <1>1, <1>2 DEF OpType
<1>5. Receiving(o) /\ ~Counted(o)
  BY <1>2 DEF Receiving, Counted, CInv, UnleaseIsIncoming
<1>6. ~Counted(o)' /\ ~Receiving(o)'
  BY <1>4 DEF Receiving, Counted
<1>7. \A p \in Ops \ {o} : (Counted(p)' <=> Counted(p)) /\ (Receiving(p)' <=> Receiving(p))
  BY <1>3 DEF Receiving, Counted
<1>8. CountedOps' = CountedOps
  BY <1>5, <1>6, <1>7 DEF CountedOps
<1>9. receivingTransfers' = Cardinality(ReceivingOps')
  <2>1. o \in ReceivingOps /\ ReceivingOps' = ReceivingOps \ {o} /\ ReceivingOps \in SUBSET Ops
    BY <1>5, <1>6, <1>7 DEF ReceivingOps
  <2> QED BY <1>2, <2>1, Cards, CountsAreSets DEF CInv
<1>10. ASSUME NEW s \in Servers PROVE leased'[s] = Cardinality(Lessees(s)')
  <2>1. /\ o \in Lessees(s) <=> s \in op[o].servers
        /\ Lessees(s)' = Lessees(s) \ {o} /\ Lessees(s) \in SUBSET Ops
    BY <1>3, <1>5, <1>6, <1>7 DEF Lessees
  <2>2. leased[s] = Cardinality(Lessees(s)) /\ Cardinality(Lessees(s)) \in Nat
    BY <2>1, Cards, CountsAreSets DEF CInv
  <2>3. o \notin Lessees(s) => Lessees(s) \ {o} = Lessees(s)
    OBVIOUS
  <2> QED BY <1>2, <2>1, <2>2, <2>3, Cards
<1>11. CountsExact'
  BY <1>2, <1>8, <1>9, <1>10, CountsAreSets, CountsAreSetsNext DEF CInv
<1>12. UnleaseIsIncoming'
  BY <1>3, <1>4 DEF CInv, UnleaseIsIncoming
<1> QED BY <1>11, <1>12 DEF CInv

MainSteps ==
  \/ \E x \in Servers \cup Browsers : start(x)
  \/ \E b \in Browsers : stop_browser(b)
  \/ \E s \in Servers : stop_server(s)
  \/ stop_server_now \/ retry_pending_radio
  \/ \E m \in {"modern", "native"} : modeRequested(m)
  \/ expire_mode_owner \/ apply_on_main \/ Blocks \/ UNCHANGED vars

(* No step leaves a count wrong.                                           *)
LEMMA CountsKept ==
  ASSUME TypeOK, CInv, [Next]_vars
  PROVE  CInv'
<1>1. ASSUME NEW o \in Ops, NEW incoming \in BOOLEAN, begin_transfer(o, incoming) PROVE CInv'
  <2> DEFINE r == [pc |-> IF native THEN "owned" ELSE "counted", native |-> native,
                   incoming |-> incoming, servers |-> {}]
  <2>1. r \in OpType /\ r.pc \in {"counted", "owned"}
    BY DEF TypeOK, OpType
  <2>2. /\ op' = [op EXCEPT ![o] = r] /\ activeTransfers' = activeTransfers + 1
        /\ UNCHANGED <<receivingTransfers, leased>>
    BY <1>1 DEF begin_transfer
  <2>3. ~Counted(o) /\ ~Receiving(o)
    BY <1>1 DEF begin_transfer, At, Counted, Receiving
  <2> HIDE DEF r
  <2> QED BY <2>1, <2>2, <2>3, EnterCounts
<1>2. ASSUME NEW o \in Ops, acquire_radio(o) PROVE CInv'
  BY <1>2, MoveKeepsCounts DEF acquire_radio, At, leaseVars
<1>3. ASSUME NEW o \in Ops, begin_fails_uncount(o) PROVE CInv'
  BY <1>3, LeaveCounts DEF begin_fails_uncount, At
<1>4. ASSUME NEW o \in Ops, begin_fails(o) PROVE CInv'
  BY <1>4, MoveKeepsCounts DEF begin_fails, At, leaseVars
<1>5. ASSUME NEW o \in Ops, take_lease(o) PROVE CInv'
  BY <1>5, LeaseCounts
<1>6. ASSUME NEW o \in Ops, finish_release(o) PROVE CInv'
  BY <1>6, MoveKeepsCounts DEF finish_release, At, leaseVars
<1>7. ASSUME NEW o \in Ops, finish_uncount(o) PROVE CInv'
  BY <1>7, LeaveCounts DEF finish_uncount, At
<1>8. ASSUME NEW o \in Ops, finish_apply(o) PROVE CInv'
  <2>1. CASE op[o].incoming
    BY <1>8, <2>1, MoveKeepsCounts DEF finish_apply, At, leaseVars
  <2>2. CASE ~op[o].incoming
    BY <1>8, <2>2, MoveKeepsCounts DEF finish_apply, At, leaseVars
  <2> QED BY <2>1, <2>2
<1>9. ASSUME NEW o \in Ops, finish_unlease(o) PROVE CInv'
  BY <1>9, UnleaseCounts
<1>10. ASSUME NEW o \in Ops, flush_transfer_servers(o) PROVE CInv'
  BY <1>10, MoveKeepsCounts DEF flush_transfer_servers, At, leaseVars
<1>11. ASSUME MainSteps PROVE CInv'
  <2>1. CountsRest
    BY <1>11, MainLeavesCounts DEF MainSteps
  <2> QED BY <2>1 DEF CountsRest, CInv, CountsExact, CountOf, UnleaseIsIncoming, Counted, Receiving
<1> QED
  BY <1>1, <1>2, <1>3, <1>4, <1>5, <1>6, <1>7, <1>8, <1>9, <1>10, <1>11 DEF Next, OpSteps, MainSteps

-----------------------------------------------------------------------------
(* Types.  The counts are numbers because they count.                      *)
OtherTypes ==
  /\ native \in BOOLEAN /\ requested \in {"none", "modern", "native"} /\ queued \in BOOLEAN
  /\ transferServers \subseteq Servers /\ deferred \subseteq Servers
  /\ active \subseteq Servers \cup Browsers /\ pending \subseteq Servers \cup Browsers
  /\ running \subseteq Servers \cup Browsers
  /\ owners \subseteq Servers \cup Browsers \cup Ops
  /\ op \in [Ops -> OpType]
  /\ mainQueue \in Seq({"mode", "flush"})
  /\ mainPc \in {"idle", "apply", "stop"} /\ stopping \in Servers \cup {NoServer}
  /\ requests \in Nat

LEMMA ApplyTypes ==
  ASSUME queued \in BOOLEAN, mainQueue \in Seq({"mode", "flush"}), apply_pending_mode
  PROVE  queued' \in BOOLEAN /\ mainQueue' \in Seq({"mode", "flush"})
<1>1. Append(mainQueue, "mode") \in Seq({"mode", "flush"})
  OBVIOUS
<1> QED BY <1>1 DEF apply_pending_mode

(* What starting a set of objects of the right type may change.            *)
LEMMA StartTypes ==
  ASSUME NEW mode \in BOOLEAN, NEW objects \in SUBSET (Servers \cup Browsers), NEW ok \in SUBSET objects,
         NEW pending0 \in SUBSET (Servers \cup Browsers), NEW running0 \in SUBSET (Servers \cup Browsers),
         NEW owners0 \in SUBSET (Servers \cup Browsers \cup Ops),
         NEW transfer0 \in SUBSET Servers, NEW deferred0 \in SUBSET Servers,
         StartIn(mode, objects, ok, pending0, running0, owners0, transfer0, deferred0)
  PROVE  /\ pending' \subseteq Servers \cup Browsers /\ running' \subseteq Servers \cup Browsers
         /\ owners' \subseteq Servers \cup Browsers \cup Ops
         /\ transferServers' \subseteq Servers /\ deferred' \subseteq Servers
BY DEF StartIn

LEMMA OtherTypesKept ==
  ASSUME OtherTypes, leased = [s \in Servers |-> leased[s]], [Next]_vars
  PROVE  OtherTypes' /\ leased' = [s \in Servers |-> leased'[s]]
<1> DEFINE Kept == OtherTypes' /\ leased' = [s \in Servers |-> leased'[s]]
<1> USE DEF modeVars, leaseVars, objectVars, mainVars
<1>1. ASSUME NEW o \in Ops, NEW incoming \in BOOLEAN, begin_transfer(o, incoming) PROVE Kept
  <2>1. [pc |-> IF native THEN "owned" ELSE "counted", native |-> native,
         incoming |-> incoming, servers |-> {}] \in OpType
    BY DEF OtherTypes, OpType
  <2>2. op' \in [Ops -> OpType]
    BY <1>1, <2>1 DEF begin_transfer, OtherTypes
  <2> QED BY <1>1, <2>2 DEF begin_transfer, OtherTypes
<1>2. ASSUME NEW o \in Ops, NEW pc \in {"owned", "failing", "failed", "released", "uncounted",
                                         "applied", "done"}, Goto(o, pc)
      PROVE  op \in [Ops -> OpType] => op' \in [Ops -> OpType]
  BY <1>2 DEF Goto, OpType
<1>3. ASSUME NEW o \in Ops, acquire_radio(o) PROVE Kept
  BY <1>2, <1>3 DEF acquire_radio, OtherTypes
<1>4. ASSUME NEW o \in Ops, begin_fails_uncount(o) PROVE Kept
  BY <1>2, <1>4 DEF begin_fails_uncount, OtherTypes
<1>5. ASSUME NEW o \in Ops, begin_fails(o) PROVE Kept
  BY <1>2, <1>5, ApplyTypes DEF begin_fails, OtherTypes
<1>6. ASSUME NEW o \in Ops, take_lease(o) PROVE Kept
  <2> DEFINE incoming == op[o].incoming /\ ~op[o].native
             taken == IF incoming THEN transferServers ELSE {}
  <2>1. incoming \in BOOLEAN /\ taken \in SUBSET Servers
    BY DEF OtherTypes, OpType
  <2>2. op' = [op EXCEPT ![o].pc = "leased", ![o].incoming = incoming, ![o].servers = taken]
    BY <1>6 DEF take_lease
  <2>3. op' \in [Ops -> OpType]
    <3> HIDE DEF incoming, taken
    <3>1. op' = [op EXCEPT ![o] = [@ EXCEPT !.pc = "leased", !.incoming = incoming, !.servers = taken]]
      BY <2>2
    <3>2. [op[o] EXCEPT !.pc = "leased", !.incoming = incoming, !.servers = taken] \in OpType
      <4>1. op[o] \in OpType
        BY DEF OtherTypes
      <4> QED BY <2>1, <4>1 DEF OpType
    <3> QED BY <3>1, <3>2 DEF OtherTypes
  <2>4. leased' = [s \in Servers |-> leased[s] + (IF s \in taken THEN 1 ELSE 0)]
    BY <1>6 DEF take_lease
  <2>5. leased' = [s \in Servers |-> leased'[s]]
    BY <2>4
  <2> QED BY <1>6, <2>3, <2>5 DEF take_lease, OtherTypes
<1>7. ASSUME NEW o \in Ops, finish_release(o) PROVE Kept
  BY <1>2, <1>7 DEF finish_release, OtherTypes
<1>8. ASSUME NEW o \in Ops, finish_uncount(o) PROVE Kept
  BY <1>2, <1>8 DEF finish_uncount, OtherTypes
<1>9. ASSUME NEW o \in Ops, finish_apply(o) PROVE Kept
  BY <1>2, <1>9, ApplyTypes DEF finish_apply, OtherTypes
<1>10. ASSUME NEW o \in Ops, finish_unlease(o) PROVE Kept
  <2>1. op' = [op EXCEPT ![o].pc = "flushing", ![o].servers = {}]
    BY <1>10 DEF finish_unlease
  <2>2. op' \in [Ops -> OpType]
    <3>1. op' = [op EXCEPT ![o] = [@ EXCEPT !.pc = "flushing", !.servers = {}]]
      BY <2>1
    <3>2. op[o] \in OpType /\ op \in [Ops -> OpType]
      BY DEF OtherTypes
    <3>3. [op[o] EXCEPT !.pc = "flushing", !.servers = {}] \in OpType
      BY <3>2 DEF OpType
    <3> HIDE DEF OpType
    <3> QED BY <3>1, <3>2, <3>3
  <2>3. leased' = [s \in Servers |-> leased[s] - (IF s \in op[o].servers THEN 1 ELSE 0)]
    BY <1>10 DEF finish_unlease
  <2>4. leased' = [s \in Servers |-> leased'[s]]
    BY <2>3
  <2> QED BY <1>10, <2>2, <2>4 DEF finish_unlease, OtherTypes
<1>11. ASSUME NEW o \in Ops, flush_transfer_servers(o) PROVE Kept
  BY <1>2, <1>11 DEF flush_transfer_servers, OtherTypes
<1>12. ASSUME NEW x \in Servers \cup Browsers, start(x) PROVE Kept
  <2>1. PICK ok \in SUBSET {x} : StartIn(native, {x}, ok, pending, running, owners, transferServers, deferred)
    BY <1>12 DEF start
  <2> QED BY <1>12, <2>1, StartTypes DEF start, OtherTypes
<1>13. ASSUME NEW b \in Browsers, stop_browser(b) PROVE Kept
  BY <1>13 DEF stop_browser, OtherTypes
<1>14. ASSUME NEW s \in Servers, stop_server(s) PROVE Kept
  BY <1>14 DEF stop_server, OtherTypes
<1>15. ASSUME stop_server_now PROVE Kept
  BY <1>15 DEF stop_server_now, OtherTypes
<1>16. ASSUME retry_pending_radio PROVE Kept
  <2>1. PICK ok \in SUBSET pending : StartIn(FALSE, pending, ok, pending, running, owners, transferServers, deferred)
    BY <1>16 DEF retry_pending_radio
  <2> QED BY <1>16, <2>1, StartTypes DEF retry_pending_radio, OtherTypes
<1>17. ASSUME NEW m \in {"modern", "native"}, modeRequested(m) PROVE Kept
  BY <1>17 DEF modeRequested, OtherTypes
<1>18. ASSUME expire_mode_owner PROVE Kept
  BY <1>18 DEF expire_mode_owner, OtherTypes
<1>19. ASSUME apply_on_main PROVE Kept
  BY <1>19, ApplyTypes DEF apply_on_main, OtherTypes
<1>20. ASSUME flush PROVE Kept
  <2>1. mainQueue' \in Seq({"mode", "flush"})
    BY <1>20 DEF flush, OtherTypes
  <2> QED BY <1>20, <2>1 DEF flush, FlushBlock, OtherTypes
<1>21. ASSUME transit PROVE Kept
  <2>1. mainQueue' \in Seq({"mode", "flush"})
    BY <1>21 DEF transit, OtherTypes
  <2>2. ASSUME NEW next \in BOOLEAN, Transit(next), UNCHANGED leased
        PROVE  /\ next = native' /\ UNCHANGED <<active, leased>>
               /\ pending' \subseteq Servers \cup Browsers /\ running' \subseteq Servers \cup Browsers
               /\ owners' \subseteq Servers \cup Browsers \cup Ops
               /\ transferServers' \subseteq Servers /\ deferred' \subseteq Servers
    <3> DEFINE kept == IF native THEN {} ELSE {s \in active \cap Servers : Deferrable(s)}
               outs == active \ kept
               owners0 == IF native THEN owners ELSE owners \ outs
               transfer0 == IF native THEN transferServers ELSE transferServers \ outs
    <3>1. PICK ok \in SUBSET active :
            StartIn(next, active, ok, pending \ active, running \ outs, owners0, transfer0, deferred \cup kept)
      BY <2>2 DEF Transit
    <3>2. /\ kept \in SUBSET Servers /\ owners0 \in SUBSET (Servers \cup Browsers \cup Ops)
          /\ transfer0 \in SUBSET Servers
      BY DEF OtherTypes
    <3>3. next = native' /\ UNCHANGED active
      BY <2>2 DEF Transit
    <3> HIDE DEF kept, outs, owners0, transfer0
    <3>4. /\ active \in SUBSET (Servers \cup Browsers) /\ pending \ active \in SUBSET (Servers \cup Browsers)
          /\ running \ outs \in SUBSET (Servers \cup Browsers)
          /\ deferred \cup kept \in SUBSET Servers
      BY <3>2 DEF OtherTypes
    <3>5. /\ pending' \subseteq Servers \cup Browsers /\ running' \subseteq Servers \cup Browsers
          /\ owners' \subseteq Servers \cup Browsers \cup Ops
          /\ transferServers' \subseteq Servers /\ deferred' \subseteq Servers
      BY <3>1, <3>2, <3>4, StartTypes
    <3> QED BY <2>2, <3>3, <3>5
  <2> QED BY <1>21, <2>1, <2>2 DEF transit, OtherTypes
<1>22. ASSUME UNCHANGED vars PROVE Kept
  BY <1>22 DEF vars, OtherTypes
<1> QED
  BY <1>1, <1>3, <1>4, <1>5, <1>6, <1>7, <1>8, <1>9, <1>10, <1>11, <1>12, <1>13, <1>14, <1>15,
     <1>16, <1>17, <1>18, <1>19, <1>20, <1>21, <1>22 DEF Next, OpSteps, Blocks

-----------------------------------------------------------------------------
(* With exact counts none active means no operation counted, so the block  *)
(* that changes the mode finds none of the old mode.                       *)
IInv == TypeOK /\ CInv /\ SwitchWaitsForTransfers

LEMMA NoneCounted ==
  ASSUME CInv, activeTransfers = 0
  PROVE  \A o \in Ops : ~Counted(o)
<1>1. CountedOps \in SUBSET Ops /\ Cardinality(CountedOps) = 0
  BY CountsAreSets DEF CountedOps, CInv
<1>2. IsFiniteSet(CountedOps)
  BY <1>1, TransferModeAssumption, FS_Subset
<1>3. CountedOps = {}
  BY <1>1, <1>2, FS_EmptySet
<1> QED BY <1>3 DEF CountedOps

LEMMA SwitchKept ==
  ASSUME IInv, [Next]_vars
  PROVE  SwitchWaitsForTransfers'
<1> USE DEF modeVars, objectVars, mainVars
<1>1. op \in [Ops -> OpType]
  BY DEF IInv, TypeOK, OpType
<1>2. ASSUME NEW o \in Ops, NEW incoming \in BOOLEAN, begin_transfer(o, incoming)
      PROVE  SwitchWaitsForTransfers'
  <2>1. /\ native' = native /\ op'[o].native = native
        /\ \A p \in Ops \ {o} : op'[p] = op[p]
    BY <1>1, <1>2 DEF begin_transfer
  <2> QED BY <2>1 DEF IInv, SwitchWaitsForTransfers, Counted
<1>3. ASSUME NEW o \in Ops, OpSteps(o) PROVE SwitchWaitsForTransfers'
  <2>1. native' = native
    BY <1>3 DEF OpSteps, acquire_radio, begin_fails_uncount, begin_fails, take_lease, finish_release,
         finish_uncount, finish_apply, finish_unlease, flush_transfer_servers
  <2>2. \A p \in Ops : op'[p].native = op[p].native /\ (Counted(p)' => Counted(p))
    <3>1. ASSUME NEW pc, Goto(o, pc), Counted(o) \/ pc \in {"failed", "uncounted", "applied", "done"}
          PROVE  \A p \in Ops : op'[p].native = op[p].native /\ (Counted(p)' => Counted(p))
      <4>1. \A p \in Ops : op'[p].native = op[p].native /\ op'[p].pc = IF p = o THEN pc ELSE op[p].pc
        BY <1>1, <3>1 DEF Goto, OpType
      <4> QED BY <3>1, <4>1 DEF Counted
    <3>2. CASE take_lease(o)
      <4> DEFINE incoming == op[o].incoming /\ ~op[o].native
                 taken == IF incoming THEN transferServers ELSE {}
      <4>1. op' = [op EXCEPT ![o].pc = "leased", ![o].incoming = incoming, ![o].servers = taken]
        BY <3>2 DEF take_lease
      <4> HIDE DEF incoming, taken
      <4>2. op'[o].native = op[o].native /\ \A p \in Ops \ {o} : op'[p] = op[p]
        BY <1>1, <4>1 DEF OpType
      <4> QED BY <3>2, <4>2 DEF take_lease, At, Counted
    <3>3. CASE finish_unlease(o)
      <4>1. op'[o].native = op[o].native /\ op'[o].pc = "flushing" /\ \A p \in Ops \ {o} : op'[p] = op[p]
        BY <1>1, <3>3 DEF finish_unlease, OpType
      <4> QED BY <4>1 DEF Counted
    <3>4. CASE acquire_radio(o) \/ finish_release(o)
      BY <3>1, <3>4 DEF acquire_radio, finish_release, At, Counted
    <3>5. CASE begin_fails_uncount(o) \/ begin_fails(o) \/ finish_uncount(o) \/ finish_apply(o)
               \/ flush_transfer_servers(o)
      BY <3>1, <3>5 DEF begin_fails_uncount, begin_fails, finish_uncount, finish_apply, flush_transfer_servers
    <3> QED BY <1>3, <3>2, <3>3, <3>4, <3>5 DEF OpSteps
  <2> QED BY <2>1, <2>2 DEF IInv, SwitchWaitsForTransfers
<1>4. ASSUME transit PROVE SwitchWaitsForTransfers'
  <2>1. op' = op /\ activeTransfers' = activeTransfers
    BY <1>4 DEF transit
  <2>2. CASE MayTransit
    BY <2>1, <2>2, NoneCounted DEF MayTransit, IInv, SwitchWaitsForTransfers, Counted
  <2>3. CASE ~MayTransit
    BY <1>4, <2>1, <2>3 DEF transit, IInv, SwitchWaitsForTransfers, Counted
  <2> QED BY <2>2, <2>3
<1>5. ASSUME MainSteps, ~transit PROVE UNCHANGED <<op, native>>
  BY <1>5 DEF MainSteps, start, stop_browser, stop_server, stop_server_now, retry_pending_radio,
       modeRequested, expire_mode_owner, apply_on_main, Blocks, flush, vars
<1>6. ASSUME UNCHANGED <<op, native>> PROVE SwitchWaitsForTransfers'
  BY <1>6 DEF IInv, SwitchWaitsForTransfers, Counted
<1> QED BY <1>2, <1>3, <1>4, <1>5, <1>6 DEF Next, MainSteps

LEMMA Initially == Init => IInv
<1> SUFFICES ASSUME Init PROVE IInv
  OBVIOUS
<1>1. TypeOK
  <2>1. op \in [Ops -> OpType]
    <3>1. NoLease \in OpType
      BY DEF NoLease, OpType
    <3> QED BY <3>1 DEF Init
  <2>2. mainQueue \in Seq({"mode", "flush"})
    BY DEF Init
  <2> QED BY <2>1, <2>2 DEF Init, TypeOK, OpType
<1>2. \A o \in Ops : ~Counted(o) /\ ~Receiving(o) /\ op[o].pc = "new"
  BY DEF Init, NoLease, Counted, Receiving
<1>3. CountedOps = {} /\ ReceivingOps = {} /\ \A s \in Servers : Lessees(s) = {}
  BY <1>2 DEF CountedOps, ReceivingOps, Lessees
<1>4. CountsExact
  BY <1>3, FS_EmptySet, CountsAreSets DEF Init
<1> QED BY <1>1, <1>2, <1>4 DEF IInv, CInv, UnleaseIsIncoming, SwitchWaitsForTransfers

LEMMA Inductive == IInv /\ [Next]_vars => IInv'
<1> SUFFICES ASSUME IInv, [Next]_vars PROVE IInv'
  OBVIOUS
<1>1. CInv'
  BY CountsKept DEF IInv
<1>2. OtherTypes /\ leased = [s \in Servers |-> leased[s]]
  BY DEF IInv, TypeOK, OtherTypes, OpType
<1>3. OtherTypes' /\ leased' = [s \in Servers |-> leased'[s]]
  BY <1>2, OtherTypesKept
<1>4. activeTransfers' \in Nat /\ receivingTransfers' \in Nat /\ leased' \in [Servers -> Nat]
  <2>1. Cardinality(CountedOps') \in Nat /\ Cardinality(ReceivingOps') \in Nat
    BY CardTypes DEF CountedOps, ReceivingOps
  <2>2. \A s \in Servers : Cardinality(Lessees(s)') \in Nat
    BY CardTypes DEF Lessees
  <2> QED BY <1>1, <1>3, <2>1, <2>2, CountsAreSetsNext DEF CInv
<1>5. TypeOK'
  BY <1>3, <1>4 DEF TypeOK, OtherTypes, OpType
<1>6. SwitchWaitsForTransfers'
  BY SwitchKept
<1> QED BY <1>1, <1>5, <1>6 DEF IInv

LEMMA Invariance == Spec => []IInv
BY Initially, Inductive, PTL DEF Spec

(* Every variable of the adapter has its type in every behaviour.          *)
THEOREM TypeCorrect == Spec => []TypeOK
BY Invariance, PTL DEF IInv

(* active_transfers, receiving_transfers and leased_transfer_servers count *)
(* exactly the operations in progress (AQTransferLease.inc), whatever      *)
(* operations begin, fail and end in between.                              *)
THEOREM CountsAreExact == Spec => []CountsExact
BY Invariance, PTL DEF IInv, CInv

(* docs/AIRDROP.md: "Active modern and native transfers delay a protocol   *)
(* switch until they finish", for any number of them.                      *)
THEOREM SwitchWaits == Spec => []SwitchWaitsForTransfers
BY Invariance, PTL DEF IInv

-----------------------------------------------------------------------------
(* The radio.  In native mode only a deferred stop keeps a receiver among  *)
(* the owners; within stop_server the receiver it stops may be one.        *)
Stopping == IF mainPc = "stop" THEN {stopping} ELSE {}
Users == (IF native THEN {} ELSE active) \cup deferred \cup Stopping \cup Ops
StopIsModern == mainPc = "stop" => ~native
OwnersUse == native \in BOOLEAN /\ owners \subseteq Users /\ StopIsModern

LEMMA OwnersStep ==
  ASSUME OwnersUse, [Next]_vars
  PROVE  OwnersUse'
<1> USE DEF OwnersUse, Users, Stopping, StopIsModern, modeVars, leaseVars, objectVars, mainVars
<1>1. ASSUME NEW o \in Ops, NEW incoming \in BOOLEAN, begin_transfer(o, incoming) PROVE OwnersUse'
  BY <1>1 DEF begin_transfer
<1>2. ASSUME NEW o \in Ops, OpSteps(o) PROVE OwnersUse'
  <2>1. UNCHANGED <<native, active, deferred, mainPc, stopping>> /\ owners' \subseteq owners \cup Ops
    BY <1>2 DEF OpSteps, acquire_radio, begin_fails_uncount, begin_fails, take_lease, finish_release,
         finish_uncount, finish_apply, finish_unlease, flush_transfer_servers
  <2> QED BY <2>1
<1>3. ASSUME NEW x \in Servers \cup Browsers, start(x) PROVE OwnersUse'
  <2>1. PICK ok \in SUBSET {x} : StartIn(native, {x}, ok, pending, running, owners, transferServers, deferred)
    BY <1>3 DEF start
  <2>2. CASE native
    BY <1>3, <2>1, <2>2 DEF start, StartIn
  <2>3. CASE ~native
    BY <1>3, <2>1, <2>3 DEF start, StartIn, MainFree
  <2> QED BY <2>2, <2>3
<1>4. ASSUME NEW b \in Browsers, stop_browser(b) PROVE OwnersUse'
  BY <1>4 DEF stop_browser, MainFree
<1>5. ASSUME NEW s \in Servers, stop_server(s) PROVE OwnersUse'
  <2>1. CASE native
    BY <1>5, <2>1 DEF stop_server, MainFree
  <2>2. CASE ~native /\ Deferrable(s)
    BY <1>5, <2>2 DEF stop_server, MainFree
  <2>3. CASE ~native /\ ~Deferrable(s)
    BY <1>5, <2>3 DEF stop_server, MainFree
  <2> QED BY <2>1, <2>2, <2>3
<1>6. ASSUME stop_server_now PROVE OwnersUse'
  BY <1>6 DEF stop_server_now
<1>7. ASSUME retry_pending_radio PROVE OwnersUse'
  <2>1. PICK ok \in SUBSET pending : StartIn(FALSE, pending, ok, pending, running, owners, transferServers, deferred)
    BY <1>7 DEF retry_pending_radio
  <2> QED BY <1>7, <2>1 DEF retry_pending_radio, StartIn, MainFree
<1>8. ASSUME NEW m \in {"modern", "native"}, modeRequested(m) PROVE OwnersUse'
  BY <1>8 DEF modeRequested, MainFree
<1>9. ASSUME expire_mode_owner PROVE OwnersUse'
  BY <1>9 DEF expire_mode_owner, MainFree
<1>10. ASSUME apply_on_main PROVE OwnersUse'
  BY <1>10 DEF apply_on_main
<1>11. ASSUME flush PROVE OwnersUse'
  BY <1>11 DEF flush, FlushBlock, MainFree
<1>12. ASSUME transit PROVE OwnersUse'
  <2>1. CASE UNCHANGED <<native, owners, active, deferred, mainPc, stopping>>
    BY <2>1
  <2>2. ASSUME NEW next \in BOOLEAN, next # native, Transit(next), mainPc = "idle", mainPc' = "apply"
        PROVE  OwnersUse'
    <3> DEFINE kept == IF native THEN {} ELSE {s \in active \cap Servers : Deferrable(s)}
               outs == active \ kept
               owners0 == IF native THEN owners ELSE owners \ outs
               transfer0 == IF native THEN transferServers ELSE transferServers \ outs
    <3>1. PICK ok \in SUBSET active :
            StartIn(next, active, ok, pending \ active, running \ outs, owners0, transfer0, deferred \cup kept)
      BY <2>2 DEF Transit
    <3>2. native' = next /\ active' = active
      BY <2>2 DEF Transit
    <3>3. CASE next
      <4>1. owners' = owners0 /\ deferred' = deferred \cup kept
        <5> HIDE DEF kept, outs, owners0, transfer0
        <5> QED BY <3>1, <3>3 DEF StartIn
      <4>2. owners0 = owners \ (active \ kept) /\ owners \subseteq active \cup deferred \cup Ops
        BY <2>2, <3>3
      <4> HIDE DEF kept, owners0
      <4> QED BY <2>2, <3>2, <3>3, <4>1, <4>2
    <3>4. CASE ~next
      <4>1. owners' = (owners0 \ active) \cup ok /\ deferred' = (deferred \cup kept) \ ok
        <5> HIDE DEF kept, outs, owners0, transfer0
        <5> QED BY <3>1, <3>4 DEF StartIn
      <4>2. owners0 = owners /\ kept = {} /\ owners \subseteq deferred \cup Ops
        BY <2>2, <3>4
      <4> HIDE DEF kept, owners0
      <4> QED BY <2>2, <3>2, <3>4, <4>1, <4>2
    <3> QED BY <3>3, <3>4
  <2> QED BY <1>12, <2>1, <2>2 DEF transit, MainFree
<1>13. ASSUME UNCHANGED vars PROVE OwnersUse'
  BY <1>13 DEF vars
<1> QED
  BY <1>1, <1>2, <1>3, <1>4, <1>5, <1>6, <1>7, <1>8, <1>9, <1>10, <1>11, <1>12, <1>13 DEF Next, Blocks

(* Whoever keeps Wi-Fi taken is a receiver or browser in use, a receiver   *)
(* whose stop waits for a transfer, or a transfer (AQTransferLease.inc's   *)
(* radio_owners), through every switch of protocol.                        *)
THEOREM OwnersAreUsed == Spec => []OwnedIsUsed
<1>1. Init => OwnersUse
  BY DEF Init, OwnersUse, StopIsModern
<1>2. OwnersUse /\ [Next]_vars => OwnersUse'
  BY OwnersStep
<1>3. OwnersUse => OwnedIsUsed
  BY DEF OwnersUse, Users, Stopping, OwnedIsUsed
<1> QED BY <1>1, <1>2, <1>3, PTL DEF Spec

-----------------------------------------------------------------------------
(* The adapter's loading.  The pointer is stored before the flag, so who   *)
(* saw the flag up has the pointer to ask by.                              *)
PointerFirst ==
  /\ adapter_active => modern_active
  /\ \A t \in Threads : job[t] \in {"verdict", "asking"} => modern_active
LoadedFirst == installed => loaded
AdapterInv == PointerFirst /\ LoadedFirst

ModernAnswer ==
  \A t \in Threads : answer[t] # "yes" /\ answer'[t] = "yes" => loaded /\ installed /\ ~native_mode
JobsTyped == job \in [Threads -> {"none", "ui", "adapter", "symbols", "verdict", "asking"}]
             /\ answer \in [Threads -> {"none", "yes", "no"}]

LEMMA AdapterKept ==
  ASSUME Adapter!MachinesAssumption, JobsTyped, AdapterInv, [Adapter!Next]_(Adapter!vars)
  PROVE  JobsTyped' /\ AdapterInv' /\ ModernAnswer
<1> USE DEF JobsTyped, AdapterInv, PointerFirst, LoadedFirst, ModernAnswer, Adapter!hooks, Adapter!module, Adapter!verdict,
  Adapter!Begin, Adapter!Done, Adapter!Leave, Adapter!MachinesAssumption
<1>1. CASE UNCHANGED Adapter!vars
  BY <1>1 DEF Adapter!vars
<1>2. CASE Adapter!Changes \/ Adapter!ModeChanges \/ Adapter!tf_airdrop_install \/ Adapter!air_drop_ui_image_added
  BY <1>2 DEF Adapter!Changes, Adapter!ModeChanges, Adapter!tf_airdrop_install, Adapter!air_drop_ui_image_added
<1>3. CASE Adapter!MainQueue
  BY <1>3 DEF Adapter!MainQueue
<1>4. ASSUME NEW t \in Threads, Adapter!air_drop_cache_limit(t) PROVE JobsTyped' /\ AdapterInv' /\ ModernAnswer
  BY <1>4 DEF Adapter!air_drop_cache_limit
<1>5. ASSUME NEW t \in Threads, Adapter!Check(t) PROVE JobsTyped' /\ AdapterInv' /\ ModernAnswer
  BY <1>5 DEF Adapter!Check
<1>6. ASSUME NEW t \in Threads, Adapter!Open(t) PROVE JobsTyped' /\ AdapterInv' /\ ModernAnswer
  BY <1>6 DEF Adapter!Open
<1>7. ASSUME NEW t \in Threads, Adapter!AQAirDropModernActive(t) PROVE JobsTyped' /\ AdapterInv' /\ ModernAnswer
  BY <1>7 DEF Adapter!AQAirDropModernActive
<1>8. ASSUME NEW t \in Threads, Adapter!AQAirDropInstalled(t) PROVE JobsTyped' /\ AdapterInv' /\ ModernAnswer
  BY <1>8 DEF Adapter!AQAirDropInstalled
<1>9. ASSUME NEW t \in Threads, Adapter!tf_airdrop_active(t) PROVE JobsTyped' /\ AdapterInv' /\ ModernAnswer
  BY <1>9 DEF Adapter!tf_airdrop_active
<1>10. ASSUME NEW t \in Threads, Adapter!modern_active_says(t) PROVE JobsTyped' /\ AdapterInv' /\ ModernAnswer
  BY <1>10 DEF Adapter!modern_active_says
<1> QED BY <1>1, <1>2, <1>3, <1>4, <1>5, <1>6, <1>7, <1>8, <1>9, <1>10 DEF Adapter!Next

(* At the moment tf_airdrop_active answers yes the adapter is installed    *)
(* and in modern mode, though the pointer and the flag it reads are stored *)
(* one after the other by a thread it shares no lock with.                 *)
THEOREM YesIsModern ==
  ASSUME Adapter!MachinesAssumption
  PROVE  MCSpec => AnswerIsModern
<1>1. MCInit => JobsTyped /\ AdapterInv
  BY DEF MCInit, Adapter!Init, JobsTyped, AdapterInv, PointerFirst, LoadedFirst
<1>2. [MCNext]_<<part, vars, adapter, search, drain>> => [Adapter!Next]_(Adapter!vars)
  BY DEF MCNext, adapter, Adapter!vars, Adapter!hooks, Adapter!module, Adapter!verdict
<1>3. (JobsTyped /\ AdapterInv) /\ [Adapter!Next]_(Adapter!vars) => (JobsTyped /\ AdapterInv)' /\ ModernAnswer
  BY AdapterKept
<1>4. [ModernAnswer]_adapter =>
        [\A t \in Threads : answer[t] # "yes" /\ answer'[t] = "yes" => loaded /\ installed /\ ~native_mode]_adapter
  BY DEF ModernAnswer
<1> QED BY <1>1, <1>2, <1>3, <1>4, PTL DEF MCSpec, AnswerIsModern

(* Where each job came from: load_ui_adapter is queued in Finder or beside *)
(* the plug-in, load_adapter is run by the hook of a supported sharingd,   *)
(* and its checks include the UUID's.                                      *)
Supported == machine.darwin = 13 /\ machine.pointer_bytes = 8
UIProcess == Supported /\ (plugin \/ machine.executable = "Finder")
Daemon == Supported /\ machine.executable = "sharingd"
Labels == {"allowed", "runtime", "native", "hardware", "file"}
BeforeNative == {<<"allowed", "runtime", "native", "hardware", "file">>, <<"runtime", "native", "hardware", "file">>,
                 <<"native", "hardware", "file">>}
Provenance ==
  /\ watching => Supported
  /\ scheduled => UIProcess
  /\ rebound => Daemon
  /\ loaded => UIProcess \/ Daemon
  /\ adapter_active => Daemon /\ machine.uuid
  /\ \A t \in Threads :
       /\ job[t] = "ui" => UIProcess
       /\ job[t] \in {"adapter", "symbols", "verdict"} => Daemon
       /\ job[t] = "adapter" => machine.uuid \/ left[t] \in BeforeNative
       /\ job[t] \in {"symbols", "verdict"} => machine.uuid

LEMMA Checklists ==
  ASSUME NEW S, NEW a \in S, NEW b \in S, NEW c \in S, NEW d \in S, NEW e \in S
  PROVE  <<a, b, c, d, e>> \in Seq(S) /\ <<a, b, c, d>> \in Seq(S)
OBVIOUS

LEMMA Tails ==
  ASSUME NEW a, NEW b, NEW c, NEW d, NEW e
  PROVE  /\ Tail(<<a, b, c, d, e>>) = <<b, c, d, e>> /\ Head(<<a, b, c, d, e>>) = a
         /\ Tail(<<a, b, c, d>>) = <<b, c, d>> /\ Head(<<a, b, c, d>>) = a
         /\ Head(<<a, b, c>>) = a
OBVIOUS

LEMMA ProvenanceKept ==
  ASSUME Adapter!MachinesAssumption, JobsTyped, left \in [Threads -> Seq(Labels)], Provenance,
         [Adapter!Next]_(Adapter!vars)
  PROVE  left' \in [Threads -> Seq(Labels)] /\ Provenance'
<1> USE DEF JobsTyped, Provenance, UIProcess, Daemon, Supported, Adapter!hooks, Adapter!module, Adapter!verdict,
  Adapter!Begin, Adapter!Done, Adapter!Leave, Adapter!MachinesAssumption
<1> DEFINE Kept == left' \in [Threads -> Seq(Labels)] /\ Provenance'
<1>1. CASE UNCHANGED Adapter!vars
  BY <1>1 DEF Adapter!vars
<1>2. CASE Adapter!Changes \/ Adapter!ModeChanges
  BY <1>2 DEF Adapter!Changes, Adapter!ModeChanges
<1>3. CASE Adapter!tf_airdrop_install
  <2>1. UNCHANGED <<machine, plugin, job, left, loaded, adapter_active>>
    BY <1>3 DEF Adapter!tf_airdrop_install
  <2>2. watching' => Supported
    BY <1>3 DEF Adapter!tf_airdrop_install
  <2>3. scheduled' => UIProcess
    BY <1>3 DEF Adapter!tf_airdrop_install
  <2>4. rebound' => Daemon
    BY <1>3 DEF Adapter!tf_airdrop_install, Adapter!aq_airdrop_platform_supported
  <2> QED BY <2>1, <2>2, <2>3, <2>4
<1>12. CASE Adapter!air_drop_ui_image_added
  BY <1>12 DEF Adapter!air_drop_ui_image_added
<1>4. CASE Adapter!MainQueue
  <2>1. Adapter!load_ui_adapter \in Seq(Labels)
    <3>1. {"allowed", "runtime", "hardware", "file"} \subseteq Labels
      BY DEF Labels
    <3> QED BY <3>1, Checklists DEF Adapter!load_ui_adapter
  <2> QED BY <1>4, <2>1 DEF Adapter!MainQueue
<1>5. ASSUME NEW t \in Threads, Adapter!air_drop_cache_limit(t) PROVE Kept
  <2>1. Adapter!load_adapter \in Seq(Labels) /\ Adapter!load_adapter \in BeforeNative
    <3>1. {"allowed", "runtime", "native", "hardware", "file"} \subseteq Labels
      BY DEF Labels
    <3>2. Adapter!load_adapter \in Seq(Labels)
      BY <3>1, Checklists DEF Adapter!load_adapter
    <3> QED BY <3>2 DEF Adapter!load_adapter, BeforeNative
  <2> QED BY <1>5, <2>1 DEF Adapter!air_drop_cache_limit
<1>6. ASSUME NEW t \in Threads, Adapter!Check(t) PROVE Kept
  <2>1. /\ UNCHANGED <<machine, watching, plugin, rebound, scheduled, loaded, adapter_active>>
        /\ left[t] # <<>>
        /\ \/ Adapter!Passes(Head(left[t])) /\ left' = [left EXCEPT ![t] = Tail(left[t])] /\ job' = job
           \/ job' = [job EXCEPT ![t] = "none"] /\ left' = [left EXCEPT ![t] = <<>>]
    BY <1>6 DEF Adapter!Check
  <2>2. Tail(left[t]) \in Seq(Labels) /\ <<>> \in Seq(Labels)
    BY <2>1
  <2>3. left[t] \in BeforeNative => Head(left[t]) = "native" \/ Tail(left[t]) \in BeforeNative
    <3>1. CASE left[t] = <<"allowed", "runtime", "native", "hardware", "file">>
      BY <3>1, Tails DEF BeforeNative
    <3>2. CASE left[t] = <<"runtime", "native", "hardware", "file">>
      BY <3>2, Tails DEF BeforeNative
    <3>3. CASE left[t] = <<"native", "hardware", "file">>
      BY <3>3, Tails
    <3> QED BY <3>1, <3>2, <3>3 DEF BeforeNative
  <2>4. Adapter!Passes("native") => machine.uuid
    BY DEF Adapter!Passes
  <2>5. Adapter!Passes(Head(left[t])) /\ left[t] \in BeforeNative => machine.uuid \/ Tail(left[t]) \in BeforeNative
    BY <2>3, <2>4
  <2> QED BY <2>1, <2>2, <2>5
<1>7. ASSUME NEW t \in Threads, Adapter!Open(t) PROVE Kept
  <2>1. <<>> \in Seq(Labels) /\ <<>> \notin BeforeNative
    BY DEF BeforeNative
  <2> QED BY <1>7, <2>1 DEF Adapter!Open
<1>8. ASSUME NEW t \in Threads, Adapter!AQAirDropModernActive(t) PROVE Kept
  BY <1>8 DEF Adapter!AQAirDropModernActive
<1>9. ASSUME NEW t \in Threads, Adapter!AQAirDropInstalled(t) PROVE Kept
  <2>1. <<>> \in Seq(Labels)
    OBVIOUS
  <2> QED BY <1>9, <2>1 DEF Adapter!AQAirDropInstalled
<1>10. ASSUME NEW t \in Threads, Adapter!tf_airdrop_active(t) PROVE Kept
  BY <1>10 DEF Adapter!tf_airdrop_active
<1>11. ASSUME NEW t \in Threads, Adapter!modern_active_says(t) PROVE Kept
  BY <1>11 DEF Adapter!modern_active_says
<1> QED BY <1>1, <1>2, <1>3, <1>4, <1>5, <1>6, <1>7, <1>8, <1>9, <1>10, <1>11, <1>12 DEF Adapter!Next

(* The adapter comes into no unrelated process, and reports itself active  *)
(* only in the sharingd it was written for, whatever flags, files and      *)
(* radios change between its checks (aquatransport_airdrop.c).             *)
THEOREM AdapterOnlyWhereMeant ==
  ASSUME Adapter!MachinesAssumption
  PROVE  Adapter!Spec => []Adapter!OnlyWhereMeant
<1> DEFINE Inv == JobsTyped /\ AdapterInv /\ left \in [Threads -> Seq(Labels)] /\ Provenance
<1>1. Adapter!Init => Inv
  BY DEF Adapter!Init, JobsTyped, AdapterInv, PointerFirst, LoadedFirst, Provenance
<1>2. Inv /\ [Adapter!Next]_(Adapter!vars) => Inv'
  BY AdapterKept, ProvenanceKept
<1>3. Inv => Adapter!OnlyWhereMeant
  BY DEF Adapter!OnlyWhereMeant, Provenance, UIProcess, Daemon, Supported
<1> QED BY <1>1, <1>2, <1>3, PTL DEF Adapter!Spec

-----------------------------------------------------------------------------
(* Discovery.  The state an action hands to Settle is not yet the next one,*)
(* so what is kept is said of any dictionary, probes and table.            *)
ProbeType == [peer : Peers \cup {NoPeer}, busy : {"no", "resolving", "asking"},
              scheduled : BOOLEAN, named : BOOLEAN, cancelled : BOOLEAN,
              token : 0..ENDPOINTS, addr : Addrs \cup {NoAddr}]
EntryType == [addr : Addrs \cup {NoAddr}, scope : 0..MaxTap, refs : Nat]
Typed(its, pr, table) ==
  /\ its \in [Peers -> Probes \cup {NoProbe}] /\ pr \in [Probes -> ProbeType]
  /\ table \in [Search!Slots -> EntryType]

(* The dictionary has the one probe of each peer that is not given up.     *)
InDictionary(its, pr, sh, br) ==
  \A p \in Peers : its[p] # NoProbe =>
    br /\ p \in sh /\ pr[its[p]].peer = p /\ ~pr[its[p]].cancelled
Working(pr) ==
  \A b \in Probes : /\ pr[b].busy # "no" \/ pr[b].scheduled => pr[b].peer # NoPeer
                    /\ pr[b].busy # "no" => ~pr[b].cancelled
Listed(its, pr, br) ==
  \A b \in Probes : br /\ pr[b].peer # NoPeer /\ ~pr[b].cancelled => its[pr[b].peer] = b
Owned(its, pr, sh, br) == InDictionary(its, pr, sh, br) /\ Working(pr) /\ Listed(its, pr, br)

(* An entry counts the probes that have its token, and is theirs.          *)
With(pr, i) == {b \in Probes : pr[b].token = i}
Counts(pr, table) == \A i \in Search!Slots : table[i].refs = Cardinality(With(pr, i))
Scoped(table) == \A i \in Search!Slots : table[i].refs > 0 => table[i].scope # 0
Addressed(pr, table) ==
  \A b \in Probes : pr[b].token # 0 => table[pr[b].token].addr = pr[b].addr
Exact(pr, table) == Counts(pr, table) /\ Scoped(table) /\ Addressed(pr, table)

NamedByOwn(tl, its, sh) ==
  /\ tl \in [Peers -> Probes \cup {NoProbe}]
  /\ \A p \in Peers : tl[p] # NoProbe => p \in sh /\ its[p] = tl[p]

LEMMA SearchCount == ASSUME NEW S PROVE Search!Cardinality(S) = Cardinality(S)
BY DEF Search!Cardinality, Cardinality

LEMMA ProbesFinite ==
  ASSUME Search!DiscoveryAssumption
  PROVE  IsFiniteSet(Probes) /\ \A S \in SUBSET Probes : IsFiniteSet(S) /\ Cardinality(S) \in Nat
<1>1. IsFiniteSet(Probes)
  BY DEF Search!DiscoveryAssumption, Search!IsFiniteSet, IsFiniteSet
<1> QED BY <1>1, FS_Subset, FS_CardinalityType

(* What release_endpoint leaves is the count of the probes that remain.    *)
Leaves(fewer, table, pr, S) ==
  /\ fewer \in [Search!Slots -> EntryType]
  /\ \A i \in Search!Slots : /\ fewer[i].addr = table[i].addr /\ fewer[i].scope = table[i].scope
                             /\ fewer[i].refs = Cardinality(With(pr, i) \ S)
                             /\ fewer[i].refs > 0 => table[i].refs > 0
LEMMA Released ==
  ASSUME Search!DiscoveryAssumption, NEW pr, NEW table \in [Search!Slots -> EntryType],
         Counts(pr, table), NEW S \in SUBSET Probes, NEW T \in SUBSET S,
         \A b \in T : pr[b].token = probe[b].token, \A b \in S \ T : pr[b].token = 0
  PROVE  Leaves(Search!release_endpoint(table, T), table, pr, S)
<1> DEFINE fewer == Search!release_endpoint(table, T)
           Back(i) == {b \in T : probe[b].token = i}
<1>1. ASSUME NEW i \in Search!Slots
      PROVE  /\ table[i].refs - Cardinality(Back(i)) = Cardinality(With(pr, i) \ S)
             /\ table[i].refs \in Nat /\ Cardinality(Back(i)) \in Nat
             /\ Cardinality(With(pr, i) \ S) \in Nat
  <2>1. i # 0
    BY DEF Search!Slots
  <2>2. With(pr, i) \cap S = Back(i) /\ With(pr, i) \in SUBSET Probes
    BY <2>1 DEF With
  <2>3. /\ Cardinality(With(pr, i) \ S) = Cardinality(With(pr, i)) - Cardinality(With(pr, i) \cap S)
        /\ Cardinality(With(pr, i)) \in Nat /\ Cardinality(Back(i)) \in Nat
        /\ Cardinality(With(pr, i) \ S) \in Nat
    BY <2>2, ProbesFinite, FS_Difference
  <2>4. table[i].refs = Cardinality(With(pr, i))
    BY DEF Counts
  <2> HIDE DEF Back
  <2> QED BY <2>2, <2>3, <2>4
<1>2. ASSUME NEW i \in Search!Slots
      PROVE  fewer[i] = [table[i] EXCEPT !.refs = @ - Cardinality(Back(i))]
  BY SearchCount DEF Search!release_endpoint
<1> HIDE DEF Back
<1>3. ASSUME NEW i \in Search!Slots
      PROVE  /\ fewer[i] \in EntryType /\ fewer[i].addr = table[i].addr /\ fewer[i].scope = table[i].scope
             /\ fewer[i].refs = Cardinality(With(pr, i) \ S)
             /\ fewer[i].refs > 0 => table[i].refs > 0
  <2> DEFINE n == table[i].refs
             m == Cardinality(Back(i))
  <2>1. table[i] \in EntryType
    OBVIOUS
  <2>2. n - m = Cardinality(With(pr, i) \ S) /\ n - m \in Nat
    BY <1>1
  <2>3. n - m > 0 => n > 0
    <3>1. n \in Nat /\ m \in Nat
      BY <1>1
    <3> HIDE DEF n, m
    <3> QED BY <3>1
  <2>4. fewer[i] = [table[i] EXCEPT !.refs = n - m]
    BY <1>2
  <2> HIDE DEF n, m, fewer
  <2> QED BY <2>1, <2>2, <2>3, <2>4 DEF EntryType, n
<1>4. fewer = [i \in Search!Slots |-> fewer[i]]
  BY DEF Search!release_endpoint
<1> HIDE DEF fewer
<1>5. fewer \in [Search!Slots -> EntryType]
  BY <1>3, <1>4
<1> QED BY <1>3, <1>5 DEF fewer, Leaves

LEMMA Settled ==
  ASSUME Search!DiscoveryAssumption, NEW its, NEW pr, NEW table, NEW sh, NEW br,
         Typed(its, pr, table), Owned(its, pr, sh, br), Exact(pr, table),
         \A b \in Probes : pr[b].token \in {0, probe[b].token} \/ pr[b].busy = "asking",
         Search!Settle(its, pr, table)
  PROVE  /\ items' = its /\ Typed(its, probe', endpoints') /\ Owned(its, probe', sh, br)
         /\ Exact(probe', endpoints')
<1> DEFINE gone == {b \in Probes : /\ \A p \in Peers : its[p] # b
                                   /\ ~pr[b].scheduled /\ pr[b].busy # "asking"}
           back == {b \in gone : pr[b].token # 0}
<1>1. /\ items' = its /\ probe' = [b \in Probes |-> IF b \in gone THEN Search!Fresh ELSE pr[b]]
      /\ endpoints' = Search!release_endpoint(table, back)
  BY DEF Search!Settle
<1>2. gone \in SUBSET Probes /\ back \in SUBSET gone /\ \A b \in gone \ back : pr[b].token = 0
  OBVIOUS
<1>3. \A b \in back : pr[b].token = probe[b].token
  OBVIOUS
<1>4. \A b \in gone : \A p \in Peers : its[p] # b
  OBVIOUS
<1> HIDE DEF gone, back
<1>5. /\ endpoints' \in [Search!Slots -> EntryType]
      /\ \A i \in Search!Slots : /\ endpoints'[i].addr = table[i].addr
                                 /\ endpoints'[i].scope = table[i].scope
                                 /\ endpoints'[i].refs = Cardinality(With(pr, i) \ gone)
                                 /\ endpoints'[i].refs > 0 => table[i].refs > 0
  <2>1. table \in [Search!Slots -> EntryType] /\ Counts(pr, table)
    BY DEF Typed, Exact
  <2>2. Leaves(Search!release_endpoint(table, back), table, pr, gone)
    BY <1>2, <1>3, <2>1, Released
  <2> QED BY <1>1, <2>2 DEF Leaves
<1>6. Search!Fresh \in ProbeType /\ Search!Fresh.token = 0 /\ Search!Fresh.busy = "no"
      /\ ~Search!Fresh.scheduled /\ Search!Fresh.peer = NoPeer
  <2>1. 0 \in 0..ENDPOINTS
    BY DEF Search!DiscoveryAssumption
  <2> QED BY <2>1 DEF Search!Fresh, ProbeType
<1> HIDE DEF Search!Fresh
<1>7. probe' \in [Probes -> ProbeType]
  BY <1>1, <1>6 DEF Typed
<1>8. Owned(its, probe', sh, br)
  <2>1. InDictionary(its, probe', sh, br)
    BY <1>1, <1>4 DEF Owned, InDictionary, Typed
  <2>2. Working(probe')
    BY <1>1, <1>6 DEF Owned, Working
  <2>3. Listed(its, probe', br)
    BY <1>1, <1>6 DEF Owned, Listed
  <2> QED BY <2>1, <2>2, <2>3 DEF Owned
<1>9. ASSUME NEW i \in Search!Slots PROVE With(probe', i) = With(pr, i) \ gone
  <2>1. i # 0
    BY DEF Search!Slots
  <2> QED BY <1>1, <1>6, <2>1 DEF With
<1>10. Counts(probe', endpoints') /\ Scoped(endpoints')
  BY <1>5, <1>9 DEF Exact, Counts, Scoped
<1>11. Addressed(probe', endpoints')
  <2> SUFFICES ASSUME NEW b \in Probes, probe'[b].token # 0
               PROVE  endpoints'[probe'[b].token].addr = probe'[b].addr
    BY DEF Addressed
  <2>1. b \notin gone /\ probe'[b] = pr[b]
    BY <1>1, <1>6
  <2>2. pr[b].token \in Search!Slots
    <3>1. pr[b].token \in 0..ENDPOINTS
      BY DEF Typed, ProbeType
    <3> QED BY <2>1, <3>1 DEF Search!Slots, Search!DiscoveryAssumption
  <2>3. table[pr[b].token].addr = pr[b].addr
    BY <2>1 DEF Exact, Addressed
  <2> QED BY <1>5, <2>1, <2>2, <2>3
<1> QED BY <1>1, <1>5, <1>7, <1>8, <1>10, <1>11 DEF Typed, Exact

LEMMA FirstIsOne ==
  ASSUME Search!DiscoveryAssumption, NEW S \in SUBSET Search!Slots, S # {}
  PROVE  Search!First(S) \in S
<1>1. \E i \in S : \A j \in S : i <= j
  BY Least DEF Search!Slots, Search!DiscoveryAssumption
<1> QED BY <1>1 DEF Search!First

(* The endpoint of a resolved address is counted for the probe that has it.*)
LEMMA Retained ==
  ASSUME Search!DiscoveryAssumption, NEW b \in Probes, NEW addr \in Addrs, tap \in 0..MaxTap,
         Typed(items, probe, endpoints), Exact(probe, endpoints)
  PROVE  LET token == Search!TokenFor(Search!LetGo(b), addr)
             pr    == [probe EXCEPT ![b].busy = "asking", ![b].token = token, ![b].addr = addr]
             table == Search!retain_endpoint(Search!LetGo(b), token, addr)
         IN Typed(items, pr, table) /\ Exact(pr, table)
<1> DEFINE old   == Search!LetGo(b)
           token == Search!TokenFor(old, addr)
           pr    == [probe EXCEPT ![b].busy = "asking", ![b].token = token, ![b].addr = addr]
           table == Search!retain_endpoint(old, token, addr)
<1>1. Leaves(old, endpoints, probe, {b})
  <2>1. endpoints \in [Search!Slots -> EntryType] /\ Counts(probe, endpoints)
    BY DEF Typed, Exact
  <2> QED BY <2>1, Released DEF Search!LetGo
<1> HIDE DEF old
<1>2. /\ old \in [Search!Slots -> EntryType]
      /\ \A i \in Search!Slots : /\ old[i].refs = Cardinality(With(probe, i) \ {b})
                                 /\ old[i].refs > 0 => old[i].scope # 0
                                 /\ old[i].addr = endpoints[i].addr
  BY <1>1 DEF Leaves, Exact, Scoped
<1>3. \/ token = 0
      \/ /\ token \in Search!Slots /\ tap # 0
         /\ old[token].refs = 0 \/ (old[token].addr = addr /\ old[token].scope = tap)
  <2> DEFINE same == {i \in Search!InUse(old, addr) : old[i].scope = tap}
             free == {i \in Search!Slots : old[i].refs = 0}
  <2>1. same \in SUBSET Search!Slots /\ free \in SUBSET Search!Slots
    BY DEF Search!InUse
  <2>2. CASE tap = 0 \/ same \cup free = {}
    BY <2>2 DEF Search!TokenFor
  <2>3. CASE ~(tap = 0 \/ same \cup free = {}) /\ same # {}
    <3>1. token = Search!First(same)
      BY <2>3 DEF Search!TokenFor
    <3>2. token \in same
      BY <2>1, <2>3, <3>1, FirstIsOne
    <3> HIDE DEF token
    <3> QED BY <2>3, <3>2 DEF Search!InUse
  <2>4. CASE ~(tap = 0 \/ same \cup free = {}) /\ same = {}
    <3>1. token = Search!First(free)
      BY <2>4 DEF Search!TokenFor
    <3>2. token \in free
      BY <2>1, <2>4, <3>1, FirstIsOne
    <3>3. tap # 0
      BY <2>4
    <3> HIDE DEF token
    <3>4. token \in Search!Slots /\ old[token].refs = 0
      BY <3>2
    <3> QED BY <3>3, <3>4
  <2> QED BY <2>2, <2>3, <2>4
<1> HIDE DEF token
<1>4. token \in 0..ENDPOINTS
  BY <1>3 DEF Search!Slots, Search!DiscoveryAssumption
<1>5. /\ pr \in [Probes -> ProbeType] /\ pr[b].token = token /\ pr[b].addr = addr
      /\ \A c \in Probes \ {b} : pr[c] = probe[c]
  <2> DEFINE asking == [probe[b] EXCEPT !.busy = "asking", !.token = token, !.addr = addr]
  <2>1. probe \in [Probes -> ProbeType] /\ probe[b] \in ProbeType
    BY DEF Typed
  <2>2. pr = [probe EXCEPT ![b] = asking]
    BY <2>1
  <2>3. asking \in ProbeType /\ asking.token = token /\ asking.addr = addr
    BY <1>4, <2>1 DEF ProbeType
  <2> HIDE DEF asking, pr
  <2> QED BY <2>1, <2>2, <2>3
<1> HIDE DEF pr
<1>6. ASSUME NEW i \in Search!Slots
      PROVE  With(pr, i) = (With(probe, i) \ {b}) \cup (IF i = token THEN {b} ELSE {})
  BY <1>5 DEF With
<1>a. \A i \in Search!Slots : old[i] \in EntryType
  BY <1>2
<1>7. ASSUME NEW i \in Search!Slots
      PROVE  IF i = token
             THEN /\ table[i] = [addr |-> addr, scope |-> tap, refs |-> old[i].refs + 1]
                  /\ table[i].addr = addr /\ table[i].scope = tap
                  /\ table[i].refs = old[i].refs + 1
             ELSE table[i] = old[i]
  BY <1>2 DEF Search!retain_endpoint, Search!Slots
<1>8. token = 0 => table = old
  BY DEF Search!retain_endpoint
<1>9. table \in [Search!Slots -> EntryType]
  <2>1. token # 0 => table = [i \in Search!Slots |-> table[i]]
    BY <1>2 DEF Search!retain_endpoint
  <2>2. ASSUME NEW i \in Search!Slots PROVE table[i] \in EntryType
    <3>1. old[i].refs \in Nat
      BY <1>a DEF EntryType
    <3>2. old[i].refs + 1 \in Nat
      BY <3>1
    <3>3. CASE i = token
      <4>1. table[i] = [addr |-> addr, scope |-> tap, refs |-> old[i].refs + 1]
        BY <1>7, <3>3
      <4> DEFINE n == old[i].refs + 1
      <4> HIDE DEF n, table, old
      <4> QED BY <3>2, <4>1 DEF EntryType, n
    <3> QED BY <1>a, <1>7, <3>3
  <2> HIDE DEF table
  <2> QED BY <1>2, <1>8, <2>1, <2>2
<1> HIDE DEF table
<1>10. Counts(pr, table)
  <2> SUFFICES ASSUME NEW i \in Search!Slots PROVE table[i].refs = Cardinality(With(pr, i))
    BY DEF Counts
  <2> DEFINE others == With(probe, i) \ {b}
  <2>1. IsFiniteSet(others) /\ b \notin others /\ Cardinality(others) \in Nat
    BY ProbesFinite DEF With
  <2>2. i # 0
    BY DEF Search!Slots
  <2>3. CASE i = token
    <3>1. Cardinality(With(pr, i)) = Cardinality(others) + 1
      BY <1>6, <2>1, <2>3, FS_AddElement
    <3>2. table[i].refs = old[i].refs + 1 /\ old[i].refs = Cardinality(others)
      BY <1>2, <1>7, <2>3
    <3> QED BY <3>1, <3>2
  <2>4. CASE i # token
    <3>1. With(pr, i) = others
      BY <1>6, <2>4
    <3> QED BY <1>2, <1>7, <1>8, <2>4, <3>1
  <2> QED BY <2>3, <2>4
<1>11. Scoped(table)
  <2> SUFFICES ASSUME NEW i \in Search!Slots, table[i].refs > 0 PROVE table[i].scope # 0
    BY DEF Scoped
  <2>1. CASE i = token
    <3>1. tap # 0
      BY <1>3, <2>1 DEF Search!Slots
    <3> QED BY <1>7, <2>1, <3>1
  <2>2. CASE i # token
    <3>1. table[i] = old[i]
      BY <1>7, <2>2
    <3> QED BY <1>2, <3>1
  <2> QED BY <2>1, <2>2
<1>12. Addressed(pr, table)
  <2> SUFFICES ASSUME NEW c \in Probes, pr[c].token # 0
               PROVE  table[pr[c].token].addr = pr[c].addr
    BY DEF Addressed
  <2>1. CASE c = b
    <3>1. token \in Search!Slots
      BY <1>3, <1>5, <2>1
    <3>2. table[token].addr = addr
      BY <1>7, <3>1
    <3> QED BY <1>5, <2>1, <3>2
  <2>2. CASE c # b
    <3> DEFINE i == probe[c].token
    <3>1. pr[c] = probe[c] /\ i # 0 /\ i \in Search!Slots /\ endpoints[i].addr = probe[c].addr
      BY <1>5, <2>2 DEF Typed, ProbeType, Search!Slots, Search!DiscoveryAssumption, Exact, Addressed
    <3>2. old[i].refs # 0
      <4>1. c \in With(probe, i) \ {b} /\ With(probe, i) \ {b} \in SUBSET Probes
        BY <2>2 DEF With
      <4> QED BY <1>2, <3>1, <4>1, ProbesFinite, FS_EmptySet
    <3> HIDE DEF i
    <3>3. i = token => endpoints[i].addr = addr
      BY <1>2, <1>3, <3>1, <3>2
    <3>4. table[i].addr = endpoints[i].addr
      <4>1. CASE i = token
        <5>1. table[i].addr = addr
          BY <1>7, <3>1, <4>1
        <5> QED BY <3>3, <4>1, <5>1
      <4>2. CASE i # token
        <5>1. table[i] = old[i]
          BY <1>7, <3>1, <4>2
        <5> QED BY <1>2, <3>1, <5>1
      <4> QED BY <4>1, <4>2
    <3> QED BY <3>1, <3>4 DEF i
  <2> QED BY <2>1, <2>2
<1> QED BY <1>5, <1>9, <1>10, <1>11, <1>12 DEF Typed, Exact, pr, table, token, old

-----------------------------------------------------------------------------
(* What holds of the search between its steps.                             *)
SearchInv ==
  /\ browser \in BOOLEAN /\ shown \subseteq Peers /\ tap \in 0..MaxTap /\ failed \in 0..MaxFails
  /\ Typed(items, probe, endpoints) /\ Owned(items, probe, shown, browser)
  /\ Exact(probe, endpoints) /\ NamedByOwn(told, items, shown)

(* A probe that goes from one attempt to the next keeps who it is for.     *)
LEMMA Progress ==
  ASSUME Search!DiscoveryAssumption, SearchInv, NEW pr \in [Probes -> ProbeType],
         \A c \in Probes : /\ pr[c].peer = probe[c].peer /\ pr[c].cancelled = probe[c].cancelled
                           /\ pr[c].token = probe[c].token /\ pr[c].addr = probe[c].addr,
         Working(pr), Search!Settle(items, pr, endpoints), UNCHANGED <<browser, shown, tap>>,
         failed' \in 0..MaxFails, NamedByOwn(told', items, shown)
  PROVE  SearchInv'
<1>1. Typed(items, pr, endpoints)
  BY DEF SearchInv, Typed
<1>2. Owned(items, pr, shown, browser)
  <2>1. InDictionary(items, pr, shown, browser)
    BY DEF SearchInv, Owned, InDictionary, Typed
  <2>2. Listed(items, pr, browser)
    BY DEF SearchInv, Owned, Listed
  <2> QED BY <2>1, <2>2 DEF Owned
<1>3. Exact(pr, endpoints)
  <2>1. ASSUME NEW i \in Search!Slots PROVE With(pr, i) = With(probe, i)
    BY DEF With
  <2>2. Counts(pr, endpoints) /\ Scoped(endpoints)
    BY <2>1 DEF SearchInv, Exact, Counts
  <2>3. Addressed(pr, endpoints)
    BY DEF SearchInv, Exact, Addressed
  <2> QED BY <2>2, <2>3 DEF Exact
<1>4. /\ items' = items /\ Typed(items, probe', endpoints') /\ Owned(items, probe', shown, browser)
      /\ Exact(probe', endpoints')
  BY <1>1, <1>2, <1>3, Settled
<1>5. Typed(items', probe', endpoints') /\ Owned(items', probe', shown', browser')
      /\ NamedByOwn(told', items', shown')
  BY <1>4
<1> QED BY <1>4, <1>5 DEF SearchInv, Typed, Owned, InDictionary, Working, Listed, Exact, Counts, Scoped, Addressed, With, NamedByOwn

LEMMA ProbeStepKept ==
  ASSUME Search!DiscoveryAssumption, SearchInv, NEW b \in Probes, Search!ProbeSteps(b)
  PROVE  SearchInv'
<1> USE DEF SearchInv
<1>1. /\ probe[b] \in ProbeType /\ probe \in [Probes -> ProbeType] /\ Working(probe)
      /\ NamedByOwn(told, items, shown)
  BY DEF Typed, Owned
<1>2. probe[b].busy # "no" \/ probe[b].scheduled => probe[b].peer # NoPeer
  BY <1>1 DEF Working
<1>3. probe[b].busy # "no" => ~probe[b].cancelled
  BY <1>1 DEF Working
<1>4. CASE Search!start(b)
  <2> DEFINE pr == [probe EXCEPT ![b].scheduled = FALSE,
                      ![b].busy = IF probe[b].cancelled \/ ~browser THEN @ ELSE "resolving"]
  <2>1. pr \in [Probes -> ProbeType] /\ probe[b].scheduled
    BY <1>1, <1>4 DEF ProbeType, Search!start
  <2>2. \A c \in Probes : /\ pr[c].peer = probe[c].peer /\ pr[c].cancelled = probe[c].cancelled
                          /\ pr[c].token = probe[c].token /\ pr[c].addr = probe[c].addr
    BY <1>1 DEF ProbeType
  <2>3. Working(pr)
    BY <1>1, <1>2, <1>3, <2>1 DEF Working, ProbeType
  <2>4. /\ Search!Settle(items, pr, endpoints) /\ UNCHANGED <<browser, shown, tap>>
        /\ told' = told /\ failed' = failed
    BY <1>4 DEF Search!start
  <2> HIDE DEF pr
  <2> QED BY <1>1, <2>1, <2>2, <2>3, <2>4, Progress
<1>5. CASE Search!didNotResolve(b) \/ Search!connectionFails(b)
  <2> DEFINE pr == Search!retry(b)
  <2>a. probe[b].busy # "no" /\ Search!Fails
    BY <1>5 DEF Search!didNotResolve, Search!connectionFails
  <2>1. pr \in [Probes -> ProbeType]
    BY <1>1 DEF ProbeType, Search!retry
  <2>2. \A c \in Probes : /\ pr[c].peer = probe[c].peer /\ pr[c].cancelled = probe[c].cancelled
                          /\ pr[c].token = probe[c].token /\ pr[c].addr = probe[c].addr
    BY <1>1 DEF ProbeType, Search!retry
  <2>3. Working(pr)
    BY <1>1, <1>2, <1>3, <2>a DEF Working, ProbeType, Search!retry
  <2>4. /\ Search!Settle(items, pr, endpoints) /\ UNCHANGED <<browser, shown, tap>>
        /\ told' = told
    BY <1>5 DEF Search!didNotResolve, Search!connectionFails
  <2>5. failed' \in 0..MaxFails
    BY <2>a DEF Search!Fails, Search!DiscoveryAssumption
  <2> HIDE DEF pr
  <2> QED BY <1>1, <2>1, <2>2, <2>3, <2>4, <2>5, Progress
<1>6. CASE Search!connectionDidFinishLoading(b)
  <2> DEFINE pr == [probe EXCEPT ![b].busy = "no", ![b].named = browser]
  <2>1. pr \in [Probes -> ProbeType] /\ probe[b].busy # "no"
    BY <1>1, <1>6 DEF ProbeType, Search!connectionDidFinishLoading
  <2>2. \A c \in Probes : /\ pr[c].peer = probe[c].peer /\ pr[c].cancelled = probe[c].cancelled
                          /\ pr[c].token = probe[c].token /\ pr[c].addr = probe[c].addr
    BY <1>1 DEF ProbeType
  <2>3. Working(pr)
    BY <1>1, <1>2, <1>3 DEF Working, ProbeType
  <2>4. /\ Search!Settle(items, pr, endpoints) /\ UNCHANGED <<browser, shown, tap>>
        /\ told' = (IF browser THEN [told EXCEPT ![probe[b].peer] = b] ELSE told) /\ failed' = failed
    BY <1>6 DEF Search!connectionDidFinishLoading
  <2>5. NamedByOwn(told', items, shown)
    <3>1. CASE browser
      <4> DEFINE p == probe[b].peer
      <4>1. p \in Peers /\ items[p] = b
        BY <1>1, <1>2, <1>3, <2>1, <3>1 DEF Owned, Listed, ProbeType
      <4>2. p \in shown
        BY <4>1 DEF Owned, InDictionary, Search!DiscoveryAssumption
      <4> HIDE DEF p
      <4>3. told' = [told EXCEPT ![p] = b]
        BY <2>4, <3>1 DEF p
      <4> QED BY <1>1, <4>1, <4>2, <4>3 DEF NamedByOwn
    <3> QED BY <1>1, <2>4, <3>1
  <2> HIDE DEF pr
  <2> QED BY <1>1, <2>1, <2>2, <2>3, <2>4, <2>5, Progress
<1>7. CASE Search!Resolves(b)
  <2>1. PICK addr \in Addrs : Search!netServiceDidResolveAddress(b, addr)
    BY <1>7 DEF Search!Resolves
  <2> DEFINE token == Search!TokenFor(Search!LetGo(b), addr)
             pr    == [probe EXCEPT ![b].busy = "asking", ![b].token = token, ![b].addr = addr]
             table == Search!retain_endpoint(Search!LetGo(b), token, addr)
  <2>2. /\ Search!Settle(items, pr, table) /\ UNCHANGED <<browser, shown, told, tap, failed>>
        /\ probe[b].busy # "no"
    BY <2>1 DEF Search!netServiceDidResolveAddress
  <2>3. Typed(items, pr, table) /\ Exact(pr, table)
    BY Retained
  <2>4. Owned(items, pr, shown, browser)
    <3> HIDE DEF token, table
    <3>1. \A c \in Probes : /\ pr[c].peer = probe[c].peer /\ pr[c].cancelled = probe[c].cancelled
                            /\ pr[c].scheduled = probe[c].scheduled
                            /\ c # b => pr[c].busy = probe[c].busy
      BY <1>1 DEF ProbeType
    <3> HIDE DEF pr
    <3>2. InDictionary(items, pr, shown, browser)
      BY <3>1 DEF Owned, InDictionary, Typed
    <3>3. Listed(items, pr, browser)
      BY <3>1 DEF Owned, Listed
    <3>4. Working(pr)
      BY <1>2, <1>3, <2>2, <3>1 DEF Owned, Working
    <3> QED BY <3>2, <3>3, <3>4 DEF Owned
  <2>5. \A c \in Probes : pr[c].token \in {0, probe[c].token} \/ pr[c].busy = "asking"
    <3> HIDE DEF token, table
    <3> QED BY <1>1 DEF ProbeType
  <2> HIDE DEF pr, table
  <2>6. /\ items' = items /\ Typed(items', probe', endpoints') /\ Owned(items', probe', shown', browser')
        /\ Exact(probe', endpoints')
    BY <2>2, <2>3, <2>4, <2>5, Settled
  <2>7. NamedByOwn(told', items', shown')
    BY <1>1, <2>2, <2>6
  <2> QED BY <2>2, <2>6, <2>7 DEF Typed, Owned, InDictionary, Working, Listed, Exact, Counts, Scoped, Addressed, With, NamedByOwn
<1> QED BY <1>4, <1>5, <1>6, <1>7 DEF Search!ProbeSteps

LEMMA PersonKept ==
  ASSUME Search!DiscoveryAssumption, SearchInv, NEW p \in Peers, Search!person_changed(p)
  PROVE  SearchInv'
<1> USE DEF SearchInv
<1> DEFINE b == items[p]
<1>1. /\ browser /\ shown' = shown \cup {p} /\ UNCHANGED <<browser, endpoints, tap, failed>>
      /\ told' = [told EXCEPT ![p] = IF b # NoProbe /\ probe[b].named THEN b ELSE NoProbe]
  BY DEF Search!person_changed
<1>2. \/ UNCHANGED <<items, probe>>
      \/ /\ b = NoProbe
         /\ \E n \in Probes : /\ probe[n] = Search!Fresh /\ items' = [items EXCEPT ![p] = n]
                              /\ probe' = [probe EXCEPT ![n].peer = p, ![n].scheduled = TRUE]
  BY DEF Search!person_changed
<1>3. shown' \subseteq Peers
  BY <1>1
<1>a. /\ probe \in [Probes -> ProbeType] /\ items \in [Peers -> Probes \cup {NoProbe}]
      /\ told \in [Peers -> Probes \cup {NoProbe}]
  BY DEF Typed, NamedByOwn
<1>4. CASE UNCHANGED <<items, probe>>
  <2>1. InDictionary(items, probe, shown', browser)
    BY <1>1 DEF Owned, InDictionary
  <2>2. NamedByOwn(told', items, shown')
    <3>1. b # NoProbe => p \in shown'
      BY <1>1
    <3> HIDE DEF b
    <3>2. told' \in [Peers -> Probes \cup {NoProbe}]
      BY <1>1, <1>a DEF b
    <3>3. \A q \in Peers : told'[q] # NoProbe => q \in shown' /\ items[q] = told'[q]
      BY <1>1, <1>a, <3>1 DEF NamedByOwn, b
    <3> QED BY <3>2, <3>3 DEF NamedByOwn
  <2> QED BY <1>1, <1>3, <1>4, <2>1, <2>2 DEF Typed, Owned, InDictionary, Working, Listed, Exact, Counts, Scoped, Addressed, With, NamedByOwn
<1>5. ASSUME NEW n \in Probes, probe[n] = Search!Fresh, items' = [items EXCEPT ![p] = n],
             probe' = [probe EXCEPT ![n].peer = p, ![n].scheduled = TRUE], b = NoProbe
      PROVE  SearchInv'
  <2>1. /\ probe'[n].peer = p /\ probe'[n].scheduled /\ probe'[n].busy = "no" /\ ~probe'[n].cancelled
        /\ probe'[n].token = 0 /\ probe[n].token = 0 /\ probe[n].peer = NoPeer
        /\ \A c \in Probes \ {n} : probe'[c] = probe[c]
    BY <1>5, <1>a DEF Search!Fresh, ProbeType
  <2>2. probe' \in [Probes -> ProbeType] /\ items' \in [Peers -> Probes \cup {NoProbe}]
    <3>1. items' \in [Peers -> Probes \cup {NoProbe}]
      BY <1>5, <1>a
    <3>2. probe[n] \in ProbeType
      BY <1>a
    <3>3. [probe[n] EXCEPT !.peer = p, !.scheduled = TRUE] \in ProbeType
      BY <3>2 DEF ProbeType
    <3>4. probe' = [probe EXCEPT ![n] = [probe[n] EXCEPT !.peer = p, !.scheduled = TRUE]]
      BY <1>5, <1>a
    <3> QED BY <1>a, <3>1, <3>3, <3>4
  <2>3. items'[p] = n /\ items[p] = NoProbe /\ \A q \in Peers \ {p} : items'[q] = items[q]
    BY <1>5, <1>a
  <2>4. NoPeer \notin Peers /\ NoProbe \notin Probes
    BY DEF Search!DiscoveryAssumption
  <2>5. \A q \in Peers : items[q] # n
    BY <2>1, <2>4 DEF Owned, InDictionary
  <2>6. InDictionary(items', probe', shown', browser)
    BY <1>1, <1>a, <2>1, <2>3, <2>5 DEF Owned, InDictionary
  <2>7. Working(probe')
    BY <2>1, <2>4 DEF Owned, Working
  <2>8. Listed(items', probe', browser)
    <3> SUFFICES ASSUME NEW c \in Probes, browser, probe'[c].peer # NoPeer, ~probe'[c].cancelled
                 PROVE  items'[probe'[c].peer] = c
      BY DEF Listed
    <3>1. CASE c = n
      BY <2>1, <2>3, <3>1
    <3>2. CASE c # n
      <4>1. items[probe[c].peer] = c /\ probe[c].peer \in Peers
        BY <1>a, <2>1, <3>2 DEF Owned, Listed, ProbeType
      <4>2. probe[c].peer # p
        BY <2>3, <2>4, <4>1
      <4> QED BY <2>1, <2>3, <3>2, <4>1, <4>2
    <3> QED BY <3>1, <3>2
  <2>9. Exact(probe', endpoints)
    <3>1. ASSUME NEW i \in Search!Slots PROVE With(probe', i) = With(probe, i)
      <4>1. i # 0
        BY DEF Search!Slots
      <4> QED BY <2>1, <4>1 DEF With
    <3>2. Counts(probe', endpoints) /\ Scoped(endpoints)
      BY <3>1 DEF Exact, Counts
    <3>3. Addressed(probe', endpoints)
      BY <2>1 DEF Exact, Addressed
    <3> QED BY <3>2, <3>3 DEF Exact
  <2>10. NamedByOwn(told', items', shown')
    <3>1. told' = [told EXCEPT ![p] = NoProbe]
      BY <1>1, <1>5
    <3> QED BY <1>1, <1>a, <2>3, <3>1 DEF NamedByOwn
  <2>11. Typed(items', probe', endpoints') /\ Owned(items', probe', shown', browser') /\ Exact(probe', endpoints')
    BY <1>1, <2>2, <2>6, <2>7, <2>8, <2>9 DEF Typed, Owned
  <2> QED BY <1>1, <1>3, <2>10, <2>11 DEF Typed, Owned, InDictionary, Working, Listed, Exact, Counts, Scoped, Addressed, With, NamedByOwn
<1> QED BY <1>2, <1>4, <1>5

(* What the browser lets go of, in one of its hooks or with itself.        *)
LetsGo(br, peers, gone, its, pr, table) ==
  /\ br \in BOOLEAN /\ (br => browser) /\ (br \/ peers = Peers)
  /\ peers \subseteq Peers /\ gone = {items[p] : p \in peers} \ {NoProbe}
  /\ its = [p \in Peers |-> IF p \in peers THEN NoProbe ELSE items[p]]
  /\ Typed(its, pr, table) /\ Exact(pr, table) /\ Working(pr)
  /\ \A c \in Probes : /\ pr[c].token \in {0, probe[c].token} /\ pr[c].peer = probe[c].peer
                       /\ pr[c].cancelled <=> probe[c].cancelled \/ (br /\ c \in gone)
  /\ browser' = br /\ UNCHANGED <<tap, failed>> /\ shown' = shown \ peers
  /\ told' = [p \in Peers |-> IF p \in peers THEN NoProbe ELSE told[p]]
  /\ Search!Settle(its, pr, table)
LEMMA LetGoKept ==
  ASSUME Search!DiscoveryAssumption, SearchInv, NEW br, NEW peers, NEW gone, NEW its, NEW pr, NEW table,
         LetsGo(br, peers, gone, its, pr, table)
  PROVE  SearchInv'
<1> USE DEF SearchInv, LetsGo
<1>1. NoPeer \notin Peers /\ NoProbe \notin Probes
  BY DEF Search!DiscoveryAssumption
<1>2. \A p \in Peers : its[p] = IF p \in peers THEN NoProbe ELSE items[p]
  OBVIOUS
<1>3. InDictionary(its, pr, shown', browser')
  <2> SUFFICES ASSUME NEW p \in Peers, its[p] # NoProbe
               PROVE  browser' /\ p \in shown' /\ pr[its[p]].peer = p /\ ~pr[its[p]].cancelled
    BY DEF InDictionary
  <2>1. p \notin peers /\ its[p] = items[p] /\ br
    BY <1>2
  <2>2. /\ browser /\ p \in shown /\ probe[its[p]].peer = p /\ ~probe[its[p]].cancelled
        /\ its[p] \in Probes
    BY <2>1 DEF Owned, InDictionary, Typed
  <2>3. its[p] \notin gone
    <3>1. ASSUME NEW q \in peers, items[q] = its[p] PROVE FALSE
      <4>1. probe[its[p]].peer = q
        BY <3>1 DEF Owned, InDictionary
      <4> QED BY <2>1, <2>2, <4>1
    <3> QED BY <3>1
  <2> QED BY <2>1, <2>2, <2>3
<1>4. Listed(its, pr, browser')
  <2> SUFFICES ASSUME NEW c \in Probes, br, pr[c].peer # NoPeer, ~pr[c].cancelled
               PROVE  its[pr[c].peer] = c
    BY DEF Listed
  <2>1. probe[c].peer \in Peers
    BY DEF Typed, ProbeType
  <2>2. items[probe[c].peer] = c /\ c \notin gone
    BY DEF Owned, Listed
  <2>3. probe[c].peer \notin peers
    BY <1>1, <2>2
  <2> QED BY <1>2, <2>1, <2>2, <2>3
<1>5. Owned(its, pr, shown', browser')
  BY <1>3, <1>4 DEF Owned
<1>6. /\ items' = its /\ Typed(its, probe', endpoints') /\ Owned(its, probe', shown', browser')
      /\ Exact(probe', endpoints')
  BY <1>5, Settled
<1>7. NamedByOwn(told', items', shown')
  BY <1>2, <1>6 DEF NamedByOwn
<1>8. Typed(items', probe', endpoints') /\ Owned(items', probe', shown', browser')
  BY <1>6
<1>9. browser' \in BOOLEAN /\ shown' \subseteq Peers /\ tap' \in 0..MaxTap /\ failed' \in 0..MaxFails
  OBVIOUS
<1> QED BY <1>6, <1>7, <1>8, <1>9 DEF Typed, Owned, InDictionary, Working, Listed, Exact, Counts, Scoped, Addressed, With, NamedByOwn

LEMMA ForgetKept ==
  ASSUME Search!DiscoveryAssumption, SearchInv, browser, NEW peers \in SUBSET Peers, Search!Forget(peers)
  PROVE  SearchInv'
<1> USE DEF SearchInv
<1> DEFINE gone == {items[p] : p \in peers} \ {NoProbe}
           its == [p \in Peers |-> IF p \in peers THEN NoProbe ELSE items[p]]
           pr == Search!cancelled(gone)
           table == Search!release_endpoint(endpoints, gone)
<1>1. /\ Search!Settle(its, pr, table) /\ shown' = shown \ peers /\ UNCHANGED <<browser, tap, failed>>
      /\ told' = [p \in Peers |-> IF p \in peers THEN NoProbe ELSE told[p]]
  BY DEF Search!Forget
<1>a. /\ probe \in [Probes -> ProbeType] /\ items \in [Peers -> Probes \cup {NoProbe}]
      /\ endpoints \in [Search!Slots -> EntryType] /\ Counts(probe, endpoints)
  BY DEF Typed, Exact
<1>2. gone \in SUBSET Probes
  BY <1>a
<1> DEFINE G == gone
<1>3. Leaves(table, endpoints, probe, G)
  <2>1. G \in SUBSET Probes /\ G \in SUBSET G
    BY <1>2
  <2> HIDE DEF gone
  <2> QED BY <1>a, <2>1, Released
<1>b. gone = {items[p] : p \in peers} \ {NoProbe}
  OBVIOUS
<1> HIDE DEF gone, table
<1>4. \A c \in Probes : IF c \in gone
                        THEN pr[c] = [probe[c] EXCEPT !.cancelled = TRUE, !.busy = "no", !.token = 0]
                        ELSE pr[c] = probe[c]
  BY DEF Search!cancelled
<1>5. \A c \in Probes : /\ pr[c] \in ProbeType
                        /\ pr[c].token \in {0, probe[c].token} /\ pr[c].peer = probe[c].peer
                        /\ pr[c].addr = probe[c].addr /\ pr[c].scheduled = probe[c].scheduled
                        /\ c \in gone => pr[c].token = 0 /\ pr[c].busy = "no" /\ pr[c].cancelled
  <2> SUFFICES ASSUME NEW c \in Probes
               PROVE  /\ pr[c] \in ProbeType
                      /\ pr[c].token \in {0, probe[c].token} /\ pr[c].peer = probe[c].peer
                      /\ pr[c].addr = probe[c].addr /\ pr[c].scheduled = probe[c].scheduled
                      /\ c \in gone => pr[c].token = 0 /\ pr[c].busy = "no" /\ pr[c].cancelled
    OBVIOUS
  <2>1. probe[c] \in ProbeType /\ 0 \in 0..ENDPOINTS
    BY <1>a DEF Search!DiscoveryAssumption
  <2> HIDE DEF pr
  <2>2. CASE c \in gone
    <3> DEFINE new == [probe[c] EXCEPT !.cancelled = TRUE, !.busy = "no", !.token = 0]
    <3>1. pr[c] = new
      BY <1>4, <2>2
    <3>2. /\ new \in ProbeType /\ new.token = 0 /\ new.busy = "no" /\ new.cancelled = TRUE
          /\ new.peer = probe[c].peer /\ new.addr = probe[c].addr /\ new.scheduled = probe[c].scheduled
      BY <2>1 DEF ProbeType
    <3> HIDE DEF new
    <3> QED BY <3>1, <3>2
  <2>3. CASE c \notin gone
    BY <1>4, <2>1, <2>3
  <2> QED BY <2>2, <2>3
<1>6. pr \in [Probes -> ProbeType]
  <2>1. pr = [c \in Probes |-> pr[c]]
    BY DEF Search!cancelled
  <2> HIDE DEF pr
  <2> QED BY <1>5, <2>1
<1> HIDE DEF pr
<1>7. Typed(its, pr, table)
  <2>1. its \in [Peers -> Probes \cup {NoProbe}]
    BY <1>a
  <2> QED BY <1>3, <1>6, <2>1 DEF Typed, Leaves
<1>8. Exact(pr, table)
  <2>1. ASSUME NEW i \in Search!Slots PROVE With(pr, i) = With(probe, i) \ gone
    <3>1. i # 0
      BY DEF Search!Slots
    <3> QED BY <1>4, <1>5, <3>1 DEF With
  <2>2. Counts(pr, table) /\ Scoped(table)
    BY <1>3, <2>1 DEF Leaves, Exact, Counts, Scoped
  <2>3. Addressed(pr, table)
    <3> SUFFICES ASSUME NEW c \in Probes, pr[c].token # 0
                 PROVE  table[pr[c].token].addr = pr[c].addr
      BY DEF Addressed
    <3>1. pr[c] = probe[c]
      BY <1>4, <1>5
    <3>2. pr[c].token \in Search!Slots
      <4>1. pr[c].token \in 0..ENDPOINTS
        BY <1>5 DEF ProbeType
      <4> QED BY <4>1 DEF Search!Slots, Search!DiscoveryAssumption
    <3>3. endpoints[pr[c].token].addr = pr[c].addr
      BY <3>1 DEF Exact, Addressed
    <3> QED BY <1>3, <3>2, <3>3 DEF Leaves
  <2> QED BY <2>2, <2>3 DEF Exact
<1>9. Working(pr)
  BY <1>4, <1>5 DEF Owned, Working
<1>10. \A c \in Probes : pr[c].cancelled <=> probe[c].cancelled \/ (browser /\ c \in gone)
  <2> SUFFICES ASSUME NEW c \in Probes PROVE pr[c].cancelled <=> probe[c].cancelled \/ (browser /\ c \in gone)
    OBVIOUS
  <2>1. pr[c].cancelled \in BOOLEAN /\ probe[c].cancelled \in BOOLEAN
    BY <1>5, <1>a DEF ProbeType
  <2> QED BY <1>4, <1>5, <2>1
<1> QED
  <2> HIDE DEF its
  <2>1. its = [p \in Peers |-> IF p \in peers THEN NoProbe ELSE items[p]]
    BY DEF its
  <2>2. \A c \in Probes : /\ pr[c].token \in {0, probe[c].token} /\ pr[c].peer = probe[c].peer
                          /\ pr[c].cancelled <=> probe[c].cancelled \/ (browser /\ c \in gone)
    BY <1>5, <1>10
  <2>3. browser \in BOOLEAN /\ browser' = browser /\ UNCHANGED <<tap, failed>> /\ Search!Settle(its, pr, table)
    BY <1>1
  <2>4. LetsGo(browser, peers, gone, its, pr, table)
    BY <1>1, <1>b, <1>7, <1>8, <1>9, <2>1, <2>2, <2>3 DEF LetsGo
  <2> QED BY <2>4, LetGoKept

LEMMA BrowserEndsKept ==
  ASSUME Search!DiscoveryAssumption, SearchInv, Search!BrowserEnds
  PROVE  SearchInv'
<1> USE DEF SearchInv
<1> DEFINE gone == {items[p] : p \in Peers} \ {NoProbe}
           its == [p \in Peers |-> IF p \in Peers THEN NoProbe ELSE items[p]]
<1>1. its = [p \in Peers |-> NoProbe] /\ its \in [Peers -> Probes \cup {NoProbe}]
  OBVIOUS
<1>2. /\ Search!Settle(its, probe, endpoints) /\ browser /\ browser' = FALSE /\ UNCHANGED <<tap, failed>>
      /\ shown' = shown \ Peers
      /\ told' = [p \in Peers |-> IF p \in Peers THEN NoProbe ELSE told[p]]
  BY <1>1 DEF Search!BrowserEnds
<1>3. Typed(its, probe, endpoints)
  BY <1>1 DEF Typed
<1>4. gone \in SUBSET Probes
  BY DEF Typed
<1>5. \A c \in Probes : /\ probe[c].token \in {0, probe[c].token}
                        /\ probe[c].cancelled <=> probe[c].cancelled \/ (FALSE /\ c \in gone)
  <2>1. \A c \in Probes : probe[c].cancelled \in BOOLEAN
    BY DEF Typed, ProbeType
  <2> QED BY <2>1
<1>6. Working(probe)
  BY DEF Owned
<1>7. gone = {items[p] : p \in Peers} \ {NoProbe} /\ its = [p \in Peers |-> IF p \in Peers THEN NoProbe ELSE items[p]]
  OBVIOUS
<1> HIDE DEF gone, its
<1>8. LetsGo(FALSE, Peers, gone, its, probe, endpoints)
  BY <1>2, <1>3, <1>4, <1>5, <1>6, <1>7 DEF LetsGo
<1> QED BY <1>8, LetGoKept

LEMMA SearchKept ==
  ASSUME Search!DiscoveryAssumption, SearchInv, [Search!Next]_(Search!vars)
  PROVE  SearchInv'
<1>1. CASE UNCHANGED Search!vars
  BY <1>1 DEF Search!vars, SearchInv, Typed, Owned, InDictionary, Working, Listed, Exact, Counts, Scoped, Addressed, With, NamedByOwn
<1>2. CASE \E b \in Probes : Search!ProbeSteps(b)
  BY <1>2, ProbeStepKept
<1>3. CASE \E p \in Peers : Search!person_changed(p)
  BY <1>3, PersonKept
<1>4. CASE \E p \in Peers : Search!remove_service(p)
  <2>1. PICK p \in Peers : browser /\ Search!Forget({p})
    BY <1>4 DEF Search!remove_service
  <2>2. {p} \in SUBSET Peers
    OBVIOUS
  <2> QED BY <2>1, <2>2, ForgetKept
<1>5. CASE Search!cancel_discovery
  <2>1. Peers \in SUBSET Peers
    OBVIOUS
  <2> QED BY <1>5, <2>1, ForgetKept DEF Search!cancel_discovery
<1>6. CASE Search!BrowserEnds
  BY <1>6, BrowserEndsKept
<1>7. CASE Search!TapChanges
  BY <1>7 DEF Search!TapChanges, SearchInv, Typed, Owned, InDictionary, Working, Listed, Exact, Counts, Scoped, Addressed, With, NamedByOwn
<1> QED BY <1>1, <1>2, <1>3, <1>4, <1>5, <1>6, <1>7 DEF Search!Next

LEMMA SearchStarts == ASSUME Search!DiscoveryAssumption, Search!Init PROVE SearchInv
<1> USE DEF Search!Init, Search!DiscoveryAssumption
<1>1. Search!Fresh \in ProbeType
  BY DEF Search!Fresh, ProbeType
<1>2. Typed(items, probe, endpoints)
  <2>1. [addr |-> NoAddr, scope |-> 0, refs |-> 0] \in EntryType
    BY DEF EntryType
  <2> QED BY <1>1, <2>1 DEF Typed
<1>3. Owned(items, probe, shown, browser)
  BY DEF Owned, InDictionary, Working, Listed, Search!Fresh
<1>4. Exact(probe, endpoints)
  <2>1. ASSUME NEW i \in Search!Slots PROVE With(probe, i) = {} /\ endpoints[i].refs = 0
    BY DEF With, Search!Fresh, Search!Slots
  <2>2. Counts(probe, endpoints) /\ Scoped(endpoints)
    BY <2>1, FS_EmptySet DEF Counts, Scoped
  <2>3. Addressed(probe, endpoints)
    BY DEF Addressed, Search!Fresh
  <2> QED BY <2>2, <2>3 DEF Exact
<1>5. NamedByOwn(told, items, shown)
  BY DEF NamedByOwn
<1>6. tap \in 0..MaxTap /\ failed \in 0..MaxFails
  OBVIOUS
<1> QED BY <1>2, <1>3, <1>4, <1>5, <1>6 DEF SearchInv

(* Every variable of the search has its type: no count of an endpoint ever *)
(* goes below zero, however often probes are released                      *)
(* (AQDiscovery.inc, AQSocket.inc).                                        *)
THEOREM SearchTypes ==
  ASSUME Search!DiscoveryAssumption
  PROVE  Search!Spec => []Search!TypeOK
<1>1. SearchInv => Search!TypeOK
  BY DEF SearchInv, Typed, NamedByOwn, ProbeType, EntryType, Search!TypeOK
<1> QED BY <1>1, SearchStarts, SearchKept, PTL DEF Search!Spec

LEMMA Reachable ==
  ASSUME Search!DiscoveryAssumption, SearchInv
  PROVE  Search!NamedIsReachable
<1>1. \A p \in Peers : told[p] # NoProbe => p \in shown /\ items[p] = told[p]
  BY DEF SearchInv, NamedByOwn
<1>2. \A i \in Search!Slots : endpoints[i].refs = Search!Cardinality({b \in Probes : probe[b].token = i})
  BY SearchCount DEF SearchInv, Exact, Counts, With
<1>3. ASSUME NEW b \in Probes, probe[b].token # 0 PROVE Search!scoped_connect(probe[b].addr) # 0
  <2> DEFINE i == probe[b].token
             used == Search!InUse(endpoints, probe[b].addr)
  <2>1. i \in Search!Slots
    <3>1. i \in 0..ENDPOINTS
      BY DEF SearchInv, Typed, ProbeType
    <3> QED BY <1>3, <3>1 DEF Search!Slots, Search!DiscoveryAssumption
  <2>2. endpoints[i].refs > 0 /\ endpoints[i].addr = probe[b].addr
    <3>1. b \in With(probe, i) /\ With(probe, i) \in SUBSET Probes
      BY DEF With
    <3>2. Cardinality(With(probe, i)) # 0 /\ Cardinality(With(probe, i)) \in Nat
      BY <3>1, ProbesFinite, FS_EmptySet
    <3>3. endpoints[i].refs = Cardinality(With(probe, i))
      BY <2>1 DEF SearchInv, Exact, Counts
    <3>4. endpoints[i].addr = probe[b].addr
      BY <1>3 DEF SearchInv, Exact, Addressed
    <3> HIDE DEF i
    <3> QED BY <3>2, <3>3, <3>4
  <2>3. used \in SUBSET Search!Slots /\ used # {}
    BY <2>1, <2>2 DEF Search!InUse
  <2>4. Search!First(used) \in used
    BY <2>3, FirstIsOne
  <2>5. endpoints[Search!First(used)].scope # 0
    BY <2>4 DEF Search!InUse, SearchInv, Exact, Scoped
  <2> QED BY <2>3, <2>5 DEF Search!scoped_connect
<1> QED BY <1>1, <1>2, <1>3 DEF Search!NamedIsReachable

(* A peer has a name only from the probe its service has now, and each     *)
(* probe's endpoint is counted once and is its own, whatever comes late,   *)
(* fails or is given up, for any number of peers, probes and entries       *)
(* (AQDiscovery.inc, AQSocket.inc).                                        *)
THEOREM PeersAreTheirs ==
  ASSUME Search!DiscoveryAssumption
  PROVE  MCSpec => []NamedIsReachable
<1>1. MCInit => Search!Init
  BY DEF MCInit
<1>2. [MCNext]_<<part, vars, adapter, search, drain>> => [Search!Next]_(Search!vars)
  BY DEF MCNext, search, Search!vars
<1>3. SearchInv => NamedIsReachable
  BY Reachable DEF NamedIsReachable
<1> QED BY <1>1, <1>2, <1>3, SearchStarts, SearchKept, PTL DEF MCSpec

-----------------------------------------------------------------------------
(* ServerDrain.  A stop that is put off waits for a receive or for the     *)
(* flush after one; a receiver that runs has been started since its last   *)
(* stop; and one that was stopped and still holds connections has a check  *)
(* of its own to come, until the checks have come twelve times.            *)
PutOffWaits == put_off => receives # {} \/ flushing
RunsSince == http => stopped < generation
HasCheck(g) == \E i \in 1..MaxStops : checks[i].generation = g /\ (checks[i].queued \/ checks[i].attempt = ATTEMPTS)
HeldIsWatched == Drain!Holds => HasCheck(generation)
DrainInv == Drain!TypeOK /\ PutOffWaits /\ RunsSince /\ HeldIsWatched

DrainCheck == [generation : 0..MaxStarts, attempt : 0..ATTEMPTS, queued : BOOLEAN]

LEMMA DrainStarts == ASSUME Drain!DrainAssumption, Drain!Init PROVE DrainInv
<1> USE DEF Drain!DrainAssumption
<1>1. Drain!NoCheck \in DrainCheck
  BY DEF Drain!NoCheck, DrainCheck
<1>2. checks \in [1..MaxStops -> DrainCheck]
  BY <1>1 DEF Drain!Init
<1>3. generation \in 0..MaxStarts /\ stopped \in 0..generation
  BY DEF Drain!Init
<1>4. conns = {} /\ closing = {} /\ receives = {} /\ leases = {}
  BY DEF Drain!Init
<1>5. alive = TRUE /\ http = FALSE /\ leasable = FALSE /\ put_off = FALSE /\ flushing = FALSE
  BY DEF Drain!Init
<1>6. Drain!TypeOK
  BY <1>2, <1>3, <1>4, <1>5 DEF Drain!TypeOK, DrainCheck
<1> QED BY <1>4, <1>5, <1>6 DEF DrainInv, PutOffWaits, RunsSince, HeldIsWatched, Drain!Holds

(* What a stop leaves: a receiver that does not run, and a check of its    *)
(* generation if it ever was started.                                      *)
LEMMA StopLeaves ==
  ASSUME Drain!DrainAssumption, DrainInv, Drain!StopNow, UNCHANGED generation
  PROVE  /\ checks' \in [1..MaxStops -> DrainCheck] /\ http' = FALSE /\ leasable' = FALSE
         /\ stopped' = generation
         /\ generation > 0 => HasCheck(generation)'
<1> USE DEF Drain!DrainAssumption
<1>1. checks \in [1..MaxStops -> DrainCheck] /\ generation \in 0..MaxStarts
  BY DEF DrainInv, Drain!TypeOK, DrainCheck
<1>2. http' = FALSE /\ leasable' = FALSE /\ stopped' = generation
  BY DEF Drain!StopNow
<1>3. CASE generation = 0
  BY <1>1, <1>2, <1>3 DEF Drain!StopNow
<1>4. CASE generation # 0
  <2> DEFINE c == [generation |-> generation, attempt |-> 0, queued |-> TRUE]
  <2>1. PICK i \in Drain!Unused : checks' = [checks EXCEPT ![i] = c]
    BY <1>4 DEF Drain!StopNow
  <2>2. i \in 1..MaxStops
    BY DEF Drain!Unused
  <2>3. c \in DrainCheck
    BY <1>1 DEF DrainCheck
  <2>4. c.generation = generation /\ c.queued
    OBVIOUS
  <2> HIDE DEF c
  <2>5. checks' \in [1..MaxStops -> DrainCheck] /\ checks'[i] = c
    BY <1>1, <2>1, <2>2, <2>3
  <2>6. HasCheck(generation)'
    BY <2>2, <2>4, <2>5 DEF HasCheck
  <2> QED BY <1>2, <2>5, <2>6
<1> QED BY <1>3, <1>4

(* A check that is over although its stopped receiver still holds          *)
(* connections was the last; any other comes again.                        *)
LEMMA CheckLeaves ==
  ASSUME Drain!DrainAssumption, DrainInv, NEW i \in 1..MaxStops, Drain!drain_server(i)
  PROVE  checks' \in [1..MaxStops -> DrainCheck] /\ HeldIsWatched'
<1> USE DEF Drain!DrainAssumption
<1> DEFINE c == checks[i]
           d == IF ~Drain!Over(c) THEN [c EXCEPT !.attempt = @ + 1] ELSE [c EXCEPT !.queued = FALSE]
<1>1. checks \in [1..MaxStops -> DrainCheck] /\ c \in DrainCheck /\ c.queued
  BY DEF DrainInv, Drain!TypeOK, DrainCheck, Drain!drain_server
<1>2. checks' = [checks EXCEPT ![i] = d]
  BY DEF Drain!drain_server, Drain!Again
<1>3. CASE Drain!Over(c)
  <2>1. d = [c EXCEPT !.queued = FALSE]
    BY <1>3
  <2>2. d \in DrainCheck /\ d.generation = c.generation /\ d.attempt = c.attempt
    BY <1>1, <2>1 DEF DrainCheck
  <2>3. Drain!Holds /\ c.generation = generation => c.attempt = ATTEMPTS
    <3>1. c.attempt \in 0..ATTEMPTS
      BY <1>1 DEF DrainCheck
    <3> QED BY <1>3, <3>1 DEF Drain!Over, Drain!Holds
  <2> HIDE DEF c, d
  <2>4. checks' \in [1..MaxStops -> DrainCheck] /\ checks'[i] = d
        /\ \A j \in (1..MaxStops) \ {i} : checks'[j] = checks[j]
    BY <1>1, <1>2, <2>2
  <2>5. ASSUME Drain!Holds PROVE HasCheck(generation)'
    <3>1. HasCheck(generation) /\ generation' = generation
      BY <2>5 DEF DrainInv, HeldIsWatched, Drain!drain_server
    <3>2. PICK j \in 1..MaxStops : checks[j].generation = generation /\ (checks[j].queued \/ checks[j].attempt = ATTEMPTS)
      BY <3>1 DEF HasCheck
    <3>3. CASE j = i
      <4>1. checks'[i].generation = generation /\ checks'[i].attempt = ATTEMPTS
        BY <2>2, <2>3, <2>4, <2>5, <3>2, <3>3 DEF c
      <4> QED BY <3>1, <4>1 DEF HasCheck
    <3>4. CASE j # i
      BY <2>4, <3>1, <3>2, <3>4 DEF HasCheck
    <3> QED BY <3>3, <3>4
  <2>6. Drain!Holds' => Drain!Holds
    BY DEF Drain!Holds, Drain!drain_server
  <2> QED BY <2>4, <2>5, <2>6 DEF HeldIsWatched
<1>4. CASE ~Drain!Over(c)
  <2>1. d = [c EXCEPT !.attempt = @ + 1]
    BY <1>4
  <2>2. c.attempt \in 0..ATTEMPTS /\ ~(c.attempt >= ATTEMPTS) /\ c.generation = generation
    BY <1>1, <1>4 DEF Drain!Over, DrainCheck
  <2>3. c.attempt + 1 \in 0..ATTEMPTS
    BY <2>2
  <2>4. d \in DrainCheck /\ d.generation = generation /\ d.queued
    BY <1>1, <2>1, <2>2, <2>3 DEF DrainCheck
  <2> HIDE DEF c, d
  <2>5. checks' \in [1..MaxStops -> DrainCheck] /\ checks'[i] = d /\ generation' = generation
    BY <1>1, <1>2, <2>4 DEF Drain!drain_server
  <2>6. HasCheck(generation)'
    BY <2>4, <2>5 DEF HasCheck
  <2> QED BY <2>5, <2>6 DEF HeldIsWatched
<1> QED BY <1>3, <1>4

LEMMA DrainKept ==
  ASSUME Drain!DrainAssumption, DrainInv, [Drain!Next]_(Drain!vars)
  PROVE  DrainInv'
<1> USE DEF Drain!DrainAssumption
<1>0. /\ alive \in BOOLEAN /\ http \in BOOLEAN /\ conns \subseteq Conns /\ closing \subseteq conns
      /\ receives \subseteq Conns /\ leases \subseteq receives
      /\ leasable \in BOOLEAN /\ put_off \in BOOLEAN /\ flushing \in BOOLEAN
      /\ generation \in 0..MaxStarts /\ stopped \in 0..generation
      /\ checks \in [1..MaxStops -> DrainCheck]
  BY DEF DrainInv, Drain!TypeOK, DrainCheck
<1>1. CASE UNCHANGED Drain!vars
  BY <1>1 DEF Drain!vars, DrainInv, Drain!TypeOK, PutOffWaits, RunsSince, HeldIsWatched, HasCheck, Drain!Holds
<1>2. ASSUME NEW radio \in BOOLEAN, Drain!start_server(radio) PROVE DrainInv'
  <2>1. generation' = generation + 1 /\ generation' \in 0..MaxStarts /\ stopped' = stopped /\ stopped' \in 0..generation'
    BY <1>0, <1>2 DEF Drain!start_server
  <2>2. http' \in BOOLEAN /\ leasable' \in BOOLEAN /\ put_off' \in BOOLEAN /\ (put_off' => put_off)
    BY <1>0, <1>2 DEF Drain!start_server
  <2>3. UNCHANGED <<alive, conns, closing, receives, leases, flushing, checks>>
    BY <1>2 DEF Drain!start_server, Drain!tableVars
  <2>4. Drain!TypeOK'
    BY <1>0, <2>1, <2>2, <2>3 DEF Drain!TypeOK, DrainCheck
  <2>5. stopped' < generation'
    BY <1>0, <2>1
  <2>6. PutOffWaits'
    BY <2>2, <2>3 DEF DrainInv, PutOffWaits
  <2>7. RunsSince'
    BY <2>5 DEF RunsSince
  <2>8. ~(stopped' = generation')
    BY <1>0, <2>1
  <2>9. HeldIsWatched'
    BY <2>8 DEF HeldIsWatched, Drain!Holds
  <2> QED BY <2>4, <2>6, <2>7, <2>9 DEF DrainInv
<1>3. CASE Drain!stop_server
  <2>1. UNCHANGED <<alive, conns, closing, receives, leases, flushing, generation>>
    BY <1>3 DEF Drain!stop_server, Drain!tableVars
  <2>2. CASE leases # {}
    <3>1. put_off' = TRUE /\ UNCHANGED <<http, leasable, stopped, checks>> /\ receives # {}
      BY <1>0, <1>3, <2>2 DEF Drain!stop_server
    <3>2. Drain!TypeOK'
      BY <1>0, <2>1, <3>1 DEF Drain!TypeOK, DrainCheck
    <3> QED BY <2>1, <3>1, <3>2 DEF DrainInv, PutOffWaits, RunsSince, HeldIsWatched, HasCheck, Drain!Holds
  <2>3. CASE leases = {}
    <3>1. Drain!StopNow /\ put_off' = put_off
      BY <1>3, <2>3 DEF Drain!stop_server
    <3>2. /\ checks' \in [1..MaxStops -> DrainCheck] /\ http' = FALSE /\ leasable' = FALSE
          /\ stopped' = generation /\ (generation > 0 => HasCheck(generation)')
      BY <2>1, <3>1, StopLeaves
    <3>3. generation' \in 0..MaxStarts /\ stopped' \in 0..generation'
      BY <1>0, <2>1, <3>2
    <3>a. Drain!TypeOK'
      BY <1>0, <2>1, <3>1, <3>2, <3>3 DEF Drain!TypeOK, DrainCheck
    <3>4. PutOffWaits' /\ RunsSince'
      BY <2>1, <3>1, <3>2 DEF DrainInv, PutOffWaits, RunsSince
    <3>5. HeldIsWatched'
      BY <2>1, <3>2 DEF HeldIsWatched, Drain!Holds
    <3> QED BY <3>a, <3>4, <3>5 DEF DrainInv
  <2> QED BY <2>2, <2>3
<1>4. CASE Drain!flush_transfer_servers
  <2>1. flushing' = FALSE /\ UNCHANGED <<alive, conns, closing, receives, leases, generation>>
    BY <1>4 DEF Drain!flush_transfer_servers, Drain!tableVars
  <2>2. CASE receives = {} /\ put_off
    <3>1. Drain!StopNow /\ put_off' = FALSE
      BY <1>4, <2>2 DEF Drain!flush_transfer_servers
    <3>2. /\ checks' \in [1..MaxStops -> DrainCheck] /\ http' = FALSE /\ leasable' = FALSE
          /\ stopped' = generation /\ (generation > 0 => HasCheck(generation)')
      BY <2>1, <3>1, StopLeaves
    <3>3. generation' \in 0..MaxStarts /\ stopped' \in 0..generation'
      BY <1>0, <2>1, <3>2
    <3>a. Drain!TypeOK'
      BY <1>0, <2>1, <3>1, <3>2, <3>3 DEF Drain!TypeOK, DrainCheck
    <3>4. PutOffWaits' /\ RunsSince'
      BY <3>1, <3>2 DEF PutOffWaits, RunsSince
    <3>5. HeldIsWatched'
      BY <2>1, <3>2 DEF HeldIsWatched, Drain!Holds
    <3> QED BY <3>a, <3>4, <3>5 DEF DrainInv
  <2>3. CASE ~(receives = {} /\ put_off)
    <3>1. UNCHANGED <<put_off, http, leasable, stopped, checks>>
      BY <1>4, <2>3 DEF Drain!flush_transfer_servers
    <3>2. Drain!TypeOK'
      BY <1>0, <2>1, <3>1 DEF Drain!TypeOK, DrainCheck
    <3> QED BY <2>1, <2>3, <3>1, <3>2 DEF DrainInv, PutOffWaits, RunsSince, HeldIsWatched, HasCheck, Drain!Holds
  <2> QED BY <2>2, <2>3
<1>5. CASE Drain!Destroyed
  <2>1. /\ alive' = FALSE /\ conns' = {} /\ closing' = {} /\ ~put_off
        /\ UNCHANGED <<http, receives, leases, leasable, put_off, flushing, generation, stopped, checks>>
    BY <1>5 DEF Drain!Destroyed
  <2>2. Drain!TypeOK'
    BY <1>0, <2>1 DEF Drain!TypeOK, DrainCheck
  <2> QED BY <2>1, <2>2 DEF DrainInv, PutOffWaits, RunsSince, HeldIsWatched, Drain!Holds
<1>6. ASSUME NEW i \in 1..MaxStops, Drain!drain_server(i) PROVE DrainInv'
  <2>1. /\ UNCHANGED <<alive, http, conns, receives, leases, leasable, put_off, flushing, generation, stopped>>
        /\ closing' \subseteq conns
    BY <1>0, <1>6 DEF Drain!drain_server
  <2>2. checks' \in [1..MaxStops -> DrainCheck] /\ HeldIsWatched'
    BY <1>6, CheckLeaves
  <2>3. Drain!TypeOK'
    BY <1>0, <2>1, <2>2 DEF Drain!TypeOK, DrainCheck
  <2> QED BY <2>1, <2>2, <2>3 DEF DrainInv, PutOffWaits, RunsSince
<1>7. ASSUME NEW c \in Conns, Drain!Connects(c) PROVE DrainInv'
  <2>1. /\ http /\ conns' = conns \cup {c}
        /\ UNCHANGED <<alive, http, closing, receives, leases, leasable, put_off, flushing, generation, stopped, checks>>
    BY <1>7 DEF Drain!Connects
  <2>2. Drain!TypeOK'
    BY <1>0, <2>1 DEF Drain!TypeOK, DrainCheck
  <2> QED BY <2>1, <2>2 DEF DrainInv, PutOffWaits, RunsSince, HeldIsWatched, Drain!Holds
<1>8. ASSUME NEW c \in Conns, Drain!begin_transfer(c) PROVE DrainInv'
  <2>1. /\ receives' = receives \cup {c} /\ leases' \subseteq leases \cup {c}
        /\ UNCHANGED <<alive, http, conns, closing, leasable, put_off, flushing, generation, stopped, checks>>
    BY <1>0, <1>8 DEF Drain!begin_transfer
  <2>2. Drain!TypeOK'
    BY <1>0, <2>1 DEF Drain!TypeOK, DrainCheck
  <2> QED BY <2>1, <2>2 DEF DrainInv, PutOffWaits, RunsSince, HeldIsWatched, HasCheck, Drain!Holds
<1>9. ASSUME NEW c \in Conns, Drain!ReceiveEnds(c) \/ Drain!Closes(c) PROVE DrainInv'
  <2>1. /\ receives' = receives \ {c} /\ leases' = leases \ {c} /\ flushing' = (flushing \/ c \in receives)
        /\ UNCHANGED <<alive, http, leasable, put_off, generation, stopped, checks>>
    BY <1>9 DEF Drain!ReceiveEnds, Drain!Closes, Drain!finish
  <2>2. conns' \subseteq conns /\ closing' \subseteq conns'
    BY <1>0, <1>9 DEF Drain!ReceiveEnds, Drain!Closes
  <2>3. Drain!TypeOK'
    BY <1>0, <2>1, <2>2 DEF Drain!TypeOK, DrainCheck
  <2>4. PutOffWaits'
    BY <2>1 DEF DrainInv, PutOffWaits
  <2>5. Drain!Holds' => Drain!Holds
    BY <2>1, <2>2 DEF Drain!Holds
  <2> QED BY <2>1, <2>3, <2>4, <2>5 DEF DrainInv, RunsSince, HeldIsWatched, HasCheck
<1> QED BY <1>1, <1>2, <1>3, <1>4, <1>5, <1>6, <1>7, <1>8, <1>9 DEF Drain!Next

(* A stopped receiver that still holds connections always has a check to   *)
(* come, until its checks have come as often as they may, and a stop that  *)
(* was put off always has a receive or a flush before it that will make it,*)
(* however starts, stops and receives alternate (AQServerDrain.inc:35,     *)
(* AQTransferLease.inc:24).                                                *)
THEOREM HeldHasCheck ==
  ASSUME Drain!DrainAssumption
  PROVE  Drain!Spec => [](Drain!TypeOK /\ PutOffWaits /\ HeldIsWatched)
<1>1. DrainInv => Drain!TypeOK /\ PutOffWaits /\ HeldIsWatched
  BY DEF DrainInv
<1> QED BY <1>1, DrainStarts, DrainKept, PTL DEF Drain!Spec
=============================================================================

------------------------ MODULE SubmissionPoolProofs ------------------------
(***************************************************************************)
(* For every number of packets, serials, receipts and releases: the pool   *)
(* keeps its types and never queues a save without its restore, and while  *)
(* the watchdog has signalled nothing from the CPU no packet is reused     *)
(* before the GPU has run it, and no copy is reported complete that has    *)
(* not run.                                                                *)
(***************************************************************************)
EXTENDS SubmissionPool, TLAPS

USE PoolAssumption

(***************************************************************************)
(* The helpers keep the types.                                             *)
(***************************************************************************)

\* One packet's state changes keep it a packet.
LEMMA PacketTypes ==
  ASSUME NEW p \in Packet, NEW v \in 0..MaxReceipt
  PROVE  /\ quarantine(p) \in Packet /\ cancel(p) \in Packet /\ submit(p, v) \in Packet
         /\ quarantine(p).id = p.id /\ cancel(p).id = p.id /\ submit(p, v).id = p.id
         /\ quarantine(p).state = "quarantined" /\ ~quarantine(p).counted
<1>1. /\ quarantine(p) \in Packet /\ quarantine(p).id = p.id
      /\ quarantine(p).state = "quarantined" /\ ~quarantine(p).counted
  BY DEF quarantine, Packet, States
<1>2. cancel(p) \in Packet /\ cancel(p).id = p.id
  BY DEF cancel, Packet, States
<1>3. submit(p, v) \in Packet /\ submit(p, v).id = p.id
  <2>1. CASE p.state # "recorded" \/ v \in {0, Removed}
    BY <1>1, <2>1 DEF submit
  <2>2. CASE ~(p.state # "recorded" \/ v \in {0, Removed})
    BY <2>2 DEF submit, Packet, States
  <2>3. QED
    BY <2>1, <2>2
<1>4. QED
  BY <1>1, <1>2, <1>3

\* One or two elements of a set are a sequence over it.
LEMMA ShortSequences ==
  ASSUME NEW S, NEW x \in S, NEW y \in S
  PROVE  /\ << x >> \in Seq(S) /\ Len(<< x >>) = 1
         /\ << x, y >> \in Seq(S) /\ Len(<< x, y >>) = 2
  OBVIOUS

\* A planner's batch is a sequence of items with fresh serials.
LEMMA PlanTypes ==
  ASSUME planner \in Planner, planner.serial < MaxSerial, NEW plan \in Plans
  PROVE  /\ plan \in Seq(Item)
         /\ planner.serial + Len(plan) \in 0..MaxSerial
         /\ CountedIn(plan) \subseteq Serials
<1> DEFINE n == planner.serial + 1
           first(counted) == [id |-> n, counted |-> counted, needs |-> 0]
           second == [id |-> n + 1, counted |-> TRUE, needs |-> n]
<1>1. n \in Serials /\ planner.serial \in Nat
  BY DEF Planner, Serials
<1>2. first(TRUE) \in Item /\ first(FALSE) \in Item
  BY <1>1 DEF Item
<1>3. n < MaxSerial => second \in Item
  BY <1>1 DEF Item, Serials
<1>4. \/ plan = << first(TRUE) >>
      \/ plan = << first(FALSE) >>
      \/ n < MaxSerial /\ plan = << first(TRUE), second >>
  BY DEF Plans
<1> HIDE DEF first, second
<1>5. plan \in Seq(Item) /\ (Len(plan) = 1 \/ (n < MaxSerial /\ Len(plan) = 2))
  BY <1>2, <1>3, <1>4, ShortSequences
<1>6. planner.serial + Len(plan) \in 0..MaxSerial
  <2>1. CASE Len(plan) = 1
    BY <1>1, <2>1
  <2>2. CASE n < MaxSerial /\ Len(plan) = 2
    BY <1>1, <2>2
  <2>3. QED
    BY <1>5, <2>1, <2>2
<1>7. \A i \in DOMAIN plan : plan[i] \in Item
  BY <1>5
<1>8. CountedIn(plan) \subseteq Serials
  BY <1>7 DEF CountedIn, Item
<1>9. QED
  BY <1>5, <1>6, <1>8

\* Reports keep the planner's counters and the history in their types.
LEMMA ReportTypes ==
  ASSUME TypeOK, NEW ids \in SUBSET Serials, Dropping(ids) \/ Completing(ids)
  PROVE  planner' \in Planner /\ fate' \in [Serials -> SUBSET {"counted", "completed", "dropped"}]
  BY DEF TypeOK, Dropping, Completing, Planner, Marked

\* Only a packet that holds a copy owes an answer or awaits the GPU.
Named ==
  \A s \in Slots :
    packets[s].counted \/ packets[s].state = "recorded" => packets[s].id # 0

\* An open receipt's slots hold its recorded packets, and it signals the value
\* after the last one; no wait is published past that value.
Receipts ==
  /\ tx.phase = "none" => tx.slots = {}
  /\ tx.phase # "none" => tx.value = device.lastSignal + 1
  /\ \A s \in tx.slots : packets[s].state = "recorded"
  /\ device.waited <= device.lastSignal

Typed == TypeOK /\ Named /\ Receipts

LEMMA OwedTypes ==
  ASSUME Typed, NEW slots \in SUBSET Slots
  PROVE  Owed(slots) \subseteq Serials
  BY DEF Typed, TypeOK, Named, Owed, Packet, Serials

(***************************************************************************)
(* Every action keeps the types.                                           *)
(***************************************************************************)

LEMMA PlanWithoutReceiptTyped ==
  ASSUME Typed, NEW waitFailed \in BOOLEAN, PlanWithoutReceipt(waitFailed)
  PROVE  Typed'
<1>1. PICK plan \in Plans, n \in 0..MaxSerial :
        /\ planner' = [planner EXCEPT !.serial = @ + Len(plan), !.dropped = n]
        /\ fate' = Marked(CountedIn(plan), {"counted", "dropped"})
  BY DEF PlanWithoutReceipt
<1>2. /\ planner.serial + Len(plan) \in 0..MaxSerial
      /\ CountedIn(plan) \subseteq Serials
  BY PlanTypes DEF Typed, TypeOK, PlanWithoutReceipt
<1>3. planner' \in Planner
  BY <1>1, <1>2 DEF Typed, TypeOK, Planner
<1>4. fate' \in [Serials -> SUBSET {"counted", "completed", "dropped"}]
  BY <1>1 DEF Typed, TypeOK, Marked
<1>5. device' \in Timeline
  BY DEF PlanWithoutReceipt, Typed, TypeOK, Timeline
<1>6. /\ UNCHANGED <<packets, tx, gpu>>
      /\ device'.lastSignal = device.lastSignal /\ device'.waited = device.waited
  BY DEF PlanWithoutReceipt, Typed, TypeOK, Timeline
<1>7. QED
  BY <1>3, <1>4, <1>5, <1>6 DEF Typed, TypeOK, Named, Receipts

LEMMA BeginTyped == ASSUME Typed, Begin PROVE Typed'
<1>1. PICK plan \in Plans :
        /\ planner' = [planner EXCEPT !.serial = @ + Len(plan)]
        /\ fate' = Marked(CountedIn(plan), {"counted"})
        /\ tx' = [NoTx EXCEPT !.phase = "recording", !.todo = plan,
                              !.value = device.lastSignal + 1]
  BY DEF Begin
<1>2. plan \in Seq(Item) /\ planner.serial + Len(plan) \in 0..MaxSerial
  BY PlanTypes DEF Typed, TypeOK, Begin
<1>3. planner' \in Planner
  BY <1>1, <1>2 DEF Typed, TypeOK, Planner
<1>4. /\ tx' = [phase |-> "recording", value |-> device.lastSignal + 1, todo |-> plan,
                unrecorded |-> {}, slots |-> {}, accepted |-> FALSE, refused |-> FALSE]
  BY <1>1 DEF NoTx
<1>4a. device.lastSignal + 1 \in Values
  BY DEF Begin, Values, Typed, TypeOK, Timeline
<1>5. tx' \in Receipt
  BY <1>2, <1>4, <1>4a DEF Receipt, Values
<1>6. device' \in Timeline /\ gpu' \in Gpu
  BY <1>4a DEF Begin, Typed, TypeOK, Timeline, Gpu
<1>7. device'.waited <= device'.lastSignal /\ device'.lastSignal = device.lastSignal
  BY DEF Begin, Typed, TypeOK, Timeline, Receipts
<1>8. packets' = packets /\ fate' \in [Serials -> SUBSET {"counted", "completed", "dropped"}]
  BY <1>1 DEF Begin, Marked, Typed, TypeOK
<1>9. QED
  BY <1>3, <1>4, <1>5, <1>6, <1>7, <1>8 DEF Typed, TypeOK, Named, Receipts

\* The first of the items left to record, and the rest.
LEMMA HeadTail ==
  ASSUME TypeOK, tx.todo # << >>
  PROVE  Head(tx.todo) \in Item /\ Tail(tx.todo) \in Seq(Item)
  BY DEF TypeOK, Receipt

\* Recording keeps the serial and never adds a report.
LEMMA RecordableTypes ==
  ASSUME NEW item \in Item
  PROVE  /\ Recordable(item) \in Item
         /\ Recordable(item).id = item.id
         /\ Recordable(item).id # 0
<1>1. CASE Stripped(item)
  <2>1. Recordable(item) = [item EXCEPT !.needs = 0, !.counted = FALSE]
    BY <1>1 DEF Recordable
  <2>2. Recordable(item) = [id |-> item.id, counted |-> FALSE, needs |-> 0]
    BY <2>1 DEF Item
  <2>3. QED
    BY <2>2 DEF Item, Serials
<1>2. CASE ~Stripped(item)
  BY <1>2 DEF Recordable, Item, Serials
<1>3. QED
  BY <1>1, <1>2

LEMMA RecordTyped ==
  ASSUME Typed, NEW closed \in BOOLEAN, Record(closed)
  PROVE  Typed'
<1> DEFINE item == Head(tx.todo)
           copy == Recordable(item)
           held == [state |-> "recorded", id |-> copy.id, counted |-> copy.counted,
                    needs |-> copy.needs, covering |-> 0]
<1>1. PICK s \in Slots :
        /\ packets[s].state = "ready"
        /\ packets' = [packets EXCEPT ![s] = IF closed THEN held ELSE quarantine(held)]
        /\ IF ~closed /\ copy.counted
           THEN Dropping({copy.id})
           ELSE UNCHANGED <<planner, fate>>
        /\ tx' = [tx EXCEPT !.todo = Tail(@),
                            !.slots = IF closed THEN @ \cup {s} ELSE @,
                            !.unrecorded = IF PlanStillOwes(item, copy)
                                           THEN @ \cup {item.id} ELSE @]
  BY DEF Record
<1>2. item \in Item /\ Tail(tx.todo) \in Seq(Item)
  BY HeadTail DEF Record, Typed
<1>3. copy \in Item /\ copy.id # 0 /\ copy.id \in Serials
  BY <1>2, RecordableTypes DEF Item
<1>4. held \in Packet /\ held.id # 0 /\ held.state = "recorded"
  BY <1>3 DEF Item, Packet, States, Serials
<1>5. quarantine(held) \in Packet /\ quarantine(held).id # 0
  <2> HIDE DEF held
  <2>1. QED
    BY <1>4, PacketTypes
<1> HIDE DEF held, copy, item
<1>6. packets' \in [Slots -> Packet]
  BY <1>1, <1>4, <1>5 DEF Typed, TypeOK
<1>7. planner' \in Planner /\ fate' \in [Serials -> SUBSET {"counted", "completed", "dropped"}]
  BY <1>1, <1>3, ReportTypes DEF Typed, TypeOK
<1>8. tx' \in Receipt
  <2>1. item.id \in Serials
    BY <1>2 DEF Item
  <2>2. QED
    BY <1>1, <1>2, <2>1 DEF Typed, TypeOK, Receipt
<1>9. UNCHANGED <<device, gpu>> /\ tx.phase = "recording"
  BY DEF Record
<1>10. Named'
  BY <1>1, <1>4, <1>5 DEF Named, Typed, TypeOK
<1>11. Receipts'
  <2>1. /\ tx'.phase = "recording" /\ tx'.value = tx.value
        /\ tx'.slots = IF closed THEN tx.slots \cup {s} ELSE tx.slots
    BY <1>1, <1>9 DEF Typed, TypeOK, Receipt
  <2>2. \A t \in tx'.slots : packets'[t].state = "recorded"
    BY <1>1, <1>4, <2>1 DEF Typed, TypeOK, Receipts, Receipt
  <2>3. QED
    BY <1>9, <2>1, <2>2 DEF Typed, Receipts
<1>12. QED
  BY <1>6, <1>7, <1>8, <1>9, <1>10, <1>11 DEF Typed, TypeOK

LEMMA UnrecordedTyped ==
  ASSUME Typed, NEW invalid \in BOOLEAN, Unrecorded(invalid)
  PROVE  Typed'
<1>1. Head(tx.todo) \in Item /\ Tail(tx.todo) \in Seq(Item)
  BY HeadTail DEF Unrecorded, Typed
<1>2. Head(tx.todo).id \in Serials
  BY <1>1 DEF Item
<1>3. /\ tx' \in Receipt
      /\ tx'.phase = tx.phase /\ tx'.value = tx.value /\ tx'.slots = tx.slots
  BY <1>1, <1>2 DEF Unrecorded, Typed, TypeOK, Receipt
<1>4. UNCHANGED <<packets, planner, fate, device, gpu>>
  BY DEF Unrecorded
<1>5. QED
  BY <1>3, <1>4 DEF Typed, TypeOK, Named, Receipts

LEMMA EndPlanTyped == ASSUME Typed, EndPlan PROVE Typed'
<1>1. /\ tx' \in Receipt /\ tx'.phase = "recorded" /\ tx.phase = "recording"
      /\ tx'.value = tx.value /\ tx'.slots = tx.slots
  BY DEF EndPlan, Typed, TypeOK, Receipt
<1>2. planner' \in Planner /\ fate' \in [Serials -> SUBSET {"counted", "completed", "dropped"}]
  BY ReportTypes DEF EndPlan, Typed, TypeOK, Receipt
<1>3. UNCHANGED <<packets, device, gpu>>
  BY DEF EndPlan
<1>4. QED
  BY <1>1, <1>2, <1>3 DEF Typed, TypeOK, Named, Receipts

LEMMA ForwardTyped ==
  ASSUME Typed, NEW accepted \in BOOLEAN, NEW executed \in BOOLEAN, NEW refused \in BOOLEAN,
         Forward(accepted, executed, refused)
  PROVE  Typed'
<1> DEFINE new == {[slot |-> s, id |-> packets[s].id, needs |-> packets[s].needs,
                    value |-> tx.value] : s \in tx.slots}
<1>1. /\ tx' \in Receipt /\ tx'.phase = "forwarded" /\ tx.phase = "recorded"
      /\ tx'.value = tx.value /\ tx'.slots = tx.slots
  BY DEF Forward, Typed, TypeOK, Receipt
<1>2. tx.value \in Values
  BY <1>1 DEF Typed, TypeOK, Receipts, Receipt, Timeline, Values
<1>3. ASSUME NEW s \in tx.slots
      PROVE  s \in Slots /\ packets[s].id \in Serials /\ packets[s].needs \in 0..MaxSerial
  BY DEF Typed, TypeOK, Receipts, Named, Receipt, Packet, Serials
<1>4. new \subseteq Copy
  BY <1>2, <1>3 DEF Copy
<1>5. gpu' = [gpu EXCEPT !.copies = @ \cup new] \/ gpu' = gpu
  BY DEF Forward
<1> HIDE DEF new
<1>6. gpu' \in Gpu
  BY <1>4, <1>5 DEF Typed, TypeOK, Gpu
<1>7. UNCHANGED <<packets, planner, fate, device>>
  BY DEF Forward
<1>8. QED
  BY <1>1, <1>6, <1>7 DEF Typed, TypeOK, Named, Receipts

\* What finish_transaction leaves of a recorded packet.
LEMMA SettledTypes ==
  ASSUME NEW p \in Packet, p.state = "recorded", NEW v \in Values,
         NEW signaled \in BOOLEAN, NEW refused \in BOOLEAN, NEW accepted \in BOOLEAN
  PROVE  LET q == Settled(p, signaled, refused, accepted, v) IN
         /\ q \in Packet /\ q.id = p.id
         /\ \/ q.state = "quarantined" /\ (~signaled \/ refused)
            \/ q.state = "submitted" /\ q.covering = v /\ q.counted = p.counted
                 /\ signaled /\ ~refused /\ accepted
            \/ q.state = "retired" /\ ~accepted
         /\ q.state # "submitted" => ~q.counted
<1>1. v \in 0..MaxReceipt /\ v # 0 /\ v # Removed
  BY DEF Values, Removed
<1>2. CASE ~signaled \/ refused
  BY <1>1, <1>2, PacketTypes DEF Settled
<1>3. CASE signaled /\ ~refused /\ accepted
  <2>1. Settled(p, signaled, refused, accepted, v)
          = [p EXCEPT !.state = "submitted", !.covering = v]
    BY <1>1, <1>3 DEF Settled, submit
  <2>2. QED
    BY <1>1, <1>3, <2>1 DEF Packet, States
<1>4. CASE signaled /\ ~refused /\ ~accepted
  <2>1. Settled(p, signaled, refused, accepted, v)
          = [p EXCEPT !.state = "retired", !.counted = FALSE]
    BY <1>4 DEF Settled, cancel
  <2>2. QED
    BY <1>4, <2>1 DEF Packet, States
<1>5. QED
  BY <1>2, <1>3, <1>4

\* Finish settles exactly the open receipt's packets.
LEMMA FinishEffect ==
  ASSUME Typed, NEW signaled \in BOOLEAN, Finish(signaled)
  PROVE  LET refused == tx.refused \/ device.failed IN
         /\ tx.phase = "forwarded" /\ tx' = NoTx /\ tx.value \in Values
         /\ packets' = [s \in Slots |->
               IF s \in tx.slots THEN Settled(packets[s], signaled, refused, tx.accepted, tx.value)
                                 ELSE packets[s]]
         /\ \E lost \in SUBSET Slots :
               /\ Dropping(Owed(lost))
               /\ lost = {s \in tx.slots : packets'[s].state # "submitted"}
<1> DEFINE refused == tx.refused \/ device.failed
           settled == [s \in tx.slots |->
                        Settled(packets[s], signaled, refused, tx.accepted, tx.value)]
           lost == {s \in tx.slots : settled[s].state # "submitted"}
<1>1. /\ packets' = [s \in Slots |-> IF s \in tx.slots THEN settled[s] ELSE packets[s]]
      /\ Dropping(Owed(lost)) /\ tx.phase = "forwarded" /\ tx' = NoTx
  BY DEF Finish
<1>2. tx.slots \subseteq Slots
  BY DEF Typed, TypeOK, Receipt
<1>3. tx.value \in Values
  BY <1>1 DEF Typed, TypeOK, Receipts, Receipt, Timeline, Values
<1>4. lost = {s \in tx.slots : packets'[s].state # "submitted"}
  BY <1>1, <1>2
<1>5. lost \in SUBSET Slots
  BY <1>2
<1>6. packets' = [s \in Slots |->
         IF s \in tx.slots THEN Settled(packets[s], signaled, refused, tx.accepted, tx.value)
                           ELSE packets[s]]
  BY <1>1
<1> HIDE DEF lost
<1>7. QED
  BY <1>1, <1>3, <1>4, <1>5, <1>6

LEMMA FinishTyped ==
  ASSUME Typed, NEW signaled \in BOOLEAN, Finish(signaled)
  PROVE  Typed'
<1> DEFINE refused == tx.refused \/ device.failed
<1>1. /\ tx.phase = "forwarded" /\ tx' = NoTx /\ tx.value \in Values
      /\ packets' = [s \in Slots |->
            IF s \in tx.slots THEN Settled(packets[s], signaled, refused, tx.accepted, tx.value)
                              ELSE packets[s]]
  BY FinishEffect
<1>2. PICK lost \in SUBSET Slots : Dropping(Owed(lost))
  BY FinishEffect
<1>3. refused \in BOOLEAN /\ tx.accepted \in BOOLEAN
  BY DEF Typed, TypeOK, Receipt, Timeline
<1> HIDE DEF refused
<1>4. ASSUME NEW s \in tx.slots
      PROVE  /\ packets'[s] \in Packet /\ packets'[s].id = packets[s].id
             /\ packets'[s].id # 0
  <2>1. packets[s] \in Packet /\ packets[s].state = "recorded" /\ s \in Slots
    BY DEF Typed, TypeOK, Receipts, Receipt
  <2>2. QED
    BY <1>1, <1>3, <2>1, SettledTypes DEF Typed, Named
<1>5. packets' \in [Slots -> Packet] /\ Named'
  BY <1>1, <1>4 DEF Typed, TypeOK, Named
<1>6. planner' \in Planner /\ fate' \in [Serials -> SUBSET {"counted", "completed", "dropped"}]
  BY <1>2, OwedTypes, ReportTypes DEF Typed
<1>7. device' \in Timeline /\ device'.waited <= device'.lastSignal
  <2>1. device' = IF signaled THEN [device EXCEPT !.lastSignal = tx.value]
                              ELSE [device EXCEPT !.failed = TRUE]
    BY DEF Finish
  <2>2. tx.value = device.lastSignal + 1 /\ tx.value \in 0..MaxReceipt
    BY <1>1 DEF Typed, Receipts, Values
  <2>3. CASE signaled
    BY <2>1, <2>2, <2>3 DEF Typed, TypeOK, Receipts, Timeline
  <2>4. CASE ~signaled
    BY <2>1, <2>4 DEF Typed, TypeOK, Receipts, Timeline
  <2>5. QED
    BY <2>3, <2>4
<1>8. gpu' \in Gpu
  <2>1. gpu' = IF signaled THEN [gpu EXCEPT !.signals = @ \cup {tx.value}] ELSE gpu
    BY DEF Finish
  <2>2. QED
    BY <1>1, <2>1 DEF Typed, TypeOK, Gpu
<1>9. tx' \in Receipt /\ tx'.phase = "none" /\ tx'.slots = {}
  BY <1>1 DEF NoTx, Receipt
<1>10. QED
  BY <1>5, <1>6, <1>7, <1>8, <1>9 DEF Typed, TypeOK, Receipts

\* A served packet is blank, ready or quarantined; the others are untouched.
LEMMA ServiceEffect ==
  ASSUME Typed, Service, device.timeline # Removed
  PROVE  /\ Completing(Owed(Covered(device.timeline)))
         /\ \A s \in Slots :
              \/ packets'[s] = packets[s] /\ s \notin Serviceable(device.timeline)
              \/ /\ s \in Serviceable(device.timeline)
                 /\ packets'[s] \in {Blank("quarantined"), Blank("ready")}
         /\ DOMAIN packets' = Slots
  BY DEF Service

LEMMA ServiceTyped == ASSUME Typed, Service PROVE Typed'
<1>0. UNCHANGED <<tx, device, gpu>> /\ tx.slots = {}
  BY DEF Service, Typed, Receipts
<1>1. CASE device.timeline = Removed
  <2>1. packets' = [s \in Slots |-> quarantine(packets[s])]
    BY <1>1 DEF Service
  <2>2. Dropping(Owed({s \in Slots : Outstanding(packets[s])}))
    BY <1>1 DEF Service
  <2>3. packets' \in [Slots -> Packet] /\ Named'
    BY <2>1, PacketTypes DEF Typed, TypeOK, Named
  <2>4. planner' \in Planner /\ fate' \in [Serials -> SUBSET {"counted", "completed", "dropped"}]
    BY <2>2, OwedTypes, ReportTypes DEF Typed
  <2>5. QED
    BY <1>0, <2>3, <2>4 DEF Typed, TypeOK, Receipts
<1>2. CASE device.timeline # Removed
  <2>1. ASSUME NEW q \in {"ready", "quarantined"}
        PROVE  Blank(q) \in Packet /\ ~Blank(q).counted /\ Blank(q).state # "recorded"
    BY DEF Blank, Packet, States
  <2>2. ASSUME NEW s \in Slots
        PROVE  /\ packets'[s] \in Packet
               /\ packets'[s].counted \/ packets'[s].state = "recorded" => packets'[s].id # 0
    <3>1. CASE packets'[s] = packets[s]
      BY <3>1 DEF Typed, TypeOK, Named
    <3>2. CASE packets'[s] \in {Blank("quarantined"), Blank("ready")}
      BY <2>1, <3>2
    <3>3. QED
      BY <1>2, <3>1, <3>2, ServiceEffect
  <2>3. packets' \in [Slots -> Packet]
    <3>1. packets' = [s \in Slots |-> packets'[s]]
      BY <1>2 DEF Service
    <3>2. QED
      BY <2>2, <3>1
  <2>4. Covered(device.timeline) \in SUBSET Slots
    BY DEF Covered
  <2>5. planner' \in Planner /\ fate' \in [Serials -> SUBSET {"counted", "completed", "dropped"}]
    BY <1>2, <2>4, ServiceEffect, OwedTypes, ReportTypes DEF Typed
  <2>6. QED
    BY <1>0, <2>2, <2>3, <2>5 DEF Typed, TypeOK, Named, Receipts
<1>3. QED
  BY <1>1, <1>2

\* The watchdog, the GPU and the driver touch the timeline and the queues only.
LEMMA ExternalTyped ==
  ASSUME Typed,
         FailDevice \/ release_queued_waits \/ GpuStep \/ RemoveDevice
  PROVE  Typed'
<1>1. UNCHANGED <<packets, planner, fate, tx>>
  BY DEF FailDevice, release_queued_waits, GpuStep, RemoveDevice, PassWait, RunSignal, RunCopy
<1>2. device' \in Timeline /\ device'.lastSignal = device.lastSignal
        /\ device'.waited = device.waited
  <2>1. CASE FailDevice
    BY <2>1 DEF FailDevice, Typed, TypeOK, Timeline
  <2>2. CASE release_queued_waits
    <3>1. CASE device.timeline >= device.waited
      BY <2>2, <3>1 DEF release_queued_waits, Typed, TypeOK, Timeline
    <3>2. CASE ~(device.timeline >= device.waited)
      <4>1. /\ device.releases < MaxRelease
            /\ device' = [device EXCEPT !.released = device.waited,
                                        !.timeline = device.waited,
                                        !.releases = @ + 1]
        BY <2>2, <3>2 DEF release_queued_waits
      <4>2. device.waited \in 0..MaxReceipt /\ device.waited \in 0..Removed
              /\ device.releases + 1 \in 0..MaxRelease
        BY <4>1 DEF Typed, TypeOK, Timeline, Removed
      <4>3. QED
        BY <4>1, <4>2 DEF Typed, TypeOK, Timeline
    <3>3. QED
      BY <3>1, <3>2
  <2>3. ASSUME NEW v \in Values, RunSignal(v)
        PROVE  device' \in Timeline /\ device'.lastSignal = device.lastSignal
                 /\ device'.waited = device.waited
    BY <2>3 DEF RunSignal, Typed, TypeOK, Timeline, Values, Removed
  <2>4. CASE RemoveDevice
    BY <2>4 DEF RemoveDevice, Typed, TypeOK, Timeline, Removed
  <2>5. QED
    BY <2>1, <2>2, <2>3, <2>4 DEF GpuStep, PassWait, RunCopy, Typed, TypeOK
<1>3. gpu' \in Gpu
  <2>1. ASSUME NEW v \in Values, PassWait(v) \/ RunSignal(v) PROVE gpu' \in Gpu
    BY <2>1 DEF PassWait, RunSignal, Typed, TypeOK, Gpu
  <2>2. ASSUME NEW c \in gpu.copies, RunCopy(c) PROVE gpu' \in Gpu
    <3>1. c.id \in Serials
      BY DEF Typed, TypeOK, Gpu, Copy
    <3>2. QED
      BY <2>2, <3>1 DEF RunCopy, Typed, TypeOK, Gpu
  <2>3. QED
    BY <2>1, <2>2 DEF FailDevice, release_queued_waits, GpuStep, RemoveDevice, Typed, TypeOK
<1>4. QED
  BY <1>1, <1>2, <1>3 DEF Typed, TypeOK, Named, Receipts

LEMMA StepTyped == ASSUME Typed, Next PROVE Typed'
  BY PlanWithoutReceiptTyped, BeginTyped, RecordTyped, UnrecordedTyped, EndPlanTyped,
     ForwardTyped, FinishTyped, ServiceTyped, ExternalTyped DEF Next, ReceiptStep

LEMMA TypedAlways == Spec => []Typed
<1>1. Init => Typed
  <2> SUFFICES ASSUME Init PROVE Typed
    OBVIOUS
  <2>1. Blank("empty") \in Packet /\ ~Blank("empty").counted
          /\ Blank("empty").state = "empty"
    BY DEF Blank, Packet, States
  <2>2. packets \in [Slots -> Packet] /\ Named
    BY <2>1 DEF Init, Named
  <2>3. tx \in Receipt /\ planner \in Planner /\ device \in Timeline /\ gpu \in Gpu
    BY DEF Init, NoTx, Receipt, Planner, Timeline, Gpu, Removed
  <2>4. fate \in [Serials -> SUBSET {"counted", "completed", "dropped"}]
    BY DEF Init
  <2>5. Receipts
    BY DEF Init, NoTx, Receipts
  <2>6. QED
    BY <2>2, <2>3, <2>4, <2>5 DEF Typed, TypeOK
<1>2. Typed /\ [Next]_vars => Typed'
  <2> SUFFICES ASSUME Typed, [Next]_vars PROVE Typed'
    OBVIOUS
  <2>1. CASE UNCHANGED vars
    BY <2>1 DEF vars, Typed, TypeOK, Named, Receipts
  <2>2. QED
    BY <2>1, StepTyped
<1>3. QED
  BY <1>1, <1>2, PTL DEF Spec

\* The pool, the receipts, the counters and the queues keep their types, for
\* every number of packets and every bound.
THEOREM TypeCorrect == Spec => []TypeOK
<1>1. Typed => TypeOK
  BY DEF Typed
<1>2. QED
  BY <1>1, TypedAlways, PTL

(***************************************************************************)
(* While the watchdog releases nothing: the timeline follows the receipts, *)
(* so a covered packet's list has run.                                     *)
(***************************************************************************)

Honest == device.releases = 0

\* The Wait of receipt v is still queued, or the receipt before it is complete.
Behind(v) == v \in gpu.waits \/ v - 1 <= device.timeline

\* The timeline is behind every Signal and every copy the queues still hold.
Order ==
  device.timeline # Removed =>
    /\ device.timeline <= device.lastSignal
    /\ \A v \in gpu.signals : device.timeline < v /\ v <= device.lastSignal /\ Behind(v)
    /\ \A c \in gpu.copies : device.timeline < c.value
    /\ tx.phase # "none" => Behind(tx.value)

\* The packet of a queued copy still holds it: in the open receipt, under the
\* receipt that covers the copy, or for good.
Leases ==
  \A c \in gpu.copies :
    /\ packets[c.slot].id = c.id
    /\ \/ tx.phase = "forwarded" /\ tx.accepted /\ c.slot \in tx.slots /\ c.value = tx.value
       \/ packets[c.slot].state = "submitted" /\ packets[c.slot].covering = c.value
       \/ packets[c.slot].state = "quarantined"

\* The copy in slot s has run, or receipt v still holds it on a queue.
Under(s, v) ==
  \/ packets[s].id \in gpu.ran
  \/ \E c \in gpu.copies : c.slot = s /\ c.id = packets[s].id /\ c.value = v

\* A packet is submitted only for a list that was executed, and only copies that
\* ran were reported completed.
Evidence ==
  /\ \A s \in Slots : packets[s].state = "submitted" => Under(s, packets[s].covering)
  /\ tx.phase = "forwarded" /\ tx.accepted /\ ~tx.refused =>
       \A s \in tx.slots : Under(s, tx.value)
  /\ \A n \in Serials : "completed" \in fate[n] => n \in gpu.ran
  /\ planner.completed # 0 => planner.completed \in gpu.ran

Safe == Order /\ Leases /\ Evidence

\* The inductive invariant.
IInv == Typed /\ (Honest => Safe)

\* Reporting drops completes nothing.
LEMMA DroppingKeeps ==
  ASSUME Typed, NEW ids, Dropping(ids)
  PROVE  /\ planner'.completed = planner.completed
         /\ \A n \in Serials : "completed" \in fate'[n] => "completed" \in fate[n]
  BY DEF Dropping, Marked, Typed, TypeOK, Planner

\* Steps that leave packets, queues and timeline alone, before the forward.
LEMMA QuietSafe ==
  ASSUME Typed, Safe, UNCHANGED <<packets, gpu>>,
         device'.timeline = device.timeline, device'.lastSignal = device.lastSignal,
         planner'.completed = planner.completed,
         \A n \in Serials : "completed" \in fate'[n] => "completed" \in fate[n],
         \/ tx' = tx
         \/ /\ tx.phase = "recording" /\ tx'.phase \in {"recording", "recorded"}
            /\ tx'.value = tx.value
  PROVE  Safe'
<1>1. Order'
  BY DEF Safe, Order, Behind
<1>2. Leases'
  BY DEF Safe, Leases
<1>3. Evidence'
  BY DEF Safe, Evidence, Under
<1>4. QED
  BY <1>1, <1>2, <1>3 DEF Safe

LEMMA PlanWithoutReceiptSafe ==
  ASSUME Typed, Safe, NEW waitFailed \in BOOLEAN, PlanWithoutReceipt(waitFailed)
  PROVE  Safe'
<1>1. /\ planner'.completed = planner.completed
      /\ \A n \in Serials : "completed" \in fate'[n] => "completed" \in fate[n]
  BY DEF PlanWithoutReceipt, Marked, Typed, TypeOK, Planner
<1>2. UNCHANGED <<packets, gpu, tx>> /\ device'.timeline = device.timeline
        /\ device'.lastSignal = device.lastSignal
  BY DEF PlanWithoutReceipt, Typed, TypeOK, Timeline
<1>3. QED
  BY <1>1, <1>2, QuietSafe

LEMMA BeginSafe == ASSUME Typed, Safe, Begin PROVE Safe'
<1>1. /\ tx.phase = "none" /\ tx'.phase = "recording" /\ tx'.value = device.lastSignal + 1
      /\ gpu' = [gpu EXCEPT !.waits = @ \cup {device.lastSignal + 1}]
      /\ packets' = packets /\ planner'.completed = planner.completed
      /\ \A n \in Serials : "completed" \in fate'[n] => "completed" \in fate[n]
  BY DEF Begin, NoTx, Marked, Typed, TypeOK, Planner
<1>2. device'.timeline = device.timeline /\ device'.lastSignal = device.lastSignal
  BY DEF Begin, Typed, TypeOK, Timeline
<1>3. /\ gpu'.copies = gpu.copies /\ gpu'.signals = gpu.signals /\ gpu'.ran = gpu.ran
      /\ gpu.waits \subseteq gpu'.waits /\ tx'.value \in gpu'.waits
  BY <1>1 DEF Typed, TypeOK, Gpu
<1>4. Order'
  BY <1>1, <1>2, <1>3 DEF Safe, Order, Behind
<1>5. Leases'
  BY <1>1, <1>3 DEF Safe, Leases
<1>6. Evidence'
  BY <1>1, <1>3 DEF Safe, Evidence, Under
<1>7. QED
  BY <1>4, <1>5, <1>6 DEF Safe

LEMMA RecordSafe ==
  ASSUME Typed, Safe, NEW closed \in BOOLEAN, Record(closed)
  PROVE  Safe'
<1> DEFINE item == Head(tx.todo)
           copy == Recordable(item)
           held == [state |-> "recorded", id |-> copy.id, counted |-> copy.counted,
                    needs |-> copy.needs, covering |-> 0]
           kept == IF closed THEN held ELSE quarantine(held)
<1>1. PICK s \in Slots :
        /\ packets[s].state = "ready"
        /\ packets' = [packets EXCEPT ![s] = kept]
        /\ IF ~closed /\ copy.counted THEN Dropping({copy.id}) ELSE UNCHANGED <<planner, fate>>
  BY DEF Record
<1>2. kept.state # "submitted"
  BY DEF quarantine
<1>3. /\ tx.phase = "recording" /\ tx'.phase = "recording" /\ tx'.value = tx.value
      /\ UNCHANGED <<device, gpu>>
  BY DEF Record, Typed, TypeOK, Receipt
<1> HIDE DEF kept, copy, item
<1>4. /\ planner'.completed = planner.completed
      /\ \A n \in Serials : "completed" \in fate'[n] => "completed" \in fate[n]
  BY <1>1, DroppingKeeps
<1>5. Order'
  BY <1>3 DEF Safe, Order, Behind
<1>6. Leases'
  <2>1. ASSUME NEW c \in gpu.copies PROVE c.slot # s /\ c.slot \in Slots
    BY <1>1, <1>3 DEF Safe, Leases, Typed, TypeOK, Gpu, Copy
  <2>2. QED
    BY <1>1, <1>3, <2>1 DEF Safe, Leases, Typed, TypeOK
<1>7. Evidence'
  BY <1>1, <1>2, <1>3, <1>4 DEF Safe, Evidence, Under, Typed, TypeOK
<1>8. QED
  BY <1>5, <1>6, <1>7 DEF Safe

LEMMA PlanEndSafe ==
  ASSUME Typed, Safe, EndPlan \/ \E invalid \in BOOLEAN : Unrecorded(invalid)
  PROVE  Safe'
<1>1. CASE EndPlan
  <2>1. /\ tx.phase = "recording" /\ tx'.phase = "recorded" /\ tx'.value = tx.value
        /\ UNCHANGED <<packets, device, gpu>> /\ Dropping(tx.unrecorded)
    BY <1>1 DEF EndPlan, Typed, TypeOK, Receipt
  <2>2. QED
    BY <2>1, DroppingKeeps, QuietSafe
<1>2. ASSUME NEW invalid \in BOOLEAN, Unrecorded(invalid) PROVE Safe'
  <2>1. /\ tx.phase = "recording" /\ tx'.phase = "recording" /\ tx'.value = tx.value
        /\ UNCHANGED <<packets, planner, fate, device, gpu>>
    BY <1>2 DEF Unrecorded, Typed, TypeOK, Receipt
  <2>2. QED
    BY <2>1, QuietSafe
<1>3. QED
  BY <1>1, <1>2

\* The forwarded lists are those of the receipt's recorded packets.
LEMMA ForwardSafe ==
  ASSUME Typed, Safe, NEW accepted \in BOOLEAN, NEW executed \in BOOLEAN,
         NEW refused \in BOOLEAN, Forward(accepted, executed, refused)
  PROVE  Safe'
<1> DEFINE new == {[slot |-> s, id |-> packets[s].id, needs |-> packets[s].needs,
                    value |-> tx.value] : s \in tx.slots}
<1>1. /\ tx.phase = "recorded" /\ tx'.phase = "forwarded"
      /\ tx'.value = tx.value /\ tx'.slots = tx.slots
      /\ tx'.accepted = accepted /\ tx'.refused = refused
      /\ UNCHANGED <<packets, planner, fate, device>>
  BY DEF Forward, Typed, TypeOK, Receipt
<1>2. executed => accepted
  BY DEF Forward
<1>3. accepted /\ ~refused => executed
  BY DEF Forward
<1>4. /\ gpu'.copies = IF executed THEN gpu.copies \cup new ELSE gpu.copies
      /\ gpu'.signals = gpu.signals /\ gpu'.waits = gpu.waits /\ gpu'.ran = gpu.ran
  BY DEF Forward, Typed, TypeOK, Gpu
<1>5. ASSUME NEW c \in new
      PROVE  /\ c.slot \in tx.slots /\ c.id = packets[c.slot].id /\ c.value = tx.value
  OBVIOUS
<1>6. ASSUME NEW s \in tx.slots
      PROVE  \E c \in new : c.slot = s /\ c.id = packets[s].id /\ c.value = tx.value
  <2> DEFINE c == [slot |-> s, id |-> packets[s].id, needs |-> packets[s].needs,
                   value |-> tx.value]
  <2>1. c \in new /\ c.slot = s /\ c.id = packets[s].id /\ c.value = tx.value
    OBVIOUS
  <2> HIDE DEF c, new
  <2>2. QED
    BY <2>1
<1> HIDE DEF new
<1>7. Order'
  <2>1. device.timeline # Removed => device.timeline < tx.value
    BY <1>1 DEF Safe, Order, Typed, TypeOK, Receipts, Timeline, Removed
  <2>2. QED
    BY <1>1, <1>4, <1>5, <2>1 DEF Safe, Order, Behind
<1>8. Leases'
  <2>1. ASSUME NEW c \in gpu.copies
        PROVE  /\ packets[c.slot].id = c.id
               /\ \/ packets[c.slot].state = "submitted" /\ packets[c.slot].covering = c.value
                  \/ packets[c.slot].state = "quarantined"
    BY <1>1 DEF Safe, Leases
  <2>2. QED
    BY <1>1, <1>2, <1>4, <1>5, <2>1 DEF Leases
<1>9. Evidence'
  <2>1. ASSUME accepted, ~refused, NEW s \in tx.slots PROVE Under(s, tx.value)'
    BY <1>1, <1>3, <1>4, <1>6, <2>1 DEF Under
  <2>2. ASSUME NEW s \in Slots, packets[s].state = "submitted"
        PROVE  Under(s, packets[s].covering)'
    BY <1>1, <1>4, <2>2 DEF Safe, Evidence, Under
  <2>3. QED
    BY <1>1, <1>4, <2>1, <2>2 DEF Safe, Evidence
<1>10. QED
  BY <1>7, <1>8, <1>9 DEF Safe

\* A settled packet is submitted only under a receipt whose Signal was queued
\* and whose lists were executed.
LEMMA FinishSafe ==
  ASSUME Typed, Safe, NEW signaled \in BOOLEAN, Finish(signaled)
  PROVE  Safe'
<1> DEFINE refused == tx.refused \/ device.failed
<1>1. /\ tx.phase = "forwarded" /\ tx'.phase = "none" /\ tx.value \in Values
      /\ packets' = [s \in Slots |->
            IF s \in tx.slots THEN Settled(packets[s], signaled, refused, tx.accepted, tx.value)
                              ELSE packets[s]]
  BY FinishEffect DEF NoTx
<1>2. /\ planner'.completed = planner.completed
      /\ \A n \in Serials : "completed" \in fate'[n] => "completed" \in fate[n]
  BY FinishEffect, DroppingKeeps
<1>3. refused \in BOOLEAN /\ tx.accepted \in BOOLEAN
  BY DEF Typed, TypeOK, Receipt, Timeline
<1>4. ASSUME NEW s \in tx.slots
      PROVE  /\ packets'[s].id = packets[s].id
             /\ \/ packets'[s].state = "quarantined"
                \/ packets'[s].state = "submitted" /\ packets'[s].covering = tx.value
                     /\ tx.accepted /\ ~tx.refused
                \/ packets'[s].state = "retired" /\ ~tx.accepted
  <2>1. s \in Slots /\ packets[s] \in Packet /\ packets[s].state = "recorded"
    BY DEF Typed, TypeOK, Receipt, Receipts
  <2>2. packets'[s] = Settled(packets[s], signaled, refused, tx.accepted, tx.value)
    BY <1>1, <2>1
  <2>3. ~refused => ~tx.refused
    OBVIOUS
  <2> HIDE DEF refused
  <2>4. QED
    BY <1>1, <1>3, <2>1, <2>2, <2>3, SettledTypes
<1>5. ASSUME NEW s \in Slots, s \notin tx.slots PROVE packets'[s] = packets[s]
  BY <1>1, <1>5
<1>6. /\ device' = IF signaled THEN [device EXCEPT !.lastSignal = tx.value]
                               ELSE [device EXCEPT !.failed = TRUE]
      /\ gpu' = IF signaled THEN [gpu EXCEPT !.signals = @ \cup {tx.value}] ELSE gpu
  BY DEF Finish
<1>7. /\ gpu'.copies = gpu.copies /\ gpu'.waits = gpu.waits /\ gpu'.ran = gpu.ran
      /\ gpu'.signals = IF signaled THEN gpu.signals \cup {tx.value} ELSE gpu.signals
  BY <1>6 DEF Typed, TypeOK, Gpu
<1>8. /\ device'.timeline = device.timeline
      /\ device'.lastSignal = IF signaled THEN tx.value ELSE device.lastSignal
      /\ tx.value = device.lastSignal + 1 /\ device.lastSignal \in Nat
      /\ device.timeline \in Nat
  BY <1>1, <1>6 DEF Typed, TypeOK, Timeline, Receipts, Removed
<1> HIDE DEF refused
<1>9. Order'
  BY <1>1, <1>7, <1>8 DEF Safe, Order, Behind, Typed, TypeOK, Gpu, Values
<1>10. Leases'
  <2>1. ASSUME NEW c \in gpu.copies
        PROVE  /\ packets'[c.slot].id = c.id
               /\ \/ packets'[c.slot].state = "submitted" /\ packets'[c.slot].covering = c.value
                  \/ packets'[c.slot].state = "quarantined"
    <3>1. CASE c.slot \in tx.slots
      <4>1. packets[c.slot].state = "recorded"
        BY <3>1 DEF Typed, Receipts
      <4>2. tx.accepted /\ c.value = tx.value /\ packets[c.slot].id = c.id
        BY <4>1 DEF Safe, Leases
      <4>3. QED
        BY <1>4, <3>1, <4>2
    <3>2. CASE c.slot \notin tx.slots
      <4>1. c.slot \in Slots
        BY DEF Typed, TypeOK, Gpu, Copy
      <4>2. QED
        BY <1>5, <3>2, <4>1 DEF Safe, Leases
    <3>3. QED
      BY <3>1, <3>2
  <2>2. QED
    BY <1>7, <2>1 DEF Leases
<1>11. Evidence'
  <2>1. ASSUME NEW s \in Slots, packets'[s].state = "submitted"
        PROVE  Under(s, packets[s].covering)'
    <3>1. CASE s \in tx.slots
      BY <1>1, <1>4, <1>7, <2>1, <3>1 DEF Safe, Evidence, Under
    <3>2. CASE s \notin tx.slots
      BY <1>5, <1>7, <2>1, <3>2 DEF Safe, Evidence, Under
    <3>3. QED
      BY <3>1, <3>2
  <2>2. QED
    BY <1>1, <1>2, <1>7, <2>1 DEF Safe, Evidence
<1>12. QED
  BY <1>9, <1>10, <1>11 DEF Safe

\* service blanks only packets whose copy has left the queues.
LEMMA ServiceSafe == ASSUME Typed, Safe, Service PROVE Safe'
<1>0. UNCHANGED <<tx, device, gpu>> /\ tx.phase = "none"
  BY DEF Service
<1>1. Order'
  BY <1>0 DEF Safe, Order, Behind
<1>2. CASE device.timeline = Removed
  <2>1. packets' = [s \in Slots |-> quarantine(packets[s])]
          /\ Dropping(Owed({s \in Slots : Outstanding(packets[s])}))
    BY <1>2 DEF Service
  <2>2. ASSUME NEW s \in Slots
        PROVE  packets'[s].id = packets[s].id /\ packets'[s].state = "quarantined"
    BY <2>1, PacketTypes DEF Typed, TypeOK
  <2>3. Leases'
    BY <1>0, <2>2 DEF Safe, Leases, Typed, TypeOK, Gpu, Copy
  <2>4. /\ planner'.completed = planner.completed
        /\ \A n \in Serials : "completed" \in fate'[n] => "completed" \in fate[n]
    BY <2>1, DroppingKeeps
  <2>5. Evidence'
    BY <1>0, <2>2, <2>4 DEF Safe, Evidence
  <2>6. QED
    BY <1>1, <2>3, <2>5 DEF Safe
<1>3. CASE device.timeline # Removed
  <2> DEFINE done == Covered(device.timeline)
  <2>1. ASSUME NEW c \in gpu.copies
        PROVE  c.slot \in Slots /\ c.slot \notin Serviceable(device.timeline)
    <3>1. /\ c.slot \in Slots /\ c.value \in Nat /\ device.timeline \in Nat
          /\ device.timeline < c.value
      BY <1>3 DEF Safe, Order, Typed, TypeOK, Gpu, Copy, Timeline, Values, Removed
    <3>2. \/ packets[c.slot].state = "submitted" /\ packets[c.slot].covering = c.value
          \/ packets[c.slot].state = "quarantined"
      BY <1>0 DEF Safe, Leases
    <3>3. QED
      BY <3>1, <3>2 DEF Serviceable, Covered
  <2>2. Leases'
    <3>1. ASSUME NEW c \in gpu.copies PROVE packets'[c.slot] = packets[c.slot]
      BY <1>3, <2>1, ServiceEffect
    <3>2. QED
      BY <1>0, <3>1 DEF Safe, Leases
  <2>3. ASSUME NEW s \in Slots, packets'[s].state = "submitted"
        PROVE  packets'[s] = packets[s]
    <3>1. Blank("ready").state # "submitted" /\ Blank("quarantined").state # "submitted"
      BY DEF Blank
    <3>2. QED
      BY <1>3, <2>3, <3>1, ServiceEffect
  <2>4. ASSUME NEW n \in Owed(done) PROVE n \in gpu.ran
    <3>1. PICK s \in done : n = packets[s].id
      BY DEF Owed
    <3>2. s \in Slots /\ packets[s].state = "submitted" /\ s \in Serviceable(device.timeline)
      BY <3>1 DEF Covered, Serviceable
    <3>3. Under(s, packets[s].covering)
      BY <3>2 DEF Safe, Evidence
    <3>4. QED
      BY <2>1, <3>1, <3>2, <3>3 DEF Under
  <2>5. Completing(Owed(done))
    BY <1>3, ServiceEffect
  <2>6. /\ planner'.completed \in Owed(done) \cup {planner.completed}
        /\ \A n \in Serials :
             "completed" \in fate'[n] => "completed" \in fate[n] \/ n \in Owed(done)
    BY <2>5 DEF Completing, Raised, Marked, Typed, TypeOK, Planner
  <2> HIDE DEF done
  <2>7. Evidence'
    <3>1. ASSUME NEW s \in Slots, packets'[s].state = "submitted"
          PROVE  Under(s, packets[s].covering)'
      BY <1>0, <2>3, <3>1 DEF Safe, Evidence, Under
    <3>2. QED
      BY <1>0, <2>4, <2>6, <3>1 DEF Safe, Evidence
  <2>8. QED
    BY <1>1, <2>2, <2>7 DEF Safe
<1>4. QED
  BY <1>2, <1>3

\* The GPU runs a receipt's copies behind its Wait and its Signal behind them.
LEMMA GpuSafe == ASSUME Typed, Safe, GpuStep PROVE Safe'
<1>0. /\ device.timeline # Removed /\ device.timeline \in Nat
      /\ gpu.waits \subseteq Nat /\ gpu.signals \subseteq Nat
      /\ UNCHANGED <<packets, planner, fate, tx>>
      /\ \A c \in gpu.copies : c.value \in Nat
  <2>1. device.timeline # Removed /\ UNCHANGED <<packets, planner, fate, tx>>
    BY DEF GpuStep, PassWait, RunSignal, RunCopy, Alive
  <2>2. device.timeline \in Nat
    BY DEF Typed, TypeOK, Timeline, Removed
  <2>3. gpu \in Gpu /\ Values \subseteq Nat
    BY DEF Typed, TypeOK, Values
  <2>4. gpu.waits \subseteq Nat /\ gpu.signals \subseteq Nat
    BY <2>3 DEF Gpu
  <2>5. \A c \in gpu.copies : c.value \in Nat
    BY <2>3 DEF Gpu, Copy
  <2>6. QED
    BY <2>1, <2>2, <2>4, <2>5
<1>1. ASSUME NEW v \in Values, PassWait(v) PROVE Safe'
  <2>1. /\ device.timeline >= v - 1 /\ device' = device
        /\ gpu'.waits = gpu.waits \ {v} /\ gpu'.copies = gpu.copies
        /\ gpu'.signals = gpu.signals /\ gpu'.ran = gpu.ran
    BY <1>1 DEF PassWait, Typed, TypeOK, Gpu
  <2>2. Order'
    BY <1>0, <2>1 DEF Safe, Order, Behind
  <2>3. QED
    BY <1>0, <2>1, <2>2 DEF Safe, Leases, Evidence, Under
<1>2. ASSUME NEW c \in gpu.copies, RunCopy(c) PROVE Safe'
  <2>1. /\ device' = device /\ gpu'.waits = gpu.waits /\ gpu'.signals = gpu.signals
        /\ gpu'.copies = gpu.copies \ {c} /\ gpu'.ran = gpu.ran \cup {c.id}
    BY <1>2 DEF RunCopy, Typed, TypeOK, Gpu
  <2>2. Order'
    BY <1>0, <2>1 DEF Safe, Order, Behind
  <2>3. Leases'
    BY <1>0, <2>1 DEF Safe, Leases
  <2>4. ASSUME NEW s \in Slots, NEW v, Under(s, v) PROVE Under(s, v)'
    BY <1>0, <2>1, <2>4 DEF Under
  <2>5. Evidence'
    <3>1. tx.slots \subseteq Slots
      BY DEF Typed, TypeOK, Receipt
    <3>2. QED
      BY <1>0, <2>1, <2>4, <3>1 DEF Safe, Evidence
  <2>6. QED
    BY <2>2, <2>3, <2>5 DEF Safe
<1>3. ASSUME NEW v \in Values, RunSignal(v) PROVE Safe'
  <2>1. /\ v \in gpu.signals /\ v \notin gpu.waits /\ v \in Nat
        /\ \A c \in gpu.copies : c.value # v
        /\ gpu'.waits = gpu.waits /\ gpu'.copies = gpu.copies
        /\ gpu'.signals = gpu.signals \ {v} /\ gpu'.ran = gpu.ran
        /\ device'.timeline = v /\ device'.lastSignal = device.lastSignal
    BY <1>3 DEF RunSignal, Typed, TypeOK, Gpu, Timeline, Values
  <2>2. v = device.timeline + 1 /\ v <= device.lastSignal
    BY <1>0, <2>1 DEF Safe, Order, Behind
  <2>3. Order'
    <3>1. tx.phase # "none" => Behind(tx.value)'
      <4>1. tx.phase # "none" => tx.value \in Nat
        BY DEF Typed, TypeOK, Receipt
      <4>2. QED
        BY <1>0, <2>1, <2>2, <4>1 DEF Safe, Order, Behind
    <3>2. \A w \in gpu'.signals : v < w /\ w <= device.lastSignal /\ Behind(w)'
      BY <1>0, <2>1, <2>2 DEF Safe, Order, Behind
    <3>3. \A c \in gpu'.copies : v < c.value
      BY <1>0, <2>1, <2>2 DEF Safe, Order
    <3>4. QED
      BY <1>0, <2>1, <2>2, <3>1, <3>2, <3>3 DEF Order
  <2>4. QED
    BY <1>0, <2>1, <2>3 DEF Safe, Leases, Evidence, Under
<1>4. QED
  BY <1>1, <1>2, <1>3 DEF GpuStep

\* A failed or removed device, and a release that finds its wait satisfied.
LEMMA DeviceSafe ==
  ASSUME Typed, Safe, FailDevice \/ RemoveDevice \/ release_queued_waits, Honest'
  PROVE  Safe'
<1>1. /\ UNCHANGED <<packets, planner, fate, tx, gpu>>
      /\ device'.lastSignal = device.lastSignal
      /\ device'.timeline \in {device.timeline, Removed}
  <2>1. CASE FailDevice
    BY <2>1 DEF FailDevice, Typed, TypeOK, Timeline
  <2>2. CASE RemoveDevice
    BY <2>2 DEF RemoveDevice, Typed, TypeOK, Timeline
  <2>3. CASE release_queued_waits
    <3>1. device.timeline >= device.waited
      <4>1. device.releases + 1 # 0
        BY DEF Typed, TypeOK, Timeline
      <4>2. ~(device.timeline >= device.waited) => device'.releases = device.releases + 1
        BY <2>3 DEF release_queued_waits, Typed, TypeOK, Timeline
      <4>3. QED
        BY <4>1, <4>2 DEF Honest
    <3>2. QED
      BY <2>3, <3>1 DEF release_queued_waits, Typed, TypeOK, Timeline
  <2>4. QED
    BY <2>1, <2>2, <2>3
<1>2. Order'
  BY <1>1 DEF Safe, Order, Behind
<1>3. QED
  BY <1>1, <1>2 DEF Safe, Leases, Evidence, Under

LEMMA StepSafe == ASSUME IInv, Next PROVE IInv'
<1>1. Typed'
  BY StepTyped DEF IInv
<1>2. ASSUME Honest' PROVE Safe'
  <2>1. Honest
    <3>1. device.releases \in Nat
      BY DEF IInv, Typed, TypeOK, Timeline
    <3>2. device'.releases \in {device.releases, device.releases + 1}
      BY DEF IInv, Typed, TypeOK, Timeline, Next, ReceiptStep, GpuStep,
             PlanWithoutReceipt, Begin, Record, Unrecorded, EndPlan, Forward, Finish, Service,
             FailDevice, release_queued_waits, PassWait, RunCopy, RunSignal, RemoveDevice
    <3>3. QED
      BY <1>2, <3>1, <3>2 DEF Honest
  <2>2. Typed /\ Safe
    BY <2>1 DEF IInv
  <2>3. QED
    BY <1>2, <2>2, PlanWithoutReceiptSafe, BeginSafe, RecordSafe, PlanEndSafe, ForwardSafe,
       FinishSafe, ServiceSafe, GpuSafe, DeviceSafe DEF Next, ReceiptStep
<1>3. QED
  BY <1>1, <1>2 DEF IInv

LEMMA InvariantAlways == Spec => []IInv
<1>1. Init => Safe
  <2> SUFFICES ASSUME Init PROVE Safe
    OBVIOUS
  <2>1. Order /\ Leases
    BY DEF Init, NoTx, Order, Leases
  <2>2. Evidence
    BY DEF Init, NoTx, Blank, Evidence
  <2>3. QED
    BY <2>1, <2>2 DEF Safe
<1>2. IInv /\ [Next]_vars => IInv'
  <2> SUFFICES ASSUME IInv, [Next]_vars PROVE IInv'
    OBVIOUS
  <2>1. CASE UNCHANGED vars
    BY <2>1 DEF vars, IInv, Typed, TypeOK, Named, Receipts, Honest, Safe, Order, Behind,
                Leases, Evidence, Under
  <2>2. QED
    BY <2>1, StepSafe
<1>3. Spec /\ []Typed => []IInv
  <2>1. Init /\ Typed => IInv
    BY <1>1 DEF IInv
  <2>2. QED
    BY <1>2, <2>1, PTL DEF Spec
<1>4. QED
  BY <1>3, TypedAlways, PTL

\* While the watchdog has signalled nothing from the CPU, no packet whose list a
\* queue still holds is released, reset or recorded again, whatever receipts are
\* refused, cancelled or lost (Pool::service, finish_transaction).
THEOREM LeaseSafe == Spec => []LeaseKeptUnlessReleased
<1>1. IInv => LeaseKeptUnlessReleased
  <2> SUFFICES ASSUME IInv, Honest PROVE LeaseOutlivesExecution
    BY DEF LeaseKeptUnlessReleased, Honest
  <2>1. QED
    BY DEF IInv, Safe, Leases, Typed, Receipts, LeaseOutlivesExecution
<1>2. QED
  BY <1>1, InvariantAlways, PTL

\* While the watchdog has signalled nothing from the CPU, every serial reported
\* through the completed counter, and the counter itself, names a copy that ran.
THEOREM CompletionIsEvidence == Spec => []CompletedCopyRan
<1>1. IInv => CompletedCopyRan
  BY DEF IInv, Honest, Safe, Evidence, CompletedCopyRan
<1>2. QED
  BY <1>1, InvariantAlways, PTL

(***************************************************************************)
(* Restore before save.  This holds with the watchdog's releases too: the  *)
(* order within a receipt is the list order of one submission.  While a    *)
(* receipt is open, the packet of the restore is one of its own.           *)
(***************************************************************************)
RestoreHeld ==
  \A s \in tx.slots : packets[s].needs # 0 =>
    \E t \in tx.slots : packets[t].id = packets[s].needs

Ordered == RestoreHeld /\ SaveFollowsRestore

\* A packet is recorded with a save only when the receipt already holds the
\* packet of its restore; otherwise the save is stripped.
LEMMA RecordOrdered ==
  ASSUME Typed, Ordered, NEW closed \in BOOLEAN, Record(closed) PROVE Ordered'
<1> DEFINE item == Head(tx.todo)
           copy == Recordable(item)
           held == [state |-> "recorded", id |-> copy.id, counted |-> copy.counted,
                    needs |-> copy.needs, covering |-> 0]
<1>1. PICK s \in Slots :
        /\ packets[s].state = "ready"
        /\ packets' = [packets EXCEPT ![s] = IF closed THEN held ELSE quarantine(held)]
        /\ tx' = [tx EXCEPT !.todo = Tail(@),
                            !.slots = IF closed THEN @ \cup {s} ELSE @,
                            !.unrecorded = IF PlanStillOwes(item, copy)
                                           THEN @ \cup {item.id} ELSE @]
  BY DEF Record
<1>2. /\ tx'.slots = IF closed THEN tx.slots \cup {s} ELSE tx.slots
      /\ s \notin tx.slots /\ tx.slots \subseteq Slots /\ gpu' = gpu
  BY <1>1 DEF Record, Typed, TypeOK, Receipt, Receipts
<1>3. copy.needs # 0 => \E t \in tx.slots : packets[t].id = copy.needs
  <2>1. item \in Item
    BY HeadTail DEF Record, Typed
  <2>2. CASE Stripped(item)
    BY <2>1, <2>2 DEF Recordable, Item
  <2>3. CASE ~Stripped(item)
    BY <2>3 DEF Recordable, Stripped, RestoreRecorded
  <2>4. QED
    BY <2>2, <2>3
<1>4. held.needs = copy.needs
  OBVIOUS
<1> HIDE DEF held, copy, item
<1>5. /\ \A t \in tx.slots : packets'[t] = packets[t]
      /\ closed => packets'[s] = held
  BY <1>1, <1>2 DEF Typed, TypeOK
<1>6. RestoreHeld'
  BY <1>2, <1>3, <1>4, <1>5 DEF Ordered, RestoreHeld
<1>7. QED
  BY <1>2, <1>6 DEF Ordered, SaveFollowsRestore

\* A receipt's copies reach the queue together.
LEMMA ForwardOrdered ==
  ASSUME Typed, Ordered, NEW accepted \in BOOLEAN, NEW executed \in BOOLEAN, NEW refused \in BOOLEAN,
         Forward(accepted, executed, refused)
  PROVE  Ordered'
<1> DEFINE item(s) == [slot |-> s, id |-> packets[s].id, needs |-> packets[s].needs, value |-> tx.value]
           new == {item(s) : s \in tx.slots}
<1>1. /\ tx'.slots = tx.slots /\ packets' = packets
      /\ gpu'.ran = gpu.ran
      /\ gpu'.copies = IF executed THEN gpu.copies \cup new ELSE gpu.copies
  BY DEF Forward, Typed, TypeOK, Receipt, Gpu
<1>2. ASSUME NEW c \in new, c.needs # 0
      PROVE  \E x \in new : x.id = c.needs /\ x.value = c.value
  <2>1. PICK s \in tx.slots : c = item(s)
    OBVIOUS
  <2>2. PICK t \in tx.slots : packets[t].id = packets[s].needs
    BY <1>2, <2>1 DEF Ordered, RestoreHeld
  <2>3. item(t) \in new /\ item(t).id = c.needs /\ item(t).value = c.value
    BY <2>1, <2>2
  <2>4. QED
    BY <2>3
<1> HIDE DEF new
<1>3. SaveFollowsRestore'
  BY <1>1, <1>2 DEF Ordered, SaveFollowsRestore
<1>4. QED
  BY <1>1, <1>3 DEF Ordered, RestoreHeld

\* The GPU runs a save only when its restore is no longer queued.
LEMMA GpuOrdered == ASSUME Typed, Ordered, GpuStep PROVE Ordered'
<1>0. UNCHANGED <<packets, tx>> /\ gpu \in Gpu
  BY DEF GpuStep, PassWait, RunSignal, RunCopy, Typed, TypeOK
<1>1. ASSUME NEW v \in Values, PassWait(v) \/ RunSignal(v) PROVE Ordered'
  <2>1. gpu'.copies = gpu.copies /\ gpu'.ran = gpu.ran
    BY <1>0, <1>1 DEF PassWait, RunSignal, Gpu
  <2>2. QED
    BY <1>0, <2>1 DEF Ordered, RestoreHeld, SaveFollowsRestore
<1>2. ASSUME NEW c \in gpu.copies, RunCopy(c) PROVE Ordered'
  <2>1. gpu'.copies = gpu.copies \ {c} /\ gpu'.ran = gpu.ran \cup {c.id}
    BY <1>0, <1>2 DEF RunCopy, Gpu
  <2>2. SaveFollowsRestore'
    <3> SUFFICES ASSUME NEW x \in gpu'.copies, x.needs # 0
                 PROVE  \/ x.needs \in gpu'.ran
                        \/ \E y \in gpu'.copies : y.id = x.needs /\ y.value = x.value
      BY DEF SaveFollowsRestore
    <3>1. \/ x.needs \in gpu.ran
          \/ \E y \in gpu.copies : y.id = x.needs /\ y.value = x.value
      BY <2>1 DEF Ordered, SaveFollowsRestore
    <3>2. QED
      BY <2>1, <3>1
  <2>3. QED
    BY <1>0, <2>2 DEF Ordered, RestoreHeld
<1>3. QED
  BY <1>1, <1>2 DEF GpuStep

LEMMA StepOrdered == ASSUME Typed, Ordered, Next PROVE Ordered'
\* The remaining actions queue no copy, and keep the open receipt's packets or
\* find or leave no receipt.
<1>1. ASSUME gpu'.copies = gpu.copies, gpu'.ran = gpu.ran,
             tx'.slots = {} \/ (tx'.slots = tx.slots /\ packets' = packets)
      PROVE  Ordered'
  BY <1>1 DEF Ordered, RestoreHeld, SaveFollowsRestore
<1>2. CASE \E waitFailed \in BOOLEAN : PlanWithoutReceipt(waitFailed)
  BY <1>1, <1>2 DEF PlanWithoutReceipt
<1>3. CASE Begin
  BY <1>1, <1>3 DEF Begin, NoTx, Typed, TypeOK, Gpu
<1>4. CASE ReceiptStep
  <2>1. ASSUME NEW invalid \in BOOLEAN, Unrecorded(invalid) PROVE Ordered'
    BY <1>1, <2>1 DEF Unrecorded, Typed, TypeOK, Receipt
  <2>2. CASE EndPlan
    BY <1>1, <2>2 DEF EndPlan, Typed, TypeOK, Receipt
  <2>3. ASSUME NEW signaled \in BOOLEAN, Finish(signaled) PROVE Ordered'
    BY <1>1, <2>3 DEF Finish, NoTx, Typed, TypeOK, Gpu
  <2>4. QED
    BY <1>4, <2>1, <2>2, <2>3, RecordOrdered, ForwardOrdered DEF ReceiptStep
<1>5. CASE Service
  BY <1>1, <1>5 DEF Service, Typed, Receipts
<1>6. CASE FailDevice \/ release_queued_waits \/ RemoveDevice
  BY <1>1, <1>6 DEF FailDevice, release_queued_waits, RemoveDevice
<1>7. QED
  BY <1>2, <1>3, <1>4, <1>5, <1>6, GpuOrdered DEF Next

\* A save that relies on a restore is never on a queue without it: the restore
\* has run or is in the same receipt, before it, whatever packets were missing,
\* refused or quarantined while the plan was recorded.
THEOREM RestoreFirst == Spec => []SaveFollowsRestore
<1>1. Init => Ordered
  BY DEF Init, NoTx, Ordered, RestoreHeld, SaveFollowsRestore
<1>2. Typed /\ Ordered /\ [Next]_vars => Ordered'
  <2> SUFFICES ASSUME Typed, Ordered, [Next]_vars PROVE Ordered'
    OBVIOUS
  <2>1. CASE UNCHANGED vars
    BY <2>1 DEF vars, Ordered, RestoreHeld, SaveFollowsRestore
  <2>2. QED
    BY <2>1, StepOrdered
<1>3. Ordered => SaveFollowsRestore
  BY DEF Ordered
<1>4. QED
  BY <1>1, <1>2, <1>3, TypedAlways, PTL DEF Spec
=============================================================================

------------------------ MODULE CaptureSubmissionProofs ------------------------
(***************************************************************************)
(* For any lists, packets, queues and bounds: the types, what the device's  *)
(* timeline is worth to the simulator's queues, that the manager implements *)
(* the lease of its frames, and that the newest frame wins.                 *)
(***************************************************************************)
EXTENDS CaptureSubmissionInvariants, SequenceTheorems, TLAPS

(***************************************************************************)
(* Types.  A receipt is its thread's, on the thread's queue.                *)
(***************************************************************************)

LEMMA TypeParts ==
  TypeOK <=> /\ packet \in PacketTypes /\ list \in [Lists -> ListTypes] /\ tx \in TxTypes
             /\ device \in DeviceTypes
             /\ deferred \in [marked : SUBSET Packets, uncertain : BOOLEAN]
             /\ worker \in WorkerTypes /\ gate \in GateTypes /\ fence \in Receipts
             /\ gpu \in GpuTypes /\ past \in PastTypes
BY DEF TypeOK, PacketTypes, ListTypes, TxTypes, DeviceTypes, WorkerTypes, GateTypes, GpuTypes,
       PastTypes

LEMMA Numbers ==
  /\ MaxReceipts \in Nat /\ MaxTroubles \in Nat /\ MaxCloses \in Nat
  /\ 0 \in Receipts /\ 0 \in Orders /\ Receipts \subseteq Nat /\ Orders \subseteq Nat
  /\ \A v \in Receipts : 2 * v \in Orders /\ 2 * v + 1 \in Orders
  /\ \A v \in Receipts : v < MaxReceipts => v + 1 \in Receipts
BY SubmissionAssumption DEF Receipts, Orders

LEMMA NoReceiptTypes == NoReceipt \in TxTypes
BY Numbers DEF NoReceipt, TxTypes

(* The packets. *)

LEMMA IdleType == Idle \in Packet /\ Recording \in Packet
<1>1. Idle \in Packet  BY Numbers DEF Idle, Packet, GpuStates
<1>2. QED  BY <1>1 DEF Recording, Packet, GpuStates

LEMMA QuarantineTypes ==
  ASSUME NEW pk \in PacketTypes, NEW S PROVE Quarantine(pk, S) \in PacketTypes
<1>1. \A p \in Packets : pk[p] \in Packet /\ [pk[p] EXCEPT !.quarantined = TRUE] \in Packet
  BY DEF PacketTypes, Packet
<1>2. QED  BY <1>1 DEF Quarantine, PacketTypes

LEMMA SettledTypes == ASSUME packet \in PacketTypes PROVE Settled \in PacketTypes
BY QuarantineTypes DEF Settled, fail_device

LEMMA CollectedTypes ==
  ASSUME NEW pk \in PacketTypes, NEW receipt, NEW value
  PROVE  Collected(pk, receipt, value) \in PacketTypes
<1>1. \A p \in Packets : pk[p] \in Packet /\ [pk[p] EXCEPT !.gpu = "retiring"] \in Packet
  BY DEF PacketTypes, Packet, GpuStates
<1>2. ASSUME NEW p \in Packets PROVE Collected(pk, receipt, value)[p] \in Packet
  <2>1. CASE p \in Recyclable(pk, value)  BY <2>1, IdleType, <1>1 DEF Collected
  <2>2. CASE p \notin Recyclable(pk, value) /\ p \in Collectable(pk, receipt)
    BY <2>2, IdleType, <1>1 DEF Collected
  <2>3. CASE p \notin Recyclable(pk, value) /\ p \notin Collectable(pk, receipt)
    BY <2>3, <1>1 DEF Collected
  <2>4. QED  BY <2>1, <2>2, <2>3
<1>3. QED  BY <1>2 DEF Collected, PacketTypes

LEMMA SpentTypes ==
  ASSUME NEW k \in Packet, NEW value \in Receipts PROVE Spent(k, value) \in Packet
BY DEF Spent, Packet, GpuStates

LEMMA DiscardedTypes ==
  ASSUME packet \in PacketTypes, device.last \in Receipts, NEW S
  PROVE  Discarded(S) \in PacketTypes
BY SpentTypes DEF Discarded, PacketTypes

LEMMA AccountedTypes ==
  ASSUME NEW pk \in PacketTypes, tx \in TxTypes, tx.queue \in AllQueues,
         NEW success \in BOOLEAN, NEW refused \in BOOLEAN
  PROVE  Accounted(pk, success, refused) \in PacketTypes
<1> DEFINE F(p) == IF p \notin tx.packets \cup tx.tails THEN pk[p]
                  ELSE [pk[p] EXCEPT !.submitted = TRUE, !.producer = tx.queue,
                            !.order = 2 * tx.value + IF p \in tx.tails THEN 1 ELSE 0]
<1>1. Accounted(pk, success, refused) =
         IF ~success \/ refused THEN Quarantine(pk, tx.packets \cup tx.tails)
         ELSE [p \in Packets |-> F(p)]
  BY Zenon DEF Accounted
<1>2. ASSUME NEW p \in Packets PROVE F(p) \in Packet
  <2>1. pk[p] \in Packet /\ tx.value \in Receipts  BY DEF PacketTypes, TxTypes
  <2> DEFINE n == 2 * tx.value + IF p \in tx.tails THEN 1 ELSE 0
  <2>2. n \in Orders
    <3>1. 2 * tx.value \in Orders /\ 2 * tx.value + 1 \in Orders /\ 2 * tx.value \in Nat
      BY <2>1, Numbers
    <3>2. QED  BY <3>1
  <2> HIDE DEF n
  <2>3. [pk[p] EXCEPT !.submitted = TRUE, !.producer = tx.queue, !.order = n] \in Packet
    BY <2>1, <2>2 DEF Packet
  <2>4. F(p) \in {pk[p], [pk[p] EXCEPT !.submitted = TRUE, !.producer = tx.queue, !.order = n]}
    BY Zenon DEF n
  <2>5. QED  BY <2>1, <2>3, <2>4
<1> HIDE DEF F
<1>3. [p \in Packets |-> F(p)] \in PacketTypes  BY <1>2 DEF PacketTypes
<1>4. QED  BY <1>1, <1>3, QuarantineTypes

(* The queues.  What matters of them is their Waits and Signals. *)

LEMMA OpTypes ==
  ASSUME NEW kind \in {"wait", "write", "read", "done", "signal"}, NEW S \in SUBSET Packets,
         NEW value \in Receipts, NEW by \in Lists \cup {Private, Null}
  PROVE  /\ Op(kind, S, value, by) \in Operation
         /\ Op(kind, S, value, by).kind = kind /\ Op(kind, S, value, by).packets = S
         /\ Op(kind, S, value, by).value = value /\ Op(kind, S, value, by).by = by
BY DEF Op, Operation

LEMMA SelfGrown == ASSUME NEW s \in Seq(Operation) PROVE Grown(s, s)
<1>1. Len(s) \in Nat  BY LenProperties
<1>2. QED  BY <1>1 DEF Grown

LEMMA AppendGrown ==
  ASSUME NEW s \in Seq(Operation), NEW op \in Operation, op.kind \notin Timely
  PROVE  Append(s, op) \in Seq(Operation) /\ Grown(s, Append(s, op))
<1>1. /\ Append(s, op) \in Seq(Operation) /\ Len(Append(s, op)) = Len(s) + 1
      /\ \A i \in 1..Len(s) : Append(s, op)[i] = s[i]
      /\ Append(s, op)[Len(s) + 1] = op /\ Len(s) \in Nat
  BY AppendProperties, LenProperties
<1>2. \A i \in 1..(Len(s) + 1) : i > Len(s) => i = Len(s) + 1  BY <1>1
<1>3. QED  BY <1>1, <1>2 DEF Grown

LEMMA ExecutedGrown ==
  ASSUME gpu \in GpuTypes, NEW q \in AllQueues, NEW kind \in {"write", "read"},
         NEW S \in SUBSET Packets
  PROVE  Executed(q, kind, S) \in Seq(Operation) /\ Grown(gpu[q], Executed(q, kind, S))
<1>1. gpu[q] \in Seq(Operation)  BY DEF GpuTypes
<1>2. Op(kind, S, 0, Null) \in Operation /\ Op(kind, S, 0, Null).kind \notin Timely
  BY Numbers, OpTypes DEF Timely
<1>3. QED  BY <1>1, <1>2, SelfGrown, AppendGrown DEF Executed

LEMMA SignalsGrown ==
  ASSUME gpu \in GpuTypes, NEW pk, NEW receipt, gpu' = ProducerSignals(pk, receipt, gpu)
  PROVE  gpu' \in GpuTypes /\ AllGrown
<1>1. ASSUME NEW q \in AllQueues
      PROVE  gpu'[q] \in Seq(Operation) /\ Grown(gpu[q], gpu'[q])
  <2> DEFINE S == {p \in Collectable(pk, receipt) : pk[p].submitted /\ pk[p].producer = q}
  <2>1. gpu[q] \in Seq(Operation) /\ S \subseteq Packets  BY DEF GpuTypes, Collectable, Assigned
  <2>2. gpu'[q] = IF S = {} THEN gpu[q] ELSE Append(gpu[q], Op("done", S, 0, Null))
    BY DEF ProducerSignals
  <2>3. Op("done", S, 0, Null) \in Operation /\ Op("done", S, 0, Null).kind \notin Timely
    BY <2>1, Numbers, OpTypes DEF Timely
  <2>4. QED  BY <2>1, <2>2, <2>3, SelfGrown, AppendGrown
<1>2. QED  BY <1>1 DEF ProducerSignals, GpuTypes, AllGrown

LEMMA StillGrown == ASSUME gpu \in GpuTypes, gpu' = gpu PROVE gpu' \in GpuTypes /\ AllGrown
BY SelfGrown DEF GpuTypes, AllGrown

(* The parts that many steps share. *)

LEMMA SettleTypes ==
  ASSUME device \in DeviceTypes, deferred \in [marked : SUBSET Packets, uncertain : BOOLEAN]
  PROVE  /\ SettleMarks => deferred' \in [marked : SUBSET Packets, uncertain : BOOLEAN]
         /\ Failing \in BOOLEAN
         /\ SettleDevice => /\ device' \in DeviceTypes /\ device'.last = device.last
                            /\ device'.simQueue = device.simQueue
                            /\ device'.simSignal = device.simSignal
<1>1. Failing \in BOOLEAN  BY DEF Failing, DeviceTypes
<1>2. SettleDevice => /\ device' \in DeviceTypes /\ device'.last = device.last
                      /\ device'.simQueue = device.simQueue /\ device'.simSignal = device.simSignal
  <2> SUFFICES ASSUME SettleDevice
               PROVE  /\ device' \in DeviceTypes /\ device'.last = device.last
                      /\ device'.simQueue = device.simQueue /\ device'.simSignal = device.simSignal
    OBVIOUS
  <2>1. device' = [device EXCEPT !.failed = Failing]  BY Zenon DEF SettleDevice
  <2>2. PICK b \in BOOLEAN : b = Failing  BY <1>1, Zenon
  <2>3. device' = [device EXCEPT !.failed = b]  BY <2>1, <2>2, Zenon
  <2>4. QED  BY <2>2, <2>3 DEF DeviceTypes
<1>3. [marked |-> {}, uncertain |-> FALSE] \in [marked : SUBSET Packets, uncertain : BOOLEAN]
  OBVIOUS
<1>4. SettleMarks => deferred' \in [marked : SUBSET Packets, uncertain : BOOLEAN]
  BY <1>3, Zenon DEF SettleMarks
<1>5. QED  BY <1>1, <1>2, <1>4, Zenon

LEMMA TroubledTypes ==
  ASSUME past \in PastTypes, NEW S, NEW history \in PastTypes, SameTimes(history),
         history.troubles = past.troubles, Trouble(S), Troubled(S, history)
  PROVE  past' \in PastTypes /\ SameTimes(past')
<1>1. past.troubles \in 0..MaxTroubles /\ MaxTroubles \in Nat  BY Numbers DEF PastTypes
<1>2. CASE S = {}  BY <1>2 DEF Troubled
<1>3. CASE S # {}  BY <1>3, <1>1 DEF Troubled, Trouble, PastTypes, SameTimes
<1>4. QED  BY <1>2, <1>3

LEMMA MarkTypes ==
  ASSUME TypeOK, NEW l \in Lists, NEW lost \in BOOLEAN, Mark(l, lost)
  PROVE  /\ deferred' \in [marked : SUBSET Packets, uncertain : BOOLEAN]
         /\ past' \in PastTypes /\ SameTimes(past')
<1> DEFINE S == list[l].packets
<1>1. /\ S \subseteq Packets /\ past \in PastTypes
      /\ deferred \in [marked : SUBSET Packets, uncertain : BOOLEAN]
  BY TypeParts DEF ListTypes
<1>2. CASE lost
  <2> DEFINE history == [past EXCEPT !.unmarked = @ \cup S]
  <2>1. history \in PastTypes /\ SameTimes(history) /\ history.troubles = past.troubles
    BY <1>1 DEF PastTypes, SameTimes
  <2>2. Trouble(S) /\ Troubled(S, history) /\ UNCHANGED deferred  BY <1>2 DEF Mark
  <2> HIDE DEF history
  <2>3. QED  BY <1>1, <2>1, <2>2, TroubledTypes
<1>3. CASE ~lost  BY <1>3, <1>1, TroubledTypes DEF Mark, SameTimes
<1>4. QED  BY <1>2, <1>3

\* A list's thread goes on, on the queue it is in or in no queue.
LEMMA MoveTypes ==
  ASSUME Typed, NEW l \in Lists, NEW at \in {"free", "admitted", "unordered", "held"},
         NEW q \in Queues \cup {Null}, at # "free" => q \in Queues,
         list' = [list EXCEPT ![l].queue = q, ![l].at = at]
            \/ list' = [list EXCEPT ![l].at = at, ![l].queue = q]
  PROVE  /\ list' \in [Lists -> ListTypes]
         /\ list'[l].at = at /\ \A k \in Lists \ {l} : list'[k] = list[k]
         /\ \A k \in Lists : list'[k].at # "free" => list'[k].queue \in Queues
<1>1. list \in [Lists -> ListTypes] /\ list[l] \in ListTypes  BY TypeParts DEF Typed
<1>2. list' = [list EXCEPT ![l] = [list[l] EXCEPT !.queue = q, !.at = at]]
      \/ list' = [list EXCEPT ![l] = [list[l] EXCEPT !.at = at, !.queue = q]]
  BY Zenon
<1>3. /\ [list[l] EXCEPT !.queue = q, !.at = at] \in ListTypes
      /\ [list[l] EXCEPT !.queue = q, !.at = at].at = at
      /\ [list[l] EXCEPT !.queue = q, !.at = at].queue = q
      /\ [list[l] EXCEPT !.at = at, !.queue = q] = [list[l] EXCEPT !.queue = q, !.at = at]
  BY <1>1 DEF ListTypes
<1> DEFINE r == [list[l] EXCEPT !.queue = q, !.at = at]
<1> HIDE DEF r
<1>4. list' = [list EXCEPT ![l] = r] /\ r \in ListTypes /\ r.at = at /\ r.queue = q
  BY <1>2, <1>3 DEF r
<1>5. QED  BY <1>1, <1>4 DEF Typed, Placed

\* A thread that holds no receipt moves: receipts stay where they are.
LEMMA PlacedKept ==
  ASSUME Typed, NEW l \in Lists, list[l].at # "held", UNCHANGED tx,
         \A k \in Lists \ {l} : list'[k] = list[k],
         \A k \in Lists : list'[k].at # "free" => list'[k].queue \in Queues
  PROVE  Placed'
BY DEF Typed, Placed

LEMMA StageMoves ==
  ASSUME Typed, NEW l \in Lists, NEW at \in {"admitted", "unordered", "held"}, list[l].at # "free",
         Stage(l, at)
  PROVE  /\ list' \in [Lists -> ListTypes]
         /\ list'[l].at = at /\ \A k \in Lists \ {l} : list'[k] = list[k]
         /\ \A k \in Lists : list'[k].at # "free" => list'[k].queue \in Queues
<1>1. list \in [Lists -> ListTypes] /\ list[l] \in ListTypes  BY TypeParts DEF Typed
<1>2. list' = [list EXCEPT ![l] = [list[l] EXCEPT !.at = at]]  BY Zenon DEF Stage
<1>3. /\ [list[l] EXCEPT !.at = at] \in ListTypes /\ [list[l] EXCEPT !.at = at].at = at
      /\ [list[l] EXCEPT !.at = at].queue = list[l].queue
  BY <1>1 DEF ListTypes
<1> DEFINE r == [list[l] EXCEPT !.at = at]
<1> HIDE DEF r
<1>4. list' = [list EXCEPT ![l] = r] /\ r \in ListTypes /\ r.at = at /\ r.queue = list[l].queue
  BY <1>2, <1>3 DEF r
<1>5. QED  BY <1>1, <1>4 DEF Typed, Placed

(***************************************************************************)
(* The timeline.  Its receipts form a chain: each waits for the one before. *)
(***************************************************************************)

LEMMA TypePartsNext ==
  TypeOK' <=> /\ packet' \in PacketTypes /\ list' \in [Lists -> ListTypes] /\ tx' \in TxTypes
              /\ device' \in DeviceTypes
              /\ deferred' \in [marked : SUBSET Packets, uncertain : BOOLEAN]
              /\ worker' \in WorkerTypes /\ gate' \in GateTypes /\ fence' \in Receipts
              /\ gpu' \in GpuTypes /\ past' \in PastTypes
BY DEF TypeOK, PacketTypes, ListTypes, TxTypes, DeviceTypes, WorkerTypes, GateTypes, GpuTypes,
       PastTypes

(* The kinds of step, by what they do to the timeline. *)

LEMMA PackUnchanged ==
  ASSUME Typed, UNCHANGED tx, UNCHANGED list PROVE Placed'
BY DEF Typed, Placed

LEMMA SameStill ==
  ASSUME Typed, UNCHANGED <<gate, fence, gpu, past>> PROVE Still /\ gpu' \in GpuTypes
BY StillGrown, TypeParts DEF Typed, Still, SameTimes

\* What a list without packets records, or a list drops at its Reset.
LEMMA PacketsTypes ==
  ASSUME Typed, NEW l \in Lists, NEW S \in SUBSET Packets, list' = [list EXCEPT ![l].packets = S]
  PROVE  /\ list' \in [Lists -> ListTypes]
         /\ \A k \in Lists : list'[k].at = list[k].at /\ list'[k].queue = list[k].queue
<1>1. list \in [Lists -> ListTypes] /\ list[l] \in ListTypes  BY TypeParts DEF Typed
<1>2. list' = [list EXCEPT ![l] = [list[l] EXCEPT !.packets = S]]  BY Zenon
<1>3. /\ [list[l] EXCEPT !.packets = S] \in ListTypes
      /\ [list[l] EXCEPT !.packets = S].at = list[l].at
      /\ [list[l] EXCEPT !.packets = S].queue = list[l].queue
  BY <1>1 DEF ListTypes
<1> DEFINE r == [list[l] EXCEPT !.packets = S]
<1> HIDE DEF r
<1>4. /\ list' = [list EXCEPT ![l] = r] /\ r \in ListTypes
      /\ r.at = list[l].at /\ r.queue = list[l].queue
  BY <1>2, <1>3 DEF r
<1>5. QED  BY <1>1, <1>4

LEMMA CaptureKeeps ==
  ASSUME Typed, NEW l \in Lists, Capture(l) PROVE Typed' /\ Quiet
<1> DEFINE ready == Collected(Settled, tx, fence)
<1>1. ready \in PacketTypes  BY TypeParts, SettledTypes, CollectedTypes DEF Typed
<1>2. PICK p \in Packets : /\ packet' = [ready EXCEPT ![p] = Recording]
                          /\ list' = [list EXCEPT ![l].packets = {p}]
  BY DEF Capture, Available
<1>3. packet' \in PacketTypes  BY <1>1, <1>2, IdleType DEF PacketTypes
<1>4. /\ list' \in [Lists -> ListTypes]
      /\ \A k \in Lists : list'[k].at = list[k].at /\ list'[k].queue = list[k].queue
  <2>1. {p} \in SUBSET Packets  OBVIOUS
  <2>2. QED  BY <1>2, <2>1, PacketsTypes, Zenon
<1>5. gpu' \in GpuTypes /\ AllGrown  BY SignalsGrown, TypeParts DEF Typed, Capture
<1>6. /\ deferred' \in [marked : SUBSET Packets, uncertain : BOOLEAN]
      /\ UNCHANGED <<tx, device, worker, gate, fence, past>>
  BY SettleTypes, TypeParts DEF Typed, Capture
<1>7. TypeOK'  BY <1>3, <1>4, <1>5, <1>6, TypeParts, TypePartsNext DEF Typed
<1>8. Placed'  BY <1>4, <1>6 DEF Typed, Placed
<1>9. QED  BY <1>4, <1>5, <1>6, <1>7, <1>8 DEF Typed, Quiet, Still, SameDevice, SameTimes

LEMMA ResetKeeps ==
  ASSUME Typed, NEW l \in Lists, Reset(l) PROVE Typed' /\ Quiet
<1> DEFINE S == list[l].packets
<1>1. retire_list(S) \in PacketTypes
  <2>1. Settled \in PacketTypes  BY TypeParts, SettledTypes DEF Typed
  <2>2. \A p \in Packets : Settled[p] \in Packet /\ [Settled[p] EXCEPT !.retired = TRUE] \in Packet
    BY <2>1 DEF PacketTypes, Packet
  <2>3. QED  BY <2>2 DEF retire_list, PacketTypes
<1>2. packet' \in PacketTypes
  <2>1. packet' = Collected(retire_list(S), tx, fence)  BY Zenon DEF Reset, CollectInto
  <2>2. QED  BY <1>1, <2>1, CollectedTypes, Zenon
<1>3. gpu' \in GpuTypes /\ AllGrown
  <2>1. gpu' = ProducerSignals(retire_list(S), tx, gpu)  BY Zenon DEF Reset, CollectInto
  <2>2. gpu \in GpuTypes  BY TypeParts DEF Typed
  <2>3. QED  BY <2>1, <2>2, SignalsGrown, Zenon
<1>4. /\ list' \in [Lists -> ListTypes]
      /\ \A k \in Lists : list'[k].at = list[k].at /\ list'[k].queue = list[k].queue
  <2>1. {} \in SUBSET Packets /\ list' = [list EXCEPT ![l].packets = {}]  BY DEF Reset
  <2>2. QED  BY <2>1, PacketsTypes, Zenon
<1>5. /\ deferred' \in [marked : SUBSET Packets, uncertain : BOOLEAN]
      /\ device' \in DeviceTypes /\ SameDevice
      /\ UNCHANGED <<tx, worker, gate, fence, past>>
  BY SettleTypes, TypeParts DEF Typed, Reset, SameDevice
<1>6. TypeOK'  BY <1>2, <1>3, <1>4, <1>5, TypeParts, TypePartsNext DEF Typed
<1>7. Placed'  BY <1>4, <1>5 DEF Typed, Placed
<1>8. QED  BY <1>3, <1>4, <1>5, <1>6, <1>7 DEF Typed, Quiet, Still, SameTimes

LEMMA EnterKeeps ==
  ASSUME Typed, NEW l \in Lists, NEW q \in Queues, Enter(l, q) PROVE Typed' /\ Quiet
<1>1. /\ list' \in [Lists -> ListTypes]
      /\ list'[l].at = "admitted" /\ \A k \in Lists \ {l} : list'[k] = list[k]
      /\ \A k \in Lists : list'[k].at # "free" => list'[k].queue \in Queues
  BY MoveTypes DEF Enter, Submitting
<1>2. /\ list[l].at = "free" /\ gate.open
      /\ UNCHANGED <<packet, tx, device, deferred, worker, gate, fence, gpu, past>>
  BY DEF Enter
<1>3. Still /\ gpu' \in GpuTypes  BY <1>2, SameStill
<1>4. TypeOK'  BY <1>1, <1>2, <1>3, TypeParts, TypePartsNext DEF Typed
<1>5. Placed'  BY <1>1, <1>2, PlacedKept
<1>6. QED  BY <1>1, <1>2, <1>3, <1>4, <1>5 DEF Typed, Quiet, SameDevice

\* A batch leaves the ordered path: its thread forwards it without a receipt.
LEMMA UnorderedKeeps ==
  ASSUME Typed, NEW l \in Lists, NEW q \in Queues, Submitting(l, q, "unordered"),
         list[l].at # "held",
         deferred' \in [marked : SUBSET Packets, uncertain : BOOLEAN],
         past' \in PastTypes, SameTimes(past'),
         UNCHANGED <<packet, tx, device, worker, gate, fence, gpu>>
  PROVE  Typed' /\ Quiet
<1>1. /\ list' \in [Lists -> ListTypes]
      /\ list'[l].at = "unordered" /\ \A k \in Lists \ {l} : list'[k] = list[k]
      /\ \A k \in Lists : list'[k].at # "free" => list'[k].queue \in Queues
  BY MoveTypes DEF Submitting
<1>2. gpu' \in GpuTypes /\ AllGrown  BY StillGrown, TypeParts DEF Typed
<1>3. TypeOK'  BY <1>1, <1>2, TypeParts, TypePartsNext DEF Typed
<1>4. Placed'  BY <1>1, PlacedKept
<1>5. QED  BY <1>1, <1>2, <1>3, <1>4 DEF Typed, Quiet, Still, SameDevice

LEMMA EscapeKeeps ==
  ASSUME Typed, NEW l \in Lists, Escape(l) PROVE Typed' /\ Quiet
<1>1. PICK lost \in BOOLEAN : Mark(l, lost)  BY DEF Escape, escape_unordered
<1>2. /\ deferred' \in [marked : SUBSET Packets, uncertain : BOOLEAN]
      /\ past' \in PastTypes /\ SameTimes(past')
  BY <1>1, MarkTypes DEF Typed
<1>3. PICK q \in Queues : Submitting(l, q, "unordered") /\ list[l].at # "held"
  <2>1. CASE list[l].at = "admitted" /\ Submitting(l, list[l].queue, "unordered")
    BY <2>1 DEF Typed, Placed
  <2>2. CASE \E q \in Queues : list[l].at = "free" /\ Submitting(l, q, "unordered")  BY <2>2
  <2>3. QED  BY <2>1, <2>2 DEF Escape
<1>4. QED  BY <1>2, <1>3, UnorderedKeeps DEF Escape

LEMMA RefuseKeeps ==
  ASSUME Typed, NEW l \in Lists, NEW q \in Queues, Refuse(l, q) PROVE Typed' /\ Quiet
<1>1. /\ deferred' \in [marked : SUBSET Packets, uncertain : BOOLEAN]
      /\ past' \in PastTypes /\ SameTimes(past')
  <2>1. CASE Mark(l, FALSE)  BY <2>1, MarkTypes DEF Typed
  <2>2. CASE /\ Trouble(list[l].packets) /\ Troubled(list[l].packets, past)
             /\ deferred' = [deferred EXCEPT !.uncertain = TRUE]
    BY TypeParts, <2>2, TroubledTypes DEF Typed, SameTimes
  <2>3. QED  BY <2>1, <2>2 DEF Refuse
<1>2. QED  BY <1>1, UnorderedKeeps DEF Refuse

LEMMA QueueGrows ==
  ASSUME gpu \in GpuTypes, NEW q \in AllQueues, NEW s \in Seq(Operation), Grown(gpu[q], s),
         gpu' = [gpu EXCEPT ![q] = s]
  PROVE  gpu' \in GpuTypes /\ AllGrown
BY SelfGrown DEF GpuTypes, AllGrown

LEMMA ForwardUnorderedKeeps ==
  ASSUME Typed, NEW l \in Lists, ForwardUnordered(l) PROVE Typed' /\ Quiet
<1> DEFINE q == list[l].queue
<1>1. /\ q \in Queues /\ q \in AllQueues /\ list[l].at = "unordered"
      /\ list[l].packets \in SUBSET Packets /\ gpu \in GpuTypes
  BY TypeParts DEF Typed, Placed, ForwardUnordered, AllQueues, ListTypes
<1>2. gpu' \in GpuTypes /\ AllGrown
  <2> DEFINE s == Executed(q, "write", list[l].packets)
  <2>1. s \in Seq(Operation) /\ Grown(gpu[q], s)  BY <1>1, ExecutedGrown
  <2>2. gpu' = [gpu EXCEPT ![q] = s]  BY Zenon DEF ForwardUnordered
  <2> HIDE DEF s, q
  <2>3. QED  BY <1>1, <2>1, <2>2, QueueGrows
<1>3. /\ list' \in [Lists -> ListTypes]
      /\ list'[l].at = "free" /\ \A k \in Lists \ {l} : list'[k] = list[k]
      /\ \A k \in Lists : list'[k].at # "free" => list'[k].queue \in Queues
  BY MoveTypes DEF ForwardUnordered
<1>4. UNCHANGED <<packet, tx, device, deferred, worker, gate, fence, past>>  BY DEF ForwardUnordered
<1>5. TypeOK'  BY <1>2, <1>3, <1>4, TypeParts, TypePartsNext DEF Typed
<1>6. Placed'  BY <1>1, <1>3, <1>4, PlacedKept
<1>7. QED  BY <1>2, <1>3, <1>4, <1>5, <1>6 DEF Typed, Quiet, Still, SameDevice, SameTimes

LEMMA Alone == ASSUME Typed, tx.by = Null PROVE tx.at = "none"
BY SubmissionAssumption DEF Typed, Placed

LEMMA BeginTypes ==
  ASSUME Typed, NEW by \in Lists \cup {Private}, NEW q \in AllQueues, NEW S \in SUBSET Packets,
         device.last < MaxReceipts, begin_transaction(by, q, S)
  PROVE  /\ tx' \in TxTypes /\ tx'.by = by /\ tx'.queue = q /\ tx'.at = "reserved"
         /\ tx'.value = device.last + 1 /\ tx'.packets = S
<1>1. device.last \in Receipts  BY TypeParts DEF Typed, DeviceTypes
<1>2. device.last + 1 \in Receipts  BY <1>1, Numbers
<1>3. QED  BY <1>2 DEF begin_transaction, TxTypes

LEMMA ReserveKeeps ==
  ASSUME Typed, NEW l \in Lists, Reserve(l) PROVE Typed' /\ (Quiet \/ Begins)
<1> DEFINE q == list[l].queue
           S == list[l].packets
           escapes == Failing \/ (cross_queue_unfinished(q) /\ S = {})
<1>1. /\ list[l].at = "admitted" /\ q \in Queues /\ q \in AllQueues /\ S \in SUBSET Packets
      /\ tx.at = "none" /\ UNCHANGED <<worker, gate, fence, gpu>> /\ past \in PastTypes
  BY TypeParts, Alone DEF Typed, Placed, Reserve, AllQueues, ListTypes
<1>2. /\ packet' \in PacketTypes
      /\ deferred' \in [marked : SUBSET Packets, uncertain : BOOLEAN]
      /\ device' \in DeviceTypes /\ SameDevice
  BY SettledTypes, TypeParts, SettleTypes DEF Typed, Reserve, SameDevice
<1>3. gpu' \in GpuTypes /\ AllGrown  BY <1>1, StillGrown, TypeParts DEF Typed
<1>4. CASE escapes
  <2>1. /\ Stage(l, "unordered") /\ Trouble(S) /\ Troubled(S, past) /\ UNCHANGED tx
    BY <1>4 DEF Reserve
  <2>2. /\ list' \in [Lists -> ListTypes]
        /\ list'[l].at = "unordered" /\ \A k \in Lists \ {l} : list'[k] = list[k]
        /\ \A k \in Lists : list'[k].at # "free" => list'[k].queue \in Queues
    BY <1>1, <2>1, StageMoves
  <2>3. past' \in PastTypes /\ SameTimes(past')  BY <1>1, <2>1, TroubledTypes DEF SameTimes
  <2>4. TypeOK'  BY <1>1, <1>2, <1>3, <2>1, <2>2, <2>3, TypeParts, TypePartsNext DEF Typed
  <2>5. Placed'  BY <1>1, <2>1, <2>2, PlacedKept
  <2>6. QED  BY <1>1, <1>2, <1>3, <2>1, <2>2, <2>3, <2>4, <2>5 DEF Typed, Quiet, Still
<1>5. CASE ~escapes
  <2>1. /\ Stage(l, "held") /\ device.last < MaxReceipts /\ begin_transaction(l, q, S)
        /\ UNCHANGED past /\ (S = {} => ~cross_queue_unfinished(q))
    BY <1>5 DEF Reserve
  <2>2. /\ list' \in [Lists -> ListTypes]
        /\ list'[l].at = "held" /\ \A k \in Lists \ {l} : list'[k] = list[k]
        /\ \A k \in Lists : list'[k].at # "free" => list'[k].queue \in Queues
    BY <1>1, <2>1, StageMoves
  <2>3. tx' \in TxTypes /\ tx'.by = l /\ tx'.queue = q /\ tx'.at = "reserved"
    BY <1>1, <2>1, BeginTypes
  <2>4. TypeOK'  BY <1>1, <1>2, <1>3, <2>1, <2>2, <2>3, TypeParts, TypePartsNext DEF Typed
  <2>5. Placed'  BY <1>1, <2>2, <2>3 DEF Placed
  <2>6. Begins
    <3>1. Still /\ (\A k \in Lists : list'[k].at = "admitted" => list[k].at = "admitted")
      BY <1>1, <1>3, <2>1, <2>2 DEF Still, SameTimes
    <3> HIDE DEF q, S
    <3>2. QED  BY <1>1, <1>2, <2>1, <3>1 DEF Begins
  <2>7. QED  BY <2>4, <2>5, <2>6 DEF Typed
<1>6. QED  BY <1>4, <1>5

\* A held receipt goes to another step.
LEMMA TxMoves ==
  ASSUME Typed, NEW at \in {"waited", "ordered", "forwarded", "recorded", "signalled", "unsignalled"},
         tx.at # "none", tx' = [tx EXCEPT !.at = at], UNCHANGED list
  PROVE  /\ tx' \in TxTypes /\ tx'.at = at /\ Placed'
         /\ tx'.by = tx.by /\ tx'.queue = tx.queue /\ tx'.value = tx.value
         /\ tx'.packets = tx.packets
<1>1. tx \in TxTypes  BY TypeParts DEF Typed
<1>2. /\ tx' \in TxTypes /\ tx'.at = at
      /\ tx'.by = tx.by /\ tx'.queue = tx.queue /\ tx'.value = tx.value
      /\ tx'.packets = tx.packets
  BY <1>1 DEF TxTypes
<1>3. QED  BY <1>2 DEF Typed, Placed

LEMMA Held ==
  ASSUME Typed, tx.at # "none"
  PROVE  tx.queue \in AllQueues /\ tx.by \in Lists \cup {Private} /\ tx.packets \in SUBSET Packets
         /\ tx.value \in Receipts /\ tx.tails \in SUBSET Packets
BY TypeParts DEF Typed, Placed, AllQueues, TxTypes

LEMMA QueueWaitKeeps ==
  ASSUME Typed, QueueWait PROVE Typed' /\ (Quiet \/ Waits)
<1>1. /\ tx.at = "reserved" /\ UNCHANGED <<packet, list, device, deferred, worker, gate, fence, past>>
      /\ device.last \in Receipts /\ Receipts \subseteq Nat
  BY TypeParts, Numbers DEF Typed, QueueWait, DeviceTypes
<1>2. CASE device.last = 0
  <2>1. tx' = [tx EXCEPT !.at = "ordered"] /\ UNCHANGED gpu  BY <1>2 DEF QueueWait
  <2>2. /\ tx' \in TxTypes /\ tx'.at = "ordered" /\ Placed'
        /\ tx'.by = tx.by /\ tx'.queue = tx.queue /\ tx'.value = tx.value
        /\ tx'.packets = tx.packets
    BY <1>1, <2>1, TxMoves
  <2>3. Still /\ gpu' \in GpuTypes  BY <1>1, <2>1, SameStill
  <2>4. TypeOK'  BY <1>1, <2>2, <2>3, TypeParts, TypePartsNext DEF Typed
  <2>5. QED  BY <1>1, <1>2, <2>2, <2>3, <2>4 DEF Typed, Quiet, Goes, SameDevice
<1>3. CASE device.last # 0
  <2> DEFINE op == Op("wait", tx.packets, device.last, tx.by)
  <2>1. tx' = [tx EXCEPT !.at = "waited"]
        /\ gpu' = [gpu EXCEPT ![tx.queue] = Append(@, op)]
    BY <1>3 DEF QueueWait
  <2>2. tx' \in TxTypes /\ Placed'  BY <1>1, <2>1, TxMoves
  <2>3. gpu' \in GpuTypes
    <3>1. op \in Operation  BY <1>1, Held, OpTypes
    <3>2. gpu \in GpuTypes /\ tx.queue \in AllQueues  BY <1>1, Held, TypeParts DEF Typed
    <3> HIDE DEF op
    <3>3. QED  BY <2>1, <3>1, <3>2, AppendProperties DEF GpuTypes
  <2>4. TypeOK'  BY <1>1, <2>2, <2>3, TypeParts, TypePartsNext DEF Typed
  <2>5. QED  BY <1>1, <1>3, <2>1, <2>2, <2>4 DEF Typed, Waits
<1>4. QED  BY <1>2, <1>3

\* The thread of the receipt leaves it.
LEMMA LeaveTypes ==
  ASSUME Typed, tx.at # "none", tx' = NoReceipt,
         \/ tx.by = Private /\ UNCHANGED list
         \/ /\ tx.by # Private
            /\ \/ Stage(tx.by, "unordered")
               \/ list' = [list EXCEPT ![tx.by].at = "free", ![tx.by].queue = Null]
  PROVE  /\ tx' \in TxTypes /\ list' \in [Lists -> ListTypes] /\ Placed'
         /\ \A l \in Lists : list'[l].at = "admitted" => list[l].at = "admitted"
<1>1. tx' \in TxTypes /\ tx'.at = "none" /\ tx'.by = Null  BY NoReceiptTypes DEF NoReceipt
<1>2. CASE tx.by = Private /\ UNCHANGED list  BY <1>1, <1>2, TypeParts DEF Typed, Placed
<1>3. CASE tx.by # Private
  <2>1. tx.by \in Lists /\ list[tx.by].at = "held"  BY <1>3 DEF Typed, Placed
  <2>2. /\ list' \in [Lists -> ListTypes]
        /\ list'[tx.by].at \in {"unordered", "free"}
        /\ \A k \in Lists \ {tx.by} : list'[k] = list[k]
        /\ \A k \in Lists : list'[k].at # "free" => list'[k].queue \in Queues
    <3>1. CASE Stage(tx.by, "unordered")  BY <2>1, <3>1, StageMoves
    <3>2. CASE list' = [list EXCEPT ![tx.by].at = "free", ![tx.by].queue = Null]
      BY <2>1, <3>2, MoveTypes
    <3>3. QED  BY <1>3, <3>1, <3>2
  <2>3. QED  BY <1>1, <2>1, <2>2 DEF Placed
<1>4. QED  BY <1>2, <1>3

LEMMA FailWaitKeeps ==
  ASSUME Typed, FailWait PROVE Typed' /\ Ends
<1>1. /\ tx.at = "reserved" /\ tx' = NoReceipt /\ UNCHANGED <<gate, fence, gpu>>  BY DEF FailWait
<1>2. past' \in PastTypes /\ SameTimes(past')
  BY TypeParts, Numbers DEF Typed, FailWait, PastTypes, SameTimes
<1>3. packet' \in PacketTypes
  BY TypeParts, SettledTypes, QuarantineTypes DEF FailWait, fail_device, Typed
<1>4. /\ deferred' \in [marked : SUBSET Packets, uncertain : BOOLEAN]
      /\ device' \in DeviceTypes /\ SameDevice
  BY SettleTypes, TypeParts DEF Typed, FailWait, DeviceTypes, SameDevice
<1>5. worker' \in WorkerTypes  BY TypeParts DEF Typed, FailWait, WorkerTypes
<1>6. /\ tx' \in TxTypes /\ list' \in [Lists -> ListTypes] /\ Placed'
      /\ \A l \in Lists : list'[l].at = "admitted" => list[l].at = "admitted"
  BY <1>1, LeaveTypes DEF FailWait
<1>7. gpu' \in GpuTypes /\ AllGrown  BY <1>1, StillGrown, TypeParts DEF Typed
<1>8. TypeOK'  BY <1>1, <1>2, <1>3, <1>4, <1>5, <1>6, <1>7, TypeParts, TypePartsNext DEF Typed
<1>9. QED  BY <1>1, <1>2, <1>4, <1>6, <1>7, <1>8 DEF Typed, Ends, Still

LEMMA PublishWaitKeeps ==
  ASSUME Typed, PublishWait PROVE Typed'
<1>1. /\ UNCHANGED <<packet, list, device, deferred, worker, fence, gpu, past>>
      /\ tx.at = "waited" /\ tx' = [tx EXCEPT !.at = "ordered"]
      /\ device.last \in Receipts /\ Receipts \subseteq Nat
  BY TypeParts, Numbers DEF Typed, PublishWait, DeviceTypes
<1>2. gate' \in GateTypes
  BY <1>1, TypeParts DEF Typed, GateTypes, Larger, PublishWait, publish_queued_wait
<1>3. tx' \in TxTypes /\ Placed'  BY <1>1, TxMoves
<1>4. QED  BY <1>1, <1>2, <1>3, TypeParts, TypePartsNext DEF Typed

LEMMA ForwardKeeps ==
  ASSUME Typed, Forward PROVE Typed' /\ Quiet
<1>1. /\ UNCHANGED <<packet, list, device, deferred, worker, gate, fence, past>>
      /\ tx.at = "ordered" /\ tx' = [tx EXCEPT !.at = "forwarded"]
  BY DEF Forward
<1>2. /\ tx' \in TxTypes /\ tx'.at = "forwarded" /\ Placed'
      /\ tx'.by = tx.by /\ tx'.queue = tx.queue /\ tx'.value = tx.value
      /\ tx'.packets = tx.packets
  BY <1>1, TxMoves
<1>3. gpu' \in GpuTypes /\ AllGrown
  <2>1. /\ gpu \in GpuTypes /\ tx.queue \in AllQueues /\ Private \in AllQueues
        /\ tx.packets \in SUBSET Packets /\ worker.pending \in SUBSET Packets
        /\ tx.by = Private => tx.queue = Private
    BY <1>1, Held, TypeParts, SubmissionAssumption DEF Typed, Placed, AllQueues, WorkerTypes
  <2> DEFINE s == IF tx.by = Private THEN Executed(Private, "read", worker.pending)
                  ELSE Executed(tx.queue, "write", tx.packets)
  <2>2. s \in Seq(Operation) /\ Grown(gpu[tx.queue], s)  BY <2>1, ExecutedGrown
  <2>3. gpu' = [gpu EXCEPT ![tx.queue] = s]  BY Zenon DEF Forward
  <2> HIDE DEF s
  <2>4. QED  BY <2>1, <2>2, <2>3, QueueGrows
<1>4. TypeOK'  BY <1>1, <1>2, <1>3, TypeParts, TypePartsNext DEF Typed
<1>5. QED  BY <1>1, <1>2, <1>3, <1>4 DEF Typed, Quiet, Still, Goes, SameDevice, SameTimes

LEMMA RecordTailsKeeps ==
  ASSUME Typed, RecordTails PROVE Typed' /\ Quiet
<1>1. /\ tx.at = "forwarded" /\ UNCHANGED <<list, worker, gate, fence>>
      /\ gpu \in GpuTypes /\ past \in PastTypes /\ tx \in TxTypes
      /\ deferred' \in [marked : SUBSET Packets, uncertain : BOOLEAN]
      /\ device' \in DeviceTypes /\ SameDevice /\ Failing \in BOOLEAN
  BY SettleTypes, TypeParts DEF Typed, RecordTails, SameDevice
<1> DEFINE ready(c) == IF c THEN Collected(Settled, tx, fence) ELSE Settled
       Recorded(refused, collects, nested, tails) ==
         /\ nested => past.troubles < MaxTroubles
         /\ past' = [past EXCEPT !.troubles = IF nested THEN @ + 1 ELSE @]
         /\ packet' = [p \in Packets |->
               IF p \in tails THEN [Recording EXCEPT !.retired = TRUE] ELSE ready(collects)[p]]
         /\ gpu' = IF collects THEN ProducerSignals(Settled, tx, gpu) ELSE gpu
         /\ tx' = [tx EXCEPT !.at = "recorded", !.refused = refused, !.tails = tails]
<1>2. PICK refused \in {Failing, Failing \/ tx.by # Private}, collects \in BOOLEAN,
           nested \in BOOLEAN, tails \in SUBSET Packets :
         Recorded(refused, collects, nested, tails)
  <2>1. PICK refused \in {Failing, Failing \/ tx.by # Private} :
          LET nested == refused /\ ~Failing
              collects == ~refused /\ tx.by # Private
          IN \E tails \in {{}} \cup {{p} : p \in Available(ready(collects))} :
                Recorded(refused, collects, nested, tails)
    BY Zenon DEF RecordTails
  <2> HIDE DEF ready, Recorded
  <2>2. PICK collects \in BOOLEAN, nested \in BOOLEAN :
             collects = (~refused /\ tx.by # Private) /\ nested = (refused /\ ~Failing)
    OBVIOUS
  <2>3. PICK tails \in {{}} \cup {{p} : p \in Available(ready(collects))} :
                Recorded(refused, collects, nested, tails)
    BY <2>1, <2>2, Zenon
  <2>4. tails \in SUBSET Packets  BY DEF Available
  <2>5. QED  BY <2>3, <2>4, Zenon
<1>3. past' \in PastTypes /\ SameTimes(past')
  <2>1. past.troubles \in 0..MaxTroubles /\ MaxTroubles \in Nat  BY <1>1, Numbers DEF PastTypes
  <2> DEFINE n == IF nested THEN past.troubles + 1 ELSE past.troubles
  <2>2. n \in 0..MaxTroubles  BY <1>2, <2>1
  <2>3. past' = [past EXCEPT !.troubles = n]  BY <1>2
  <2> HIDE DEF n
  <2>4. QED  BY <1>1, <2>2, <2>3 DEF PastTypes, SameTimes
<1>4. packet' \in PacketTypes
  <2>1. Settled \in PacketTypes  BY TypeParts, SettledTypes DEF Typed
  <2>2. ready(collects) \in PacketTypes  BY <2>1, CollectedTypes
  <2>3. [Recording EXCEPT !.retired = TRUE] \in Packet  BY IdleType DEF Packet
  <2> HIDE DEF ready
  <2>4. QED  BY <1>2, <2>2, <2>3 DEF PacketTypes
<1>5. gpu' \in GpuTypes /\ AllGrown
  <2>1. CASE collects  BY <1>1, <1>2, <2>1, SignalsGrown
  <2>2. CASE ~collects  BY <1>1, <1>2, <2>2, StillGrown
  <2>3. QED  BY <2>1, <2>2
<1>6. /\ tx' \in TxTypes /\ tx'.at = "recorded"
      /\ tx'.by = tx.by /\ tx'.queue = tx.queue /\ tx'.value = tx.value
      /\ tx'.packets = tx.packets
  <2>1. PICK b \in BOOLEAN : b = refused  BY <1>1
  <2>2. tx' = [tx EXCEPT !.at = "recorded", !.refused = b, !.tails = tails]  BY <1>2, <2>1, Zenon
  <2>3. QED  BY <1>1, <2>2 DEF TxTypes
<1>7. TypeOK'  BY <1>1, <1>3, <1>4, <1>5, <1>6, TypeParts, TypePartsNext DEF Typed
<1>8. Placed'  BY <1>1, <1>6 DEF Typed, Placed
<1>9. QED  BY <1>1, <1>3, <1>5, <1>6, <1>7, <1>8 DEF Typed, Quiet, Still, Goes

LEMMA SignalKeeps ==
  ASSUME Typed, NEW success \in BOOLEAN, Signal(success)
  PROVE  Typed' /\ (Quiet \/ Signals)
<1>1. /\ tx.at = "recorded" /\ UNCHANGED <<packet, list, device, deferred, worker, gate, fence>>
      /\ gpu \in GpuTypes /\ past \in PastTypes /\ tx \in TxTypes
      /\ tx.queue \in AllQueues /\ tx.tails \in SUBSET Packets /\ tx.value \in Receipts
      /\ tx.by \in Lists \cup {Private, Null}
  BY TypeParts, Held DEF Typed, Signal
<1>2. past' \in PastTypes /\ SameTimes(past')
  <2>1. past.troubles \in 0..MaxTroubles /\ MaxTroubles \in Nat  BY <1>1, Numbers DEF PastTypes
  <2> DEFINE n == IF success THEN past.troubles ELSE past.troubles + 1
  <2>2. n \in 0..MaxTroubles  BY <2>1 DEF Signal
  <2>3. past' = [past EXCEPT !.troubles = n]  BY DEF Signal
  <2> HIDE DEF n
  <2>4. QED  BY <1>1, <2>2, <2>3 DEF PastTypes, SameTimes
<1> DEFINE s == Executed(tx.queue, "write", tx.tails)
           op == Op("signal", {}, tx.value, tx.by)
<1>3. s \in Seq(Operation) /\ Grown(gpu[tx.queue], s) /\ op \in Operation
  BY <1>1, ExecutedGrown, OpTypes
<1>4. gpu' = [gpu EXCEPT ![tx.queue] = s \o IF success THEN <<op>> ELSE << >>]  BY Zenon DEF Signal
<1>5. tx' = [tx EXCEPT !.at = IF success THEN "signalled" ELSE "unsignalled"]  BY DEF Signal
<1> HIDE DEF s, op
<1>6. CASE success
  <2>1. s \o <<op>> = Append(s, op) /\ Append(s, op) \in Seq(Operation)  BY <1>3
  <2>2. gpu' = [gpu EXCEPT ![tx.queue] = Append(s, op)] /\ tx' = [tx EXCEPT !.at = "signalled"]
    BY <1>4, <1>5, <1>6, <2>1
  <2>3. tx' \in TxTypes /\ Placed'  BY <1>1, <2>2, TxMoves
  <2>4. gpu' \in GpuTypes  BY <1>1, <2>1, <2>2 DEF GpuTypes
  <2>5. TypeOK'  BY <1>1, <1>2, <2>3, <2>4, TypeParts, TypePartsNext DEF Typed
  <2>6. Signals  BY <1>1, <1>2, <1>3, <2>2 DEF Signals, op
  <2>7. QED  BY <2>3, <2>5, <2>6 DEF Typed
<1>7. CASE ~success
  <2>1. s \o << >> = s  BY <1>3
  <2>2. gpu' = [gpu EXCEPT ![tx.queue] = s] /\ tx' = [tx EXCEPT !.at = "unsignalled"]
    BY <1>4, <1>5, <1>7, <2>1
  <2>3. /\ tx' \in TxTypes /\ tx'.at = "unsignalled" /\ Placed'
        /\ tx'.by = tx.by /\ tx'.queue = tx.queue /\ tx'.value = tx.value
        /\ tx'.packets = tx.packets
    BY <1>1, <2>2, TxMoves
  <2>4. gpu' \in GpuTypes /\ AllGrown  BY <1>1, <1>3, <2>2, QueueGrows
  <2>5. TypeOK'  BY <1>1, <1>2, <2>3, <2>4, TypeParts, TypePartsNext DEF Typed
  <2>6. QED  BY <1>1, <1>2, <2>3, <2>4, <2>5 DEF Typed, Quiet, Still, Goes, SameDevice
<1>8. QED  BY <1>6, <1>7

LEMMA FinishKeeps ==
  ASSUME Typed, Finish PROVE Typed' /\ (Ends \/ Finishes)
<1> DEFINE success == tx.at = "signalled"
           refused == tx.refused \/ Failing
           pk == IF success THEN Settled ELSE fail_device(Settled)
<1>1. /\ tx.at \in {"signalled", "unsignalled"} /\ tx' = NoReceipt
      /\ UNCHANGED <<gate, fence, past>> /\ tx \in TxTypes /\ tx.queue \in AllQueues
      /\ tx.value \in Receipts /\ gpu \in GpuTypes /\ device \in DeviceTypes
      /\ Failing \in BOOLEAN
      /\ deferred' \in [marked : SUBSET Packets, uncertain : BOOLEAN]
  BY TypeParts, Held, SettleTypes DEF Typed, Finish
<1>2. PICK b \in BOOLEAN, c \in BOOLEAN : b = success /\ c = refused  BY <1>1 DEF TxTypes
<1>3. CollectInto(Accounted(pk, success, refused), NoReceipt, gpu)  BY Zenon DEF Finish
<1>4. packet' \in PacketTypes
  <2>1. Settled \in PacketTypes  BY TypeParts, SettledTypes DEF Typed
  <2>2. pk \in PacketTypes  BY <2>1, QuarantineTypes DEF fail_device
  <2> HIDE DEF pk, success, refused
  <2>3. Accounted(pk, b, c) \in PacketTypes  BY <1>1, <2>2, AccountedTypes
  <2>4. Collected(Accounted(pk, b, c), NoReceipt, fence) \in PacketTypes  BY <2>3, CollectedTypes
  <2>5. packet' = Collected(Accounted(pk, b, c), NoReceipt, fence)
    BY <1>2, <1>3, Zenon DEF CollectInto
  <2>6. QED  BY <2>4, <2>5
<1>5. gpu' \in GpuTypes /\ AllGrown
  <2> HIDE DEF pk, success, refused
  <2>1. gpu' = ProducerSignals(Accounted(pk, success, refused), NoReceipt, gpu)
    BY <1>3, Zenon DEF CollectInto
  <2>2. QED  BY <1>1, <2>1, SignalsGrown, Zenon
<1>6. /\ device' \in DeviceTypes
      /\ ~success => SameDevice
      /\ success => /\ device'.last = tx.value
                    /\ device'.simQueue = IF tx.by # Private THEN tx.queue ELSE device.simQueue
                    /\ device'.simSignal = IF tx.by # Private THEN tx.value ELSE device.simSignal
  <2>1. PICK f \in BOOLEAN : f = (Failing \/ ~success)  BY <1>1
  <2>2. device' = [last |-> IF success THEN tx.value ELSE device.last,
                   simQueue |-> IF success /\ tx.by # Private THEN tx.queue ELSE device.simQueue,
                   simSignal |-> IF success /\ tx.by # Private THEN tx.value ELSE device.simSignal,
                   failed |-> f]
    BY <2>1, Zenon DEF Finish
  <2>3. tx.by # Private => tx.queue \in Queues  BY <1>1 DEF Typed, Placed
  <2> HIDE DEF success
  <2>4. QED  BY <1>1, <2>2, <2>3 DEF DeviceTypes, SameDevice
<1>7. worker' \in WorkerTypes
  <2>1. worker \in WorkerTypes  BY TypeParts DEF Typed
  <2>2. \/ worker' = worker \/ worker' = [worker EXCEPT !.at = "failed"]
        \/ worker' = [worker EXCEPT !.at = "drawn", !.value = tx.value]
    BY DEF Finish
  <2>3. QED  BY <1>1, <2>1, <2>2 DEF WorkerTypes
<1>8. /\ tx' \in TxTypes /\ list' \in [Lists -> ListTypes] /\ Placed'
      /\ \A l \in Lists : list'[l].at = "admitted" => list[l].at = "admitted"
  BY <1>1, LeaveTypes DEF Finish
<1>9. TypeOK'  BY <1>1, <1>4, <1>5, <1>6, <1>7, <1>8, TypeParts, TypePartsNext DEF Typed
<1>10. Still  BY <1>1, <1>5 DEF Still, SameTimes
<1>11. QED  BY <1>1, <1>6, <1>8, <1>9, <1>10 DEF Typed, Ends, Finishes

LEMMA PollKeeps ==
  ASSUME Typed, Poll PROVE Typed' /\ Quiet
<1> DEFINE pk == Collected(Settled, tx, fence)
           done == {p \in Assigned(pk) :
                       /\ ~pk[p].quarantined /\ ~pk[p].leased
                       /\ pk[p].gpu = "ready" \/ (pk[p].gpu = "retiring" /\ Produced(p))
                       /\ p \notin Collectable(Settled, tx)}
           F(current, p) ==
              CASE p \in done /\ Failing -> [pk[p] EXCEPT !.quarantined = TRUE]
                [] p \in current /\ ~Failing -> [pk[p] EXCEPT !.gpu = "ready", !.leased = TRUE]
                [] p \in done \ current /\ ~Failing ->
                      IF device.last = 0 THEN [pk[p] EXCEPT !.quarantined = TRUE]
                      ELSE Spent(pk[p], device.last)
                [] OTHER -> pk[p]
<1>0. /\ UNCHANGED <<list, tx, gate, fence, past>> /\ SettleMarks /\ SettleDevice
      /\ gpu' = ProducerSignals(Settled, tx, gpu)
  BY Zenon DEF Poll
<1>1. /\ gpu \in GpuTypes /\ device \in DeviceTypes /\ Failing \in BOOLEAN
      /\ deferred' \in [marked : SUBSET Packets, uncertain : BOOLEAN]
      /\ device' \in DeviceTypes /\ SameDevice
  BY <1>0, SettleTypes, TypeParts DEF Typed, SameDevice
<1>2. PICK current \in SUBSET done :
        /\ packet' = [p \in Packets |-> F(current, p)]
        /\ worker' = [worker EXCEPT !.incoming = IF Failing THEN {} ELSE current]
  BY Zenon DEF Poll
<1>3. pk \in PacketTypes  BY TypeParts, SettledTypes, CollectedTypes DEF Typed
<1>4. done \subseteq Packets  BY DEF Assigned
<1> HIDE DEF pk, done
<1>5. packet' \in PacketTypes
  <2>1. ASSUME NEW p \in Packets PROVE F(current, p) \in Packet
    <3>1. /\ pk[p] \in Packet /\ [pk[p] EXCEPT !.quarantined = TRUE] \in Packet
          /\ [pk[p] EXCEPT !.gpu = "ready", !.leased = TRUE] \in Packet
      BY <1>3 DEF PacketTypes, Packet, GpuStates
    <3>2. Spent(pk[p], device.last) \in Packet  BY <1>1, <3>1, SpentTypes DEF DeviceTypes
    <3>3. CASE p \in done /\ Failing  BY <3>1, <3>3
    <3>4. CASE p \in current /\ ~Failing  BY <3>1, <3>4
    <3>5. CASE p \in done \ current /\ ~Failing  BY <3>1, <3>2, <3>5
    <3>6. CASE p \notin done  BY <3>1, <3>6
    <3>7. QED  BY <3>3, <3>4, <3>5, <3>6
  <2> HIDE DEF F
  <2>2. QED  BY <1>2, <2>1 DEF PacketTypes
<1> HIDE DEF F
<1>6. worker' \in WorkerTypes
  <2>1. worker \in WorkerTypes  BY TypeParts DEF Typed
  <2>2. PICK S \in SUBSET Packets : S = IF Failing THEN {} ELSE current  BY <1>4
  <2>3. worker' = [worker EXCEPT !.incoming = S]  BY <1>2, <2>2
  <2>4. QED  BY <2>1, <2>3 DEF WorkerTypes
<1>7. gpu' \in GpuTypes /\ AllGrown  BY <1>0, <1>1, SignalsGrown
<1>8. TypeOK'  BY <1>0, <1>1, <1>5, <1>6, <1>7, TypeParts, TypePartsNext DEF Typed
<1>9. Placed'  BY <1>0, <1>1, PackUnchanged
<1>10. QED  BY <1>0, <1>1, <1>7, <1>8, <1>9 DEF Typed, Quiet, Still, SameTimes

\* The worker's own steps leave the queues alone.
LEMMA WorkerKeeps ==
  ASSUME Typed, packet' \in PacketTypes, worker' \in WorkerTypes, past' \in PastTypes,
         SameTimes(past'), UNCHANGED <<list, tx, device, deferred, gate, fence, gpu>>
  PROVE  Typed' /\ Quiet
<1>1. gpu' \in GpuTypes /\ AllGrown  BY StillGrown, TypeParts DEF Typed
<1>2. TypeOK'  BY <1>1, TypeParts, TypePartsNext DEF Typed
<1>3. Placed'  BY PackUnchanged
<1>4. QED  BY <1>1, <1>2, <1>3 DEF Typed, Quiet, Still, SameDevice

LEMMA WorkerParts ==
  ASSUME Typed
  PROVE  /\ packet \in PacketTypes /\ worker \in WorkerTypes /\ past \in PastTypes
         /\ device \in DeviceTypes /\ SameTimes(past)
         /\ \A S : Discarded(S) \in PacketTypes
BY DiscardedTypes, TypeParts DEF Typed, DeviceTypes, SameTimes

LEMMA TakeKeeps ==
  ASSUME Typed, NEW p \in Packets, Take(p) PROVE Typed' /\ Quiet
<1>1. UNCHANGED <<list, tx, device, deferred, gate, fence, gpu>>  BY DEF Take
<1>2. CASE /\ packet' = Discarded({p})
           /\ worker' = [worker EXCEPT !.incoming = @ \ {p}]
           /\ UNCHANGED past
  BY <1>2, WorkerParts, <1>1, WorkerKeeps DEF WorkerTypes, SameTimes
<1>3. CASE /\ newer_than(p)
           /\ packet' = Discarded(worker.pending)
           /\ worker' = [worker EXCEPT !.incoming = @ \ {p}, !.pending = {p},
                                       !.newest = packet[p].order]
           /\ past' = [past EXCEPT !.outdated = @ \cup
                                        IF Trusted(p) THEN Outdated(p) ELSE {}]
  <2>1. packet[p].order \in Orders /\ Outdated(p) \subseteq Packets
    BY WorkerParts DEF PacketTypes, Packet, Outdated, PastTypes
  <2>2. worker' \in WorkerTypes  BY <1>3, <2>1, WorkerParts DEF WorkerTypes
  <2>3. PICK S \in SUBSET Packets : S = past.outdated \cup IF Trusted(p) THEN Outdated(p) ELSE {}
    BY <2>1, WorkerParts DEF PastTypes
  <2>4. past' = [past EXCEPT !.outdated = S]  BY <1>3, <2>3
  <2>5. past' \in PastTypes /\ SameTimes(past')  BY <2>4, WorkerParts DEF PastTypes, SameTimes
  <2>6. packet' \in PacketTypes  BY <1>3, WorkerParts
  <2>7. QED  BY <1>1, <2>2, <2>5, <2>6, WorkerKeeps
<1>4. QED  BY <1>2, <1>3 DEF Take

LEMMA DropPendingKeeps ==
  ASSUME Typed, DropPending PROVE Typed' /\ Quiet
<1>1. /\ UNCHANGED <<list, tx, device, deferred, gate, fence, gpu, past>>
      /\ packet' = Discarded(worker.pending) /\ worker' = [worker EXCEPT !.pending = {}]
  BY DEF DropPending
<1>2. worker' \in WorkerTypes  BY <1>1, WorkerParts DEF WorkerTypes
<1>3. packet' \in PacketTypes /\ past' \in PastTypes /\ SameTimes(past')
  BY <1>1, WorkerParts DEF SameTimes
<1>4. QED  BY <1>1, <1>2, <1>3, WorkerKeeps

LEMMA FinishConsumptionKeeps ==
  ASSUME Typed, FinishConsumption PROVE Typed' /\ Quiet
<1>1. /\ UNCHANGED <<list, tx, device, deferred, gate, fence, gpu, past>>
      /\ past' \in PastTypes /\ SameTimes(past')
  BY WorkerParts DEF FinishConsumption, SameTimes
<1>2. packet' \in PacketTypes
  BY WorkerParts, SpentTypes DEF PacketTypes, CoveredBy, WorkerTypes, FinishConsumption
<1>3. worker' \in WorkerTypes
  <2>1. PICK b \in BOOLEAN : b = (worker.page \/ worker.pending = {})
    BY WorkerParts DEF WorkerTypes
  <2>2. worker' = [worker EXCEPT !.at = "idle", !.pending = {}, !.value = 0, !.page = b]
    BY <2>1, Zenon DEF FinishConsumption
  <2>3. QED  BY <2>2, WorkerParts, Numbers DEF WorkerTypes
<1>4. QED  BY <1>1, <1>2, <1>3, WorkerKeeps

LEMMA DrawKeeps ==
  ASSUME Typed, Draw PROVE Typed' /\ (Quiet \/ Begins)
<1>1. /\ packet' \in PacketTypes /\ tx.at = "none"
      /\ deferred' \in [marked : SUBSET Packets, uncertain : BOOLEAN]
      /\ device' \in DeviceTypes /\ SameDevice
      /\ UNCHANGED <<list, gate, fence, gpu, past>>
  BY SettledTypes, SettleTypes, Alone, TypeParts DEF Typed, Draw, SameDevice
<1>2. worker' \in WorkerTypes  BY WorkerParts DEF Draw, WorkerTypes
<1>3. Still /\ gpu' \in GpuTypes  BY <1>1, SameStill
<1>4. CASE Failing
  <2>1. UNCHANGED tx  BY <1>4 DEF Draw
  <2>2. TypeOK'  BY <1>1, <1>2, <1>3, <2>1, TypeParts, TypePartsNext DEF Typed
  <2>3. QED  BY <1>1, <1>3, <2>1, <2>2, PackUnchanged DEF Typed, Quiet
<1>5. CASE ~Failing
  <2>1. /\ begin_transaction(Private, Private, {}) /\ device.last < MaxReceipts
        /\ Private \in AllQueues /\ {} \in SUBSET Packets
    BY <1>5 DEF Draw, AllQueues
  <2>2. tx' \in TxTypes /\ tx'.by = Private /\ tx'.queue = Private /\ tx'.at = "reserved"
    BY <2>1, BeginTypes
  <2>3. TypeOK'  BY <1>1, <1>2, <1>3, <2>2, TypeParts, TypePartsNext DEF Typed
  <2>4. Placed'  BY <1>1, <2>2 DEF Typed, Placed
  <2>5. Begins  BY <1>1, <1>3, <2>1 DEF Begins
  <2>6. QED  BY <2>3, <2>4, <2>5 DEF Typed
<1>6. QED  BY <1>4, <1>5

(* The watchdog and the GPU. *)

LEMMA WatchdogKeeps ==
  ASSUME Typed, WatchdogStep PROVE Typed'
<1>1. UNCHANGED <<packet, list, tx, device, deferred, worker, gpu>>
  BY DEF WatchdogStep, CloseGate, release_queued_waits, OpenGate
<1>2. gate \in GateTypes /\ past \in PastTypes /\ fence \in Receipts  BY TypeParts DEF Typed
<1>3. gate' \in GateTypes /\ past' \in PastTypes /\ fence' \in Receipts
  <2>1. CASE CloseGate
    <3>1. gate.closes + 1 \in 0..MaxCloses  BY <1>2, <2>1, Numbers DEF CloseGate, GateTypes
    <3>2. gate' = [gate EXCEPT !.open = FALSE, !.at = "releasing", !.closes = @ + 1]
      BY <2>1 DEF CloseGate
    <3>3. gate' \in GateTypes  BY <1>2, <3>1, <3>2 DEF GateTypes
    <3>4. QED  BY <1>2, <2>1, <3>3 DEF CloseGate
  <2>2. CASE release_queued_waits
    <3> DEFINE v == IF Unreleased THEN gate.waited ELSE gate.released
               b == past.overtaken \/ (Unreleased /\ fence < gate.waited)
    <3>1. v \in Receipts  BY <1>2 DEF GateTypes
    <3>2. gate' = [gate EXCEPT !.at = "watching", !.released = v]  BY <2>2 DEF release_queued_waits
    <3>3. PastGate \subseteq Lists \cup {Private}  BY TypeParts, Held, Zenon DEF PastGate, Typed
    <3>4. PICK c \in BOOLEAN : c = b  BY <1>2 DEF PastTypes
    <3>5. past' = [past EXCEPT !.late = PastGate, !.overtaken = c]
      BY <2>2, <3>4, Zenon DEF release_queued_waits
    <3> HIDE DEF v, b
    <3>6. gate' \in GateTypes  BY <1>2, <3>1, <3>2 DEF GateTypes
    <3>7. past' \in PastTypes  BY <1>2, <3>3, <3>5 DEF PastTypes
    <3>8. fence' \in Receipts  BY <1>2, <2>2 DEF release_queued_waits, GateTypes
    <3>9. QED  BY <3>6, <3>7, <3>8
  <2>3. CASE OpenGate
    <3>1. gate' = [gate EXCEPT !.open = TRUE] /\ past' = [past EXCEPT !.late = {}]
      BY <2>3 DEF OpenGate
    <3>2. gate' \in GateTypes  BY <1>2, <3>1 DEF GateTypes
    <3>3. past' \in PastTypes  BY <1>2, <3>1 DEF PastTypes
    <3>4. QED  BY <1>2, <2>3, <3>2, <3>3 DEF OpenGate
  <2>4. QED  BY <2>1, <2>2, <2>3 DEF WatchdogStep
<1>4. TypeOK'  BY <1>1, <1>3, TypeParts, TypePartsNext DEF Typed
<1>5. QED  BY <1>1, <1>4, PackUnchanged DEF Typed

LEMMA RunKeeps ==
  ASSUME Typed, NEW q \in AllQueues, Run(q) PROVE Typed' /\ Runs(q)
<1> DEFINE op == Head(gpu[q])
<1>1. /\ gpu \in GpuTypes /\ past \in PastTypes /\ fence \in Receipts
      /\ gpu[q] \in Seq(Operation) /\ gpu[q] # << >> /\ Receipts \subseteq Nat
  BY TypeParts, Numbers DEF Typed, Run, GpuTypes
<1>2. /\ Len(gpu[q]) > 0 /\ op = gpu[q][1] /\ op \in Operation /\ Tail(gpu[q]) \in Seq(Operation)
  BY <1>1
<1>3. /\ UNCHANGED <<packet, list, tx, device, deferred, worker, gate>>
      /\ gpu' = [gpu EXCEPT ![q] = Tail(@)]
      /\ op.kind = "wait" => fence >= op.value
      /\ fence' = IF op.kind = "signal" THEN op.value ELSE fence
      /\ past' = CASE op.kind = "signal" -> [past EXCEPT !.setBack = @ \/ op.value < fence]
                   [] op.kind = "write" ->
                         [past EXCEPT !.written = @ \cup op.packets,
                                      !.older = Rewritten(op.packets),
                                      !.outdated = @ \ op.packets]
                   [] OTHER -> past
  BY Zenon DEF Run
<1> HIDE DEF op
<1>4. gpu' \in GpuTypes /\ fence' \in Receipts  BY <1>1, <1>2, <1>3 DEF GpuTypes, Operation
<1>5. /\ past' \in PastTypes /\ past'.overtaken = past.overtaken /\ past'.late = past.late
      /\ ~past'.setBack => ~past.setBack /\ fence' >= fence
  <2>1. CASE op.kind = "signal"
    <3>1. PICK b \in BOOLEAN : b = (past.setBack \/ op.value < fence)  BY <1>1 DEF PastTypes
    <3>2. past' = [past EXCEPT !.setBack = b]  BY <1>3, <2>1, <3>1, Zenon
    <3>3. /\ past' \in PastTypes /\ past'.setBack = b
          /\ past'.overtaken = past.overtaken /\ past'.late = past.late
      BY <1>1, <3>2 DEF PastTypes
    <3>4. ~b => ~past.setBack /\ op.value >= fence
      <4>1. op.value \in Nat /\ fence \in Nat  BY <1>1, <1>2 DEF Operation
      <4>2. ~b => ~past.setBack /\ ~(op.value < fence)  BY <3>1, Zenon
      <4>3. QED  BY <4>1, <4>2
    <3>5. QED  BY <1>3, <2>1, <3>3, <3>4
  <2>2. CASE op.kind = "write"
    <3>1. past' = [past EXCEPT !.written = @ \cup op.packets,
                               !.older = Rewritten(op.packets), !.outdated = @ \ op.packets]
      BY <1>3, <2>2
    <3>2. Rewritten(op.packets) \in [Packets -> SUBSET Packets] /\ op.packets \subseteq Packets
      BY <1>1, <1>2 DEF Rewritten, PastTypes, Operation
    <3>3. /\ past' \in PastTypes /\ past'.setBack = past.setBack
          /\ past'.overtaken = past.overtaken /\ past'.late = past.late
      BY <1>1, <3>1, <3>2 DEF PastTypes
    <3>4. QED  BY <1>1, <1>3, <2>2, <3>3
  <2>3. CASE op.kind \notin {"signal", "write"}  BY <1>1, <1>3, <2>3
  <2>4. QED  BY <2>1, <2>2, <2>3
<1>6. TypeOK'  BY <1>3, <1>4, <1>5, TypeParts, TypePartsNext DEF Typed
<1>7. Placed'  BY <1>3, PackUnchanged
<1>8. Runs(q)  BY <1>2, <1>3, <1>5 DEF Runs
<1>9. QED  BY <1>6, <1>7, <1>8 DEF Typed

(* Every step is of one of these kinds. *)

LEMMA NextKeeps ==
  ASSUME Typed, [Next]_vars PROVE Typed' /\ TimelineStep
<1>1. CASE UNCHANGED vars  BY <1>1, WorkerParts, WorkerKeeps DEF vars, TimelineStep, SameTimes
<1>2. ASSUME NEW l \in Lists, ListStep(l) PROVE Typed' /\ TimelineStep
  BY <1>2, CaptureKeeps, ResetKeeps, EnterKeeps, RefuseKeeps, EscapeKeeps,
     ForwardUnorderedKeeps, ReserveKeeps DEF ListStep, TimelineStep
<1>3. CASE ReceiptStep
  BY <1>3, QueueWaitKeeps, FailWaitKeeps, PublishWaitKeeps, ForwardKeeps, RecordTailsKeeps,
     SignalKeeps, FinishKeeps DEF ReceiptStep, TimelineStep
<1>4. CASE WorkerStep
  BY <1>4, PollKeeps, DropPendingKeeps, DrawKeeps, FinishConsumptionKeeps, TakeKeeps
  DEF WorkerStep, TimelineStep
<1>5. CASE WatchdogStep  BY <1>5, WatchdogKeeps DEF WatchdogStep, TimelineStep
<1>6. ASSUME NEW q \in AllQueues, Run(q) PROVE Typed' /\ TimelineStep
  BY <1>6, RunKeeps DEF TimelineStep
<1>7. QED  BY <1>1, <1>2, <1>3, <1>4, <1>5, <1>6 DEF Next

LEMMA InitTyped == Init => Typed
<1> SUFFICES ASSUME Init PROVE Typed  OBVIOUS
<1>1. packet \in PacketTypes  BY IdleType DEF Init, PacketTypes
<1>2. list \in [Lists -> ListTypes] /\ \A l \in Lists : list[l].at = "free"  BY DEF Init, ListTypes
<1>3. tx \in TxTypes /\ tx.at = "none" /\ tx.by = Null  BY NoReceiptTypes DEF Init, NoReceipt
<1>4. device \in DeviceTypes /\ worker \in WorkerTypes /\ gate \in GateTypes
  <2>1. device \in DeviceTypes  BY Numbers DEF Init, DeviceTypes
  <2>2. worker \in WorkerTypes  BY Numbers DEF Init, WorkerTypes
  <2>3. 0 \in 0..MaxCloses  BY Numbers
  <2>4. gate \in GateTypes  BY <2>3, Numbers DEF Init, GateTypes
  <2>5. QED  BY <2>1, <2>2, <2>4
<1>5. /\ deferred \in [marked : SUBSET Packets, uncertain : BOOLEAN]
      /\ fence \in Receipts
  BY Numbers DEF Init
<1>6. gpu \in GpuTypes  BY DEF Init, GpuTypes
<1>7. past \in PastTypes  BY Numbers DEF Init, PastTypes
<1>8. TypeOK  BY <1>1, <1>2, <1>3, <1>4, <1>5, <1>6, <1>7, TypeParts
<1>9. QED  BY <1>2, <1>3, <1>8 DEF Typed, Placed

(* The Waits and Signals of the queues, step by step. *)

LEMMA OpOf ==
  ASSUME Typed, NEW q \in AllQueues, NEW i \in Nat
  PROVE  /\ gpu[q] \in Seq(Operation) /\ Len(gpu[q]) \in Nat
         /\ Waiting(q, i) \/ Signalling(q, i) =>
              /\ gpu[q][i] \in Operation /\ gpu[q][i].value \in Nat
              /\ gpu[q][i].packets \subseteq Packets /\ i > 0
         /\ ~(Waiting(q, i) /\ Signalling(q, i))
<1>1. gpu[q] \in Seq(Operation) /\ Receipts \subseteq Nat  BY TypeParts, Numbers DEF Typed, GpuTypes
<1>2. Len(gpu[q]) \in Nat /\ \A n \in 1..Len(gpu[q]) : gpu[q][n] \in Operation  BY <1>1
<1>3. ~(Waiting(q, i) /\ Signalling(q, i))  BY DEF Waiting, Signalling
<1>4. ASSUME Waiting(q, i) \/ Signalling(q, i)
      PROVE  gpu[q][i] \in Operation /\ i > 0
  BY <1>2, <1>4 DEF Waiting, Signalling
<1>5. \A op \in Operation : op.value \in Nat /\ op.packets \subseteq Packets  BY <1>1 DEF Operation
<1>6. QED  BY <1>1, <1>2, <1>3, <1>4, <1>5

LEMMA GrownOps ==
  ASSUME Typed, AllGrown PROVE SameOps
<1> SUFFICES ASSUME NEW q \in AllQueues, NEW i \in Nat PROVE SameOp(q, i)  BY DEF SameOps
<1>1. Grown(gpu[q], gpu'[q]) /\ Len(gpu[q]) \in Nat  BY OpOf DEF AllGrown
<1>2. CASE i \in 1..Len(gpu[q])  BY <1>1, <1>2 DEF Grown, SameOp, Waiting, Signalling
<1>3. CASE i \notin 1..Len(gpu[q])  BY <1>1, <1>3 DEF Grown, SameOp, Waiting, Signalling, Timely
<1>4. QED  BY <1>2, <1>3

LEMMA AppendsOp ==
  ASSUME Typed, NEW q \in AllQueues, NEW s \in Seq(Operation), Grown(gpu[q], s),
         NEW op \in Operation, gpu' = [gpu EXCEPT ![q] = Append(s, op)]
  PROVE  \E n \in Nat : /\ NewOp(q, n, op)
                        /\ Waiting(q, n)' <=> op.kind = "wait"
                        /\ Signalling(q, n)' <=> op.kind = "signal"
<1> DEFINE n == Len(s) + 1
           t == Append(s, op)
<1>1. gpu \in GpuTypes /\ gpu[q] \in Seq(Operation) /\ Len(gpu[q]) \in Nat /\ Len(s) \in Nat
  BY OpOf, TypeParts DEF Typed, GpuTypes
<1>2. /\ t \in Seq(Operation) /\ Len(t) = n
      /\ \A i \in 1..Len(s) : t[i] = s[i]
      /\ t[n] = op
  BY AppendProperties
<1> HIDE DEF t
<1>3. gpu'[q] = t /\ \A r \in AllQueues \ {q} : gpu'[r] = gpu[r]  BY <1>1 DEF GpuTypes, t
<1>4. n \in Nat /\ n \in 1..Len(t) /\ Len(gpu[q]) < n  BY <1>1, <1>2 DEF Grown
<1>5. ASSUME NEW i \in Nat, i # n PROVE SameOp(q, i)
  <2>1. CASE i \in 1..Len(gpu[q])  BY <1>1, <2>1, <1>2, <1>3 DEF Grown, SameOp, Waiting, Signalling
  <2>2. CASE i \notin 1..Len(gpu[q])
    <3>1. i \in 1..Len(t) => t[i].kind \notin Timely
      <4>1. SUFFICES ASSUME i \in 1..Len(t) PROVE t[i].kind \notin Timely  OBVIOUS
      <4>2. i \in 1..Len(s) /\ i > Len(gpu[q])  BY <1>1, <1>2, <1>5, <2>2, <4>1
      <4>3. QED  BY <1>2, <4>2 DEF Grown
    <3>2. QED  BY <1>3, <2>2, <3>1 DEF SameOp, Waiting, Signalling, Timely
  <2>3. QED  BY <2>1, <2>2
<1>6. ASSUME NEW r \in AllQueues \ {q}, NEW i \in Nat PROVE SameOp(r, i)
  BY <1>3 DEF SameOp, Waiting, Signalling
<1>7. \A i \in Nat : Waiting(q, i) \/ Signalling(q, i) => i < n
  BY <1>1, <1>4 DEF Waiting, Signalling
<1>8. gpu'[q][n] = op  BY <1>2, <1>3
<1> HIDE DEF n
<1>9. NewOp(q, n, op)  BY <1>5, <1>6, <1>7, <1>8 DEF NewOp
<1>10. /\ Waiting(q, n)' <=> op.kind = "wait"
       /\ Signalling(q, n)' <=> op.kind = "signal"
  BY <1>3, <1>4, <1>8 DEF Waiting, Signalling
<1>11. QED  BY <1>4, <1>9, <1>10

LEMMA WaitAppends ==
  ASSUME Typed, Waits
  PROVE  \E q \in AllQueues, n \in Nat :
            /\ q = tx.queue /\ NewOp(q, n, WaitOp) /\ Waiting(q, n)' /\ ~Signalling(q, n)'
            /\ WaitOp.packets = tx.packets /\ WaitOp.value = device.last /\ WaitOp.by = tx.by
<1>1. PICK q \in AllQueues : q = tx.queue  BY Held DEF Waits
<1>2. /\ WaitOp \in Operation /\ WaitOp.kind = "wait"
      /\ WaitOp.packets = tx.packets /\ WaitOp.value = device.last /\ WaitOp.by = tx.by
  BY Held, OpTypes, TypeParts DEF Typed, Waits, DeviceTypes, WaitOp
<1>3. gpu[q] \in Seq(Operation) /\ Grown(gpu[q], gpu[q])
  BY SelfGrown, TypeParts DEF Typed, GpuTypes
<1>4. gpu' = [gpu EXCEPT ![q] = Append(gpu[q], WaitOp)]  BY <1>1 DEF Waits, WaitOp
<1>5. PICK n \in Nat : /\ NewOp(q, n, WaitOp)
                       /\ Waiting(q, n)' <=> WaitOp.kind = "wait"
                       /\ Signalling(q, n)' <=> WaitOp.kind = "signal"
  BY <1>2, <1>3, <1>4, AppendsOp
<1>6. QED  BY <1>1, <1>2, <1>5

LEMMA SignalAppends ==
  ASSUME Typed, Signals
  PROVE  \E q \in AllQueues, n \in Nat :
            /\ q = tx.queue /\ NewOp(q, n, SignalOp) /\ ~Waiting(q, n)' /\ Signalling(q, n)'
            /\ SignalOp.value = tx.value
<1>1. PICK q \in AllQueues : q = tx.queue  BY Held DEF Signals
<1>2. /\ SignalOp \in Operation /\ SignalOp.kind = "signal" /\ SignalOp.value = tx.value
  BY Held, OpTypes DEF Signals, SignalOp
<1>3. PICK s \in Seq(Operation) :
        Grown(gpu[q], s) /\ gpu' = [gpu EXCEPT ![q] = Append(s, SignalOp)]
  BY <1>1 DEF Signals, SignalOp
<1>4. PICK n \in Nat : /\ NewOp(q, n, SignalOp)
                       /\ Waiting(q, n)' <=> SignalOp.kind = "wait"
                       /\ Signalling(q, n)' <=> SignalOp.kind = "signal"
  BY <1>2, <1>3, AppendsOp
<1>5. QED  BY <1>1, <1>2, <1>4

LEMMA RunMoves ==
  ASSUME Typed, NEW q \in AllQueues, Runs(q)
  PROVE  /\ \A r \in AllQueues \ {q} : \A i \in Nat : SameOp(r, i)
         /\ \A i \in Nat \ {0} : NextOp(q, i)
         /\ ~Waiting(q, 0)' /\ ~Signalling(q, 0)'
<1> DEFINE s == gpu[q]
<1>1. gpu \in GpuTypes /\ s \in Seq(Operation) /\ Len(s) \in Nat /\ s # << >>
  BY OpOf, TypeParts DEF Typed, GpuTypes, Runs
<1>2. Len(Tail(s)) = Len(s) - 1 /\ \A i \in 1..(Len(s) - 1) : Tail(s)[i] = s[i + 1]  BY <1>1
<1>3. gpu'[q] = Tail(s) /\ \A r \in AllQueues \ {q} : gpu'[r] = gpu[r]  BY <1>1 DEF GpuTypes, Runs
<1>4. \A r \in AllQueues \ {q} : \A i \in Nat : SameOp(r, i)
  BY <1>3 DEF SameOp, Waiting, Signalling
<1>5. ASSUME NEW i \in Nat \ {0} PROVE NextOp(q, i)
  BY <1>1, <1>2, <1>3 DEF NextOp, Waiting, Signalling
<1>6. QED  BY <1>4, <1>5 DEF Waiting, Signalling

LEMMA Times ==
  Typed => /\ device.last \in Nat /\ device.simSignal \in Nat /\ tx.value \in Nat
           /\ gate.waited \in Nat /\ gate.released \in Nat /\ fence \in Nat
           /\ Newest \in Nat
BY TypeParts, Numbers DEF Typed, DeviceTypes, TxTypes, GateTypes, Newest

LEMMA TimesNext ==
  Typed' => /\ device'.last \in Nat /\ device'.simSignal \in Nat /\ tx'.value \in Nat
            /\ gate'.waited \in Nat /\ gate'.released \in Nat /\ fence' \in Nat
            /\ Newest' \in Nat
BY TypePartsNext, Numbers DEF Typed, DeviceTypes, TxTypes, GateTypes, Newest

LEMMA QueuesStayBounded ==
  ASSUME Typed, Typed', QueuesBounded, SameOps, Newest <= Newest', device.last <= device'.last
  PROVE  QueuesBounded'
<1> SUFFICES ASSUME NEW q \in AllQueues, NEW i \in Nat
             PROVE  /\ Waiting(q, i)' => gpu'[q][i].value <= device'.last
                    /\ Signalling(q, i)' => gpu'[q][i].value <= Newest'
  BY DEF QueuesBounded
<1>1. SameOp(q, i)  BY DEF SameOps
<1>2. /\ Waiting(q, i) => gpu[q][i].value <= device.last
      /\ Signalling(q, i) => gpu[q][i].value <= Newest
  BY DEF QueuesBounded
<1>3. Waiting(q, i) \/ Signalling(q, i) => gpu[q][i].value \in Nat  BY OpOf
<1>4. QED  BY <1>1, <1>2, <1>3, Times, TimesNext DEF SameOp

LEMMA BoundedKeeps ==
  ASSUME Sound, Typed', TimelineStep PROVE Bounded'
<1>0. Typed /\ Bounded /\ QueuesBounded  BY DEF Sound, Bounded, QueuesBounded
<1> USE <1>0, Times, TimesNext
<1>1. CASE Quiet
  <2>1. Newest' = Newest /\ SameDevice /\ UNCHANGED <<gate, fence>> /\ AllGrown
    BY <1>1 DEF Quiet, Still, SameDevice, Goes, Newest
  <2>2. QueuesBounded'  BY <2>1, GrownOps, QueuesStayBounded DEF SameDevice
  <2>3. tx'.at # "none" => tx'.value = device'.last + 1
    BY <1>1 DEF Quiet, Goes, SameDevice, Bounded
  <2>4. QED  BY <2>1, <2>2, <2>3 DEF Bounded, QueuesBounded, SameDevice
<1>2. CASE Begins
  <2>1. tx'.at = "reserved" /\ tx'.value = device.last + 1  BY <1>2 DEF Begins, begin_transaction
  <2>2. Newest' = Newest /\ SameDevice /\ UNCHANGED <<gate, fence>> /\ AllGrown
    BY <1>2, <2>1 DEF Begins, Still, SameDevice, Newest
  <2>3. QueuesBounded'  BY <2>2, GrownOps, QueuesStayBounded DEF SameDevice
  <2>4. QED  BY <2>1, <2>2, <2>3 DEF Bounded, QueuesBounded, SameDevice
<1>3. CASE Waits
  <2>1. PICK q \in AllQueues, n \in Nat :
            /\ q = tx.queue /\ NewOp(q, n, WaitOp) /\ Waiting(q, n)' /\ ~Signalling(q, n)'
            /\ WaitOp.packets = tx.packets /\ WaitOp.value = device.last /\ WaitOp.by = tx.by
    BY <1>3, WaitAppends
  <2>2. tx'.at = "waited" /\ tx'.value = tx.value /\ UNCHANGED <<device, gate, fence>>
        /\ Newest' = Newest
    BY <1>3, TypeParts DEF Typed, TxTypes, Waits, Newest
  <2>3. QueuesBounded'
    <3> SUFFICES ASSUME NEW r \in AllQueues, NEW i \in Nat
                 PROVE  /\ Waiting(r, i)' => gpu'[r][i].value <= device'.last
                        /\ Signalling(r, i)' => gpu'[r][i].value <= Newest'
      BY DEF QueuesBounded
    <3>1. CASE r = q /\ i = n  BY <2>1, <2>2, <3>1 DEF NewOp
    <3>2. CASE r # q \/ i # n  BY <2>1, <3>2, <2>2 DEF NewOp, SameOp, QueuesBounded
    <3>3. QED  BY <3>1, <3>2
  <2>4. QED  BY <1>3, <2>2, <2>3 DEF Bounded, QueuesBounded, Waits
<1>4. CASE PublishWait
  <2>1. /\ tx.at = "waited" /\ tx'.at = "ordered" /\ tx'.value = tx.value
        /\ UNCHANGED <<device, fence, gpu>> /\ Newest' = Newest
    BY <1>4, TypeParts DEF Typed, TxTypes, PublishWait, Newest
  <2>2. gate'.waited = Larger(gate.waited, device.last) /\ gate'.released = gate.released
    BY <1>4, TypeParts DEF Typed, GateTypes, PublishWait, publish_queued_wait
  <2>3. gate'.waited <= device'.last /\ gate'.released <= gate'.waited
    BY <2>1, <2>2 DEF Bounded, Larger
  <2>4. QueuesBounded'  BY <2>1, StillGrown, GrownOps, QueuesStayBounded, TypeParts DEF Typed
  <2>5. QED  BY <2>1, <2>3, <2>4 DEF Bounded, QueuesBounded
<1>5. CASE Ends
  <2>1. Newest' = Newest /\ SameDevice /\ UNCHANGED <<gate, fence>> /\ AllGrown /\ tx'.at = "none"
    BY <1>5 DEF Ends, Still, SameDevice, Newest, NoReceipt
  <2>2. QueuesBounded'  BY <2>1, GrownOps, QueuesStayBounded DEF SameDevice
  <2>3. QED  BY <2>1, <2>2 DEF Bounded, QueuesBounded, SameDevice
<1>6. CASE Signals
  <2>1. PICK q \in AllQueues, n \in Nat :
            /\ q = tx.queue /\ NewOp(q, n, SignalOp) /\ ~Waiting(q, n)' /\ Signalling(q, n)'
            /\ SignalOp.value = tx.value
    BY <1>6, SignalAppends
  <2>2. /\ tx'.at = "signalled" /\ tx'.value = tx.value /\ UNCHANGED <<device, gate, fence>>
        /\ Newest = device.last /\ Newest' = tx.value /\ tx.value = device.last + 1
    BY <1>6, TypeParts DEF Typed, TxTypes, Signals, Newest, Bounded
  <2>3. QueuesBounded'
    <3> SUFFICES ASSUME NEW r \in AllQueues, NEW i \in Nat
                 PROVE  /\ Waiting(r, i)' => gpu'[r][i].value <= device'.last
                        /\ Signalling(r, i)' => gpu'[r][i].value <= Newest'
      BY DEF QueuesBounded
    <3>1. CASE r = q /\ i = n  BY <2>1, <2>2, <3>1 DEF NewOp
    <3>2. CASE r # q \/ i # n
      <4>1. SameOp(r, i)  BY <2>1, <3>2 DEF NewOp
      <4>2. Waiting(r, i) \/ Signalling(r, i) => gpu[r][i].value \in Nat  BY OpOf
      <4>3. /\ Waiting(r, i) => gpu[r][i].value <= device.last
            /\ Signalling(r, i) => gpu[r][i].value <= Newest
        BY DEF QueuesBounded
      <4>4. QED  BY <2>2, <4>1, <4>2, <4>3 DEF SameOp
    <3>3. QED  BY <3>1, <3>2
  <2>4. QED  BY <2>2, <2>3 DEF Bounded, QueuesBounded
<1>7. CASE Finishes
  <2>1. /\ tx.at = "signalled" /\ tx.value = device.last + 1 /\ tx'.at = "none"
        /\ device'.last = tx.value /\ Newest = tx.value /\ Newest' = tx.value
        /\ UNCHANGED <<gate, fence>> /\ AllGrown
    BY <1>7 DEF Finishes, Still, Bounded, Newest, NoReceipt
  <2>2. QueuesBounded'  BY <2>1, GrownOps, QueuesStayBounded
  <2>3. /\ device'.simSignal <= device'.last
        /\ device'.simSignal > 0 => device'.simQueue \in Queues
    BY <2>1, <1>7 DEF Typed, Placed, Finishes, Bounded
  <2>4. QED  BY <2>1, <2>2, <2>3 DEF Bounded, QueuesBounded
<1>8. CASE CloseGate \/ release_queued_waits \/ OpenGate
  <2>1. UNCHANGED <<tx, device, gpu>> /\ Newest' = Newest
    BY <1>8 DEF CloseGate, release_queued_waits, OpenGate, Newest
  <2>2. QueuesBounded'  BY <2>1, StillGrown, GrownOps, QueuesStayBounded, TypeParts DEF Typed
  <2>3. /\ gate'.waited = gate.waited /\ gate'.released \in {gate.waited, gate.released}
        /\ fence' = fence \/ fence' = gate.waited
    BY <1>8, TypeParts
    DEF Typed, GateTypes, CloseGate, release_queued_waits, OpenGate, Unreleased
  <2>4. gate.waited <= device.last /\ device.last <= Newest  BY DEF Bounded, Newest
  <2>5. fence' <= Newest' /\ gate'.released <= gate'.waited /\ gate'.waited <= device'.last
    BY <2>1, <2>3, <2>4 DEF Bounded
  <2>6. QED  BY <2>1, <2>2, <2>5 DEF Bounded, QueuesBounded
<1>9. ASSUME NEW q \in AllQueues, Runs(q) PROVE Bounded'
  <2>1. UNCHANGED <<tx, device, gate>> /\ Newest' = Newest  BY <1>9 DEF Runs, Newest
  <2>2. QueuesBounded'
    <3> SUFFICES ASSUME NEW r \in AllQueues, NEW i \in Nat
                 PROVE  /\ Waiting(r, i)' => gpu'[r][i].value <= device'.last
                        /\ Signalling(r, i)' => gpu'[r][i].value <= Newest'
      BY DEF QueuesBounded
    <3>1. CASE r # q  BY <1>9, <3>1, RunMoves, <2>1 DEF SameOp, QueuesBounded
    <3>2. CASE r = q /\ i = 0  BY <1>9, <3>2, RunMoves
    <3>3. CASE r = q /\ i # 0  BY <1>9, <3>3, RunMoves, <2>1 DEF NextOp, QueuesBounded
    <3>4. QED  BY <3>1, <3>2, <3>3
  <2>3. fence' <= Newest'
    <3>1. CASE gpu[q][1].kind = "signal"
      BY <1>9, <3>1, OpOf, <2>1 DEF Runs, Signalling, QueuesBounded
    <3>2. CASE gpu[q][1].kind # "signal"  BY <1>9, <2>1, <3>2 DEF Runs, Bounded
    <3>3. QED  BY <3>1, <3>2
  <2>4. QED  BY <2>1, <2>2, <2>3 DEF Bounded, QueuesBounded
<1>10. QED  BY <1>1, <1>2, <1>3, <1>4, <1>5, <1>6, <1>7, <1>8, <1>9 DEF TimelineStep

(***************************************************************************)
(* The gate.  What is queued and not published is the last receipt's own    *)
(* Wait, so the closing gate releases every other.                          *)
(***************************************************************************)

LEMMA ReleasedParts ==
  Released <=> /\ ~past.setBack => fence >= gate.released
               /\ OwnWait
               /\ ~gate.open /\ gate.at = "watching" => Passed
BY DEF Released, OwnWait, Passed

LEMMA ReleasedPartsNext ==
  Released' <=> /\ ~past'.setBack => fence' >= gate'.released
                /\ OwnWait'
                /\ ~gate'.open /\ gate'.at = "watching" => Passed'
BY DEF Released, OwnWait, Passed

\* Steps that queue no Wait.
LEMMA OwnWaitStays ==
  ASSUME Typed, OwnWait, SameOps, UNCHANGED gate,
         tx.at = "waited" => tx'.at = "waited" /\ tx'.by = tx.by
  PROVE  OwnWait'
<1> SUFFICES ASSUME NEW q \in AllQueues, NEW i \in Nat,
                    Waiting(q, i)', gpu'[q][i].value > gate'.waited
             PROVE  tx'.at = "waited" /\ gpu'[q][i].by = tx'.by
  BY DEF OwnWait
<1>1. SameOp(q, i)  BY DEF SameOps
<1>2. QED  BY <1>1 DEF SameOp, OwnWait

LEMMA PassedStays ==
  ASSUME Typed, Passed, SameOps, UNCHANGED gate, past'.late = past.late,
         \A l \in Lists : list'[l].at = "admitted" => list[l].at = "admitted",
         tx'.at \in {"reserved", "waited"} =>
            \/ tx'.by = tx.by /\ tx.at \in {"reserved", "waited"}
            \/ tx'.by = Private
            \/ tx'.by \in Lists /\ list[tx'.by].at = "admitted"
  PROVE  Passed'
<1>1. ASSUME NEW q \in Queues, NEW i \in Nat, Waiting(q, i)'
      PROVE  gpu'[q][i].value <= gate'.released \/ gpu'[q][i].by \in past'.late
  BY <1>1 DEF SameOps, AllQueues, SameOp, Passed
<1>2. Excused' = Excused  BY DEF Excused
<1>3. tx'.at \in {"reserved", "waited"} => tx'.by \in Excused'  BY <1>2 DEF Passed, Excused
<1>4. QED  BY <1>1, <1>2, <1>3 DEF Passed

LEMMA ReleasedKeeps ==
  ASSUME Sound, Typed', Released, TimelineStep PROVE Released'
<1>0. Typed /\ Bounded /\ OwnWait /\ (~past.setBack => fence >= gate.released)
      /\ (~gate.open /\ gate.at = "watching" => Passed)
  BY ReleasedParts DEF Sound
<1> USE <1>0, Times, TimesNext
<1>1. CASE Quiet
  <2>1. /\ UNCHANGED <<gate, fence>> /\ SameOps /\ past'.late = past.late
        /\ past'.setBack = past.setBack
        /\ tx.at = "waited" => tx'.at = "waited" /\ tx'.by = tx.by
        /\ tx'.at \in {"reserved", "waited"} => UNCHANGED tx
    BY <1>1, GrownOps DEF Quiet, Still, SameTimes, Goes
  <2>2. OwnWait'  BY <2>1, OwnWaitStays
  <2>3. ~gate'.open /\ gate'.at = "watching" => Passed'  BY <1>1, <2>1, PassedStays DEF Quiet
  <2>4. QED  BY <2>1, <2>2, <2>3, ReleasedPartsNext
<1>2. CASE Begins \/ Ends \/ Finishes
  <2>1. /\ UNCHANGED <<gate, fence>> /\ SameOps /\ past'.late = past.late
        /\ past'.setBack = past.setBack /\ tx.at # "waited"
        /\ \A l \in Lists : list'[l].at = "admitted" => list[l].at = "admitted"
    BY <1>2, GrownOps DEF Begins, Ends, Finishes, Still, SameTimes
  <2>2. OwnWait'  BY <2>1, OwnWaitStays
  <2>3. \/ tx'.at = "none"
        \/ tx'.by = Private
        \/ tx'.by \in Lists /\ list[tx'.by].at = "admitted"
    BY <1>2 DEF Begins, Ends, Finishes, begin_transaction, NoReceipt
  <2>4. ~gate'.open /\ gate'.at = "watching" => Passed'  BY <2>1, <2>3, PassedStays
  <2>5. QED  BY <2>1, <2>2, <2>4, ReleasedPartsNext
<1>3. CASE Waits
  <2>1. PICK q \in AllQueues, n \in Nat :
            /\ q = tx.queue /\ NewOp(q, n, WaitOp) /\ Waiting(q, n)' /\ ~Signalling(q, n)'
            /\ WaitOp.packets = tx.packets /\ WaitOp.value = device.last /\ WaitOp.by = tx.by
    BY <1>3, WaitAppends
  <2>2. /\ tx.at = "reserved" /\ tx'.at = "waited" /\ tx'.by = tx.by
        /\ UNCHANGED <<list, device, gate, fence, past>>
    BY <1>3, TypeParts DEF Typed, TxTypes, Waits
  <2>3. OwnWait'
    <3> SUFFICES ASSUME NEW r \in AllQueues, NEW i \in Nat,
                        Waiting(r, i)', gpu'[r][i].value > gate'.waited
                 PROVE  gpu'[r][i].by = tx'.by
      BY <2>2 DEF OwnWait
    <3>1. CASE r = q /\ i = n  BY <2>1, <2>2, <3>1 DEF NewOp
    <3>2. CASE r # q \/ i # n  BY <2>1, <3>2, <2>2 DEF NewOp, SameOp, OwnWait
    <3>3. QED  BY <3>1, <3>2
  <2>4. ASSUME ~gate.open, gate.at = "watching" PROVE Passed'
    <3>1. Passed /\ Excused' = Excused  BY <2>2, <2>4 DEF Excused
    <3>2. tx.by \in Excused  BY <2>2, <3>1 DEF Passed
    <3>3. ASSUME NEW r \in Queues, NEW i \in Nat, Waiting(r, i)'
          PROVE  gpu'[r][i].value <= gate'.released \/ gpu'[r][i].by \in past'.late
      <4>1. CASE r = q /\ i = n
        <5>1. tx.by # Private  BY <2>1, <2>2, <4>1, SubmissionAssumption DEF Typed, Placed
        <5>2. tx.by \in past.late  BY <3>2, <5>1 DEF Excused
        <5>3. QED  BY <2>1, <2>2, <4>1, <5>2 DEF NewOp
      <4>2. CASE r # q \/ i # n
        BY <2>1, <4>2, <2>2, <3>1, <3>3 DEF NewOp, AllQueues, SameOp, Passed
      <4>3. QED  BY <4>1, <4>2
    <3>4. QED  BY <2>2, <3>1, <3>2, <3>3 DEF Passed
  <2>5. QED  BY <2>2, <2>3, <2>4, ReleasedPartsNext
<1>4. CASE PublishWait
  <2>1. /\ tx.at = "waited" /\ tx'.at = "ordered"
        /\ UNCHANGED <<list, device, fence, gpu, past>>
    BY <1>4, TypeParts DEF Typed, TxTypes, PublishWait
  <2>2. /\ gate'.waited = Larger(gate.waited, device.last) /\ gate'.released = gate.released
        /\ gate'.open = gate.open /\ gate'.at = gate.at
    BY <1>4, TypeParts DEF Typed, GateTypes, PublishWait, publish_queued_wait
  <2>3. OwnWait'
    <3> SUFFICES ASSUME NEW q \in AllQueues, NEW i \in Nat,
                        Waiting(q, i)', gpu'[q][i].value > gate'.waited
                 PROVE  FALSE
      BY DEF OwnWait
    <3>1. Waiting(q, i) /\ gpu'[q][i] = gpu[q][i]  BY <2>1 DEF Waiting
    <3>2. gpu[q][i].value <= device.last /\ gpu[q][i].value \in Nat  BY <3>1, OpOf DEF Bounded
    <3>3. QED  BY <2>2, <3>1, <3>2 DEF Larger
  <2>4. Passed => Passed'  BY <2>1, <2>2 DEF Passed, Excused, Waiting
  <2>5. QED  BY <2>1, <2>2, <2>3, <2>4, ReleasedPartsNext
<1>5. CASE Signals
  <2>1. PICK q \in AllQueues, n \in Nat :
            /\ q = tx.queue /\ NewOp(q, n, SignalOp) /\ ~Waiting(q, n)' /\ Signalling(q, n)'
            /\ SignalOp.value = tx.value
    BY <1>5, SignalAppends
  <2>2. /\ tx.at = "recorded" /\ tx'.at = "signalled" /\ UNCHANGED <<list, gate, fence>>
        /\ past'.late = past.late /\ past'.setBack = past.setBack
    BY <1>5, TypeParts DEF Typed, TxTypes, Signals, SameTimes
  <2>3. ASSUME NEW r \in AllQueues, NEW i \in Nat, Waiting(r, i)'
        PROVE  Waiting(r, i) /\ gpu'[r][i] = gpu[r][i]
    BY <2>1, <2>3 DEF NewOp, SameOp
  <2>4. OwnWait'  BY <2>2, <2>3 DEF OwnWait
  <2>5. Passed => Passed'  BY <2>2, <2>3 DEF Passed, Excused, AllQueues
  <2>6. QED  BY <2>2, <2>4, <2>5, ReleasedPartsNext
<1>6. CASE CloseGate
  BY <1>6, TypeParts, ReleasedPartsNext DEF Typed, GateTypes, CloseGate, OwnWait, Waiting
<1>7. CASE release_queued_waits
  <2>1. /\ UNCHANGED <<list, tx, gpu>> /\ gate'.waited = gate.waited
        /\ gate'.released = IF Unreleased THEN gate.waited ELSE gate.released
        /\ fence' = IF Unreleased /\ fence < gate.waited THEN gate.waited ELSE fence
    BY <1>7, TypeParts DEF Typed, GateTypes, release_queued_waits
  <2>2. past'.late = PastGate /\ past'.setBack = past.setBack
    <3>1. PICK b \in BOOLEAN : b = (past.overtaken \/ (Unreleased /\ fence < gate.waited))
      BY TypeParts DEF Typed, PastTypes
    <3>2. past' = [past EXCEPT !.late = PastGate, !.overtaken = b]
      BY <1>7, <3>1, Zenon DEF release_queued_waits
    <3>3. QED  BY <3>2, TypeParts DEF Typed, PastTypes
  <2>3. gate'.released = gate.waited  BY <2>1 DEF Unreleased, Bounded
  <2>4. OwnWait'  BY <2>1 DEF OwnWait, Waiting
  <2>5. ~past'.setBack => fence' >= gate'.released  BY <2>1, <2>2 DEF Unreleased
  <2>6. Passed'
    <3>1. \A l \in Lists : list'[l].at = "admitted" => l \in Excused'
      BY <2>1, <2>2 DEF Excused, PastGate
    <3>2. tx'.at \in {"reserved", "waited"} => tx'.by \in past'.late  BY <2>1, <2>2 DEF PastGate
    <3>3. ASSUME NEW q \in Queues, NEW i \in Nat, Waiting(q, i)'
          PROVE  gpu'[q][i].value <= gate'.released \/ gpu'[q][i].by \in past'.late
      <4>1. Waiting(q, i) /\ gpu'[q][i] = gpu[q][i] /\ q \in AllQueues
        BY <2>1, <3>3 DEF Waiting, AllQueues
      <4>2. gpu[q][i].value \in Nat  BY <4>1, OpOf
      <4>3. CASE gpu[q][i].value <= gate.waited  BY <2>3, <4>1, <4>3
      <4>4. CASE ~(gpu[q][i].value <= gate.waited)  BY <4>1, <4>2, <4>4, <2>1, <3>2 DEF OwnWait
      <4>5. QED  BY <4>3, <4>4
    <3>4. QED  BY <3>1, <3>2, <3>3 DEF Passed, Excused
  <2>7. QED  BY <2>4, <2>5, <2>6, ReleasedPartsNext
<1>8. CASE OpenGate
  <2>1. /\ UNCHANGED <<tx, gpu, fence>> /\ gate'.waited = gate.waited
        /\ gate'.released = gate.released /\ gate'.open = TRUE /\ past'.setBack = past.setBack
    BY <1>8, TypeParts DEF Typed, GateTypes, PastTypes, OpenGate
  <2>2. OwnWait'  BY <2>1 DEF OwnWait, Waiting
  <2>3. QED  BY <2>1, <2>2, ReleasedPartsNext
<1>9. ASSUME NEW q \in AllQueues, Runs(q) PROVE Released'
  <2>1. /\ UNCHANGED <<list, tx, gate>> /\ past'.late = past.late
        /\ ~past'.setBack => ~past.setBack /\ fence' >= fence
    BY <1>9 DEF Runs
  <2>2. ASSUME NEW r \in AllQueues, NEW i \in Nat, Waiting(r, i)'
        PROVE  \E j \in Nat : Waiting(r, j) /\ gpu'[r][i] = gpu[r][j]
    <3>1. CASE r # q  BY <1>9, <3>1, RunMoves, <2>2 DEF SameOp
    <3>2. CASE r = q  BY <1>9, <2>2, <3>2, RunMoves DEF NextOp
    <3>3. QED  BY <3>1, <3>2
  <2>3. OwnWait'
    <3> SUFFICES ASSUME NEW r \in AllQueues, NEW i \in Nat,
                        Waiting(r, i)', gpu'[r][i].value > gate'.waited
                 PROVE  tx'.at = "waited" /\ gpu'[r][i].by = tx'.by
      BY DEF OwnWait
    <3>1. PICK j \in Nat : Waiting(r, j) /\ gpu'[r][i] = gpu[r][j]  BY <2>2
    <3>2. QED  BY <2>1, <3>1 DEF OwnWait
  <2>4. Passed => Passed'
    <3> SUFFICES ASSUME Passed, NEW r \in Queues, NEW i \in Nat, Waiting(r, i)'
                 PROVE  gpu'[r][i].value <= gate'.released \/ gpu'[r][i].by \in past'.late
      BY <2>1 DEF Passed, Excused
    <3>1. PICK j \in Nat : Waiting(r, j) /\ gpu'[r][i] = gpu[r][j]  BY <2>2 DEF AllQueues
    <3>2. QED  BY <2>1, <3>1 DEF Passed
  <2>5. QED  BY <2>1, <2>3, <2>4, ReleasedPartsNext
<1>10. QED  BY <1>1, <1>2, <1>3, <1>4, <1>5, <1>6, <1>7, <1>8, <1>9 DEF TimelineStep

LEMMA InitSound == Init => Sound /\ Released
<1> SUFFICES ASSUME Init PROVE Sound /\ Released  OBVIOUS
<1>1. Typed  BY InitTyped
<1>2. \A q \in AllQueues : \A i \in Nat : ~Waiting(q, i) /\ ~Signalling(q, i)
  BY DEF Init, Waiting, Signalling
<1>3. Bounded  BY <1>2 DEF Init, NoReceipt, Newest, Bounded
<1>4. Released  BY <1>2 DEF Init, Released
<1>5. QED  BY <1>1, <1>3, <1>4 DEF Sound

LEMMA ReleasedIsEnough == Sound /\ Released => GateReleasesWaits
<1> SUFFICES ASSUME Sound, Released, ~gate.open, gate.at = "watching", ~past.setBack,
                    NEW q \in Queues, NEW i \in DOMAIN gpu[q],
                    gpu[q][i].kind = "wait", gpu[q][i].value > fence
             PROVE  gpu[q][i].by \in past.late
  BY DEF GateReleasesWaits
<1>1. Passed /\ fence >= gate.released  BY ReleasedParts
<1>2. q \in AllQueues /\ i \in Nat /\ Waiting(q, i)
  <2>1. q \in AllQueues /\ 0 \in Nat  BY DEF AllQueues
  <2>2. gpu[q] \in Seq(Operation)  BY <2>1, OpOf DEF Sound
  <2>3. QED  BY <2>1, <2>2 DEF Waiting
<1>3. gpu[q][i].value \in Nat  BY <1>2, OpOf DEF Sound
<1>4. QED  BY <1>1, <1>2, <1>3, Times DEF Passed, Sound

(***************************************************************************)
(* The chain.                                                              *)
(***************************************************************************)

LEMMA ChainedParts == Chained <=> InTurn /\ SignalledOnce /\ Behind
BY DEF Chained, InTurn, Next1, SignalledOnce, Behind

LEMMA ChainedPartsNext == Chained' <=> InTurn' /\ SignalledOnce' /\ Behind'
BY DEF Chained, InTurn, Next1, SignalledOnce, Behind

\* Operations that stay where they are keep their turn.
LEMMA StaysNext ==
  ASSUME Typed, NEW q \in AllQueues, NEW i \in Nat, Signalling(q, i), Next1(q, i),
         SameOp(q, i), \A j \in 1..(i - 1) : Waiting(q, j) => SameOp(q, j), fence' = fence
  PROVE  Next1(q, i)'
<1>1. gpu'[q][i] = gpu[q][i]  BY DEF SameOp
<1>2. CASE gpu[q][i].value <= fence + 1  BY <1>1, <1>2 DEF Next1
<1>3. CASE \E j \in 1..(i - 1) : Waiting(q, j) /\ gpu[q][j].value = gpu[q][i].value - 1
  <2>1. PICK j \in 1..(i - 1) : Waiting(q, j) /\ gpu[q][j].value = gpu[q][i].value - 1  BY <1>3
  <2>2. Waiting(q, j)' /\ gpu'[q][j] = gpu[q][j]  BY <2>1 DEF SameOp
  <2>3. QED  BY <1>1, <2>1, <2>2 DEF Next1
<1>4. QED  BY <1>2, <1>3 DEF Next1

LEMMA SameChained ==
  ASSUME Typed, Chained, SameOps, fence' = fence,
         tx'.at \notin {"none", "reserved"} =>
            /\ device'.last = device.last /\ tx'.queue = tx.queue /\ tx'.packets = tx.packets
            /\ tx.at \notin {"none", "reserved"} \/ device.last = 0
  PROVE  Chained'
<1>1. InTurn /\ SignalledOnce /\ Behind  BY ChainedParts
<1>2. InTurn'
  <2> SUFFICES ASSUME NEW q \in AllQueues, NEW i \in Nat, Signalling(q, i)'
               PROVE  Next1(q, i)'
    BY DEF InTurn
  <2>1. \A j \in Nat : SameOp(q, j)  BY DEF SameOps
  <2>2. Signalling(q, i) /\ Next1(q, i)  BY <1>1, <2>1 DEF SameOp, InTurn
  <2>3. \A j \in 1..(i - 1) : SameOp(q, j)  BY <2>1
  <2>4. QED  BY <2>1, <2>2, <2>3, StaysNext
<1>3. SignalledOnce'
  <2> SUFFICES ASSUME NEW q \in AllQueues, NEW r \in AllQueues, NEW i \in Nat, NEW j \in Nat,
                      Signalling(q, i)', Signalling(r, j)', gpu'[q][i].value = gpu'[r][j].value
               PROVE  q = r /\ i = j
    BY DEF SignalledOnce
  <2>1. SameOp(q, i) /\ SameOp(r, j)  BY DEF SameOps
  <2>2. QED  BY <1>1, <2>1 DEF SameOp, SignalledOnce
<1>4. Behind'
  <2> SUFFICES ASSUME tx'.at \notin {"none", "reserved"}
               PROVE  \/ fence' >= device'.last
                      \/ \E j \in Nat : /\ Waiting(tx.queue, j)'
                                        /\ gpu'[tx'.queue][j].value = device'.last
                                        /\ gpu'[tx'.queue][j].packets = tx'.packets
    BY DEF Behind
  <2>1. /\ device'.last = device.last /\ tx'.queue = tx.queue /\ tx'.packets = tx.packets  OBVIOUS
  <2>2. CASE device.last = 0  BY <2>1, <2>2, Times
  <2>3. CASE tx.at \notin {"none", "reserved"} /\ fence >= device.last  BY <2>1, <2>3
  <2>4. CASE tx.at \notin {"none", "reserved"} /\ ~(fence >= device.last)
    <3>1. PICK q \in AllQueues : q = tx.queue  BY <2>4, Held
    <3>2. PICK j \in Nat : Waiting(q, j) /\ gpu[q][j].value = device.last
                           /\ gpu[q][j].packets = tx.packets
      BY <1>1, <2>4, <3>1 DEF Behind
    <3>3. Waiting(q, j)' /\ gpu'[q][j] = gpu[q][j]  BY <3>2 DEF SameOps, SameOp
    <3>4. Waiting(tx.queue, j)'  BY <2>1, <3>1, <3>3 DEF Waiting
    <3>5. QED  BY <2>1, <3>1, <3>2, <3>3, <3>4
  <2>5. QED  BY <2>2, <2>3, <2>4
<1>5. QED  BY <1>2, <1>3, <1>4, ChainedPartsNext

LEMMA WaitsChained ==
  ASSUME Sound, Typed', Chained, Waits PROVE Chained'
<1>1. InTurn /\ SignalledOnce /\ Typed /\ Bounded  BY ChainedParts DEF Sound
<1>2. PICK q \in AllQueues, n \in Nat :
            /\ q = tx.queue /\ NewOp(q, n, WaitOp) /\ Waiting(q, n)' /\ ~Signalling(q, n)'
            /\ WaitOp.packets = tx.packets /\ WaitOp.value = device.last /\ WaitOp.by = tx.by
  BY <1>1, WaitAppends
<1>3. tx'.at = "waited" /\ tx'.queue = tx.queue /\ tx'.packets = tx.packets
      /\ UNCHANGED <<device, fence>>
  BY <1>1, TypeParts DEF Typed, TxTypes, Waits
<1>4. ASSUME NEW r \in AllQueues, NEW i \in Nat, Signalling(r, i)'
      PROVE  SameOp(r, i) /\ Signalling(r, i) /\ gpu'[r][i] = gpu[r][i]
  BY <1>2, <1>4 DEF NewOp, SameOp
<1>5. InTurn'
  <2> SUFFICES ASSUME NEW r \in AllQueues, NEW i \in Nat, Signalling(r, i)'
               PROVE  Next1(r, i)'
    BY DEF InTurn
  <2>1. SameOp(r, i) /\ Signalling(r, i)  BY <1>4
  <2>2. ASSUME NEW j \in 1..(i - 1), Waiting(r, j) PROVE SameOp(r, j)  BY <1>2, <2>2 DEF NewOp
  <2>3. QED  BY <1>1, <1>3, <2>1, <2>2, StaysNext DEF InTurn
<1>6. SignalledOnce'  BY <1>1, <1>4 DEF SignalledOnce
<1>7. Behind'  BY <1>2, <1>3 DEF Waiting, NewOp, Behind
<1>8. QED  BY <1>5, <1>6, <1>7, ChainedPartsNext

LEMMA SignalsChained ==
  ASSUME Sound, Typed', Chained, Signals PROVE Chained'
<1>1. InTurn /\ SignalledOnce /\ Behind /\ Typed /\ Bounded  BY ChainedParts DEF Sound
<1>2. PICK q \in AllQueues, n \in Nat :
            /\ q = tx.queue /\ NewOp(q, n, SignalOp) /\ ~Waiting(q, n)' /\ Signalling(q, n)'
            /\ SignalOp.value = tx.value
  BY <1>1, SignalAppends
<1>3. /\ tx.at = "recorded" /\ tx'.at = "signalled" /\ tx'.queue = tx.queue
      /\ tx'.packets = tx.packets /\ UNCHANGED <<device, fence>>
      /\ tx.value = device.last + 1 /\ Newest = device.last
  BY <1>1, TypeParts DEF Typed, TxTypes, Signals, Bounded, Newest
<1>4. ASSUME NEW r \in AllQueues, NEW i \in Nat, r # q \/ i # n, Signalling(r, i)'
      PROVE  SameOp(r, i) /\ Signalling(r, i) /\ gpu'[r][i] = gpu[r][i]
  BY <1>2, <1>4 DEF NewOp, SameOp
<1>5. ASSUME NEW r \in AllQueues, NEW j \in Nat, Waiting(r, j)
      PROVE  SameOp(r, j) /\ (r = q => j < n)
  BY <1>2, <1>5 DEF NewOp
<1>6. gpu'[q][n] = SignalOp /\ SignalOp.value = device.last + 1  BY <1>2, <1>3 DEF NewOp
<1>7. InTurn'
  <2> SUFFICES ASSUME NEW r \in AllQueues, NEW i \in Nat, Signalling(r, i)'
               PROVE  Next1(r, i)'
    BY DEF InTurn
  <2>1. CASE r # q \/ i # n  BY <1>4, <2>1, <1>5, <1>1, <1>3, StaysNext DEF InTurn
  <2>2. CASE r = q /\ i = n
    <3>1. gpu'[r][i].value = device.last + 1 /\ fence \in Nat /\ device.last \in Nat
          /\ fence <= device.last /\ fence' = fence
      BY <1>1, <1>3, <1>6, <2>2, Times DEF Bounded
    <3>2. CASE fence >= device.last  BY <3>1, <3>2 DEF Next1
    <3>3. CASE ~(fence >= device.last)
      <4>1. PICK j \in Nat : Waiting(q, j) /\ gpu[q][j].value = device.last
        BY <1>1, <1>2, <1>3, <3>3 DEF Behind
      <4>2. j \in 1..(i - 1)  BY <1>1, <1>5, <2>2, <4>1, OpOf
      <4>3. Waiting(q, j)' /\ gpu'[q][j] = gpu[q][j]  BY <1>5, <4>1 DEF SameOp
      <4>4. gpu'[r][j].value = gpu'[r][i].value - 1 /\ Waiting(r, j)'  BY <2>2, <3>1, <4>1, <4>3
      <4>5. gpu'[r][i].value > fence'  BY <3>1
      <4>6. QED  BY <4>2, <4>4, <4>5 DEF Next1
    <3>4. QED  BY <3>2, <3>3
  <2>3. QED  BY <2>1, <2>2
<1>8. SignalledOnce'
  <2>1. ASSUME NEW r \in AllQueues, NEW i \in Nat, r # q \/ i # n, Signalling(r, i)'
        PROVE  gpu'[r][i].value # gpu'[q][n].value
    BY <1>4, <2>1, <1>1, <1>3, OpOf, Times, <1>6 DEF Bounded
  <2>2. QED  BY <1>1, <1>4, <2>1 DEF SignalledOnce
<1>9. Behind'
  <2>1. CASE fence >= device.last  BY <1>3, <2>1 DEF Behind
  <2>2. CASE ~(fence >= device.last)
    <3>1. PICK j \in Nat : /\ Waiting(q, j) /\ gpu[q][j].value = device.last
                           /\ gpu[q][j].packets = tx.packets
      BY <1>1, <1>2, <1>3, <2>2 DEF Behind
    <3>2. Waiting(q, j)' /\ gpu'[q][j] = gpu[q][j]  BY <1>5, <3>1 DEF SameOp
    <3>3. Waiting(tx.queue, j)'  BY <1>2, <1>3, <3>2 DEF Waiting
    <3>4. QED  BY <1>2, <1>3, <3>1, <3>2, <3>3 DEF Behind
  <2>3. QED  BY <2>1, <2>2
<1>10. QED  BY <1>7, <1>8, <1>9, ChainedPartsNext

(* A step of the GPU. *)

LEMMA RunFrom ==
  ASSUME Typed, NEW q \in AllQueues, Runs(q), NEW r \in AllQueues, NEW i \in Nat
  PROVE  /\ OldPlace(q, r, i) \in Nat /\ (r = q => OldPlace(q, r, i) # 1 \/ i = 0)
         /\ Waiting(r, i)' => /\ Waiting(r, OldPlace(q, r, i)) /\ i > 0
                              /\ gpu'[r][i] = gpu[r][OldPlace(q, r, i)]
         /\ Signalling(r, i)' => /\ Signalling(r, OldPlace(q, r, i)) /\ i > 0
                                 /\ gpu'[r][i] = gpu[r][OldPlace(q, r, i)]
<1>1. Waiting(r, i)' \/ Signalling(r, i)' => i > 0  BY DEF Waiting, Signalling
<1>2. CASE r # q  BY <1>2, RunMoves, <1>1 DEF SameOp, OldPlace
<1>3. CASE r = q /\ i = 0  BY <1>3, RunMoves DEF OldPlace
<1>4. CASE r = q /\ i # 0  BY <1>4, RunMoves, <1>1 DEF NextOp, OldPlace
<1>5. QED  BY <1>2, <1>3, <1>4

LEMMA RunTo ==
  ASSUME Typed, NEW q \in AllQueues, Runs(q), NEW r \in AllQueues, NEW j \in Nat,
         r # q \/ j # 1, Waiting(r, j)
  PROVE  /\ NewPlace(q, r, j) \in Nat /\ NewPlace(q, r, j) > 0
         /\ Waiting(r, NewPlace(q, r, j))' /\ gpu'[r][NewPlace(q, r, j)] = gpu[r][j]
<1>1. j > 0  BY OpOf
<1>2. CASE r # q  BY <1>2, RunMoves, <1>1 DEF SameOp, NewPlace
<1>3. CASE r = q
  <2>1. j - 1 \in Nat \ {0} /\ (j - 1) + 1 = j  BY <1>1, <1>3
  <2>2. NextOp(q, j - 1)  BY <2>1, RunMoves
  <2>3. Waiting(q, j - 1)' /\ gpu'[q][j - 1] = gpu[q][j]  BY <1>3, <2>1, <2>2 DEF NextOp
  <2>4. QED  BY <1>3, <2>1, <2>3 DEF NewPlace
<1>4. QED  BY <1>2, <1>3

\* The Wait that runs is passed; the Signal that runs is the next one.
LEMMA RunHead ==
  ASSUME Sound, Chained, NEW q \in AllQueues, Runs(q)
  PROVE  /\ Waiting(q, 1) => fence >= gpu[q][1].value
         /\ fence' >= fence /\ fence' \in Nat
         /\ \A r \in AllQueues : \A i \in Nat :
               Signalling(r, i) /\ (r # q \/ i # 1) => gpu[r][i].value > fence'
<1>1. InTurn /\ SignalledOnce /\ Typed /\ fence \in Nat  BY ChainedParts, Times DEF Sound
<1>2. Waiting(q, 1) => fence >= gpu[q][1].value  BY DEF Waiting, Runs
<1>3. CASE gpu[q][1].kind # "signal"  BY <1>3, <1>1, <1>2 DEF Runs, InTurn, Next1
<1>4. CASE gpu[q][1].kind = "signal"
  <2>1. Signalling(q, 1) /\ fence' = gpu[q][1].value /\ 1 \in Nat
    BY <1>1, <1>4, OpOf DEF Runs, Signalling
  <2>2. gpu[q][1].value > fence /\ gpu[q][1].value <= fence + 1 /\ gpu[q][1].value \in Nat
    BY <1>1, <2>1, OpOf DEF InTurn, Next1
  <2>3. ASSUME NEW r \in AllQueues, NEW i \in Nat, Signalling(r, i), r # q \/ i # 1
        PROVE  gpu[r][i].value > fence'
    <3>1. gpu[r][i].value > fence /\ gpu[r][i].value \in Nat  BY <1>1, <2>3, OpOf DEF InTurn, Next1
    <3>2. gpu[r][i].value # gpu[q][1].value  BY <1>1, <2>1, <2>3 DEF SignalledOnce
    <3>3. QED  BY <1>1, <2>1, <2>2, <3>1, <3>2
  <2>4. QED  BY <1>1, <1>2, <2>1, <2>2, <2>3
<1>5. QED  BY <1>3, <1>4

LEMMA RunChained ==
  ASSUME Sound, Typed', Chained, NEW q \in AllQueues, Runs(q) PROVE Chained'
<1>1. /\ InTurn /\ SignalledOnce /\ Behind /\ Typed /\ fence \in Nat /\ device.last \in Nat
      /\ Waiting(q, 1) => fence >= gpu[q][1].value
      /\ fence' >= fence /\ fence' \in Nat
  BY ChainedParts, Times, RunHead DEF Sound
<1>2. ASSUME NEW r \in AllQueues, NEW i \in Nat, Signalling(r, i)'
      PROVE  Next1(r, i)'
  <2> DEFINE k == OldPlace(q, r, i)
  <2>1. k \in Nat /\ (r # q \/ k # 1) /\ Signalling(r, k) /\ gpu'[r][i] = gpu[r][k] /\ i > 0
    BY <1>1, <1>2, RunFrom
  <2>2. gpu'[r][i].value > fence' /\ gpu[r][k].value \in Nat  BY <1>1, <2>1, RunHead, OpOf
  <2>3. CASE gpu[r][k].value <= fence + 1  BY <1>1, <2>1, <2>2, <2>3 DEF Next1
  <2>4. CASE ~(gpu[r][k].value <= fence + 1)
    <3>1. PICK j \in 1..(k - 1) : Waiting(r, j) /\ gpu[r][j].value = gpu[r][k].value - 1
      BY <1>1, <2>1, <2>4 DEF InTurn, Next1
    <3>2. r # q \/ j # 1  BY <1>1, <2>2, <2>4, <3>1
    <3> DEFINE m == NewPlace(q, r, j)
    <3>3. m \in Nat /\ m > 0 /\ Waiting(r, m)' /\ gpu'[r][m] = gpu[r][j]  BY <1>1, <3>1, <3>2, RunTo
    <3>4. m \in 1..(i - 1)  BY <2>1, <3>1, <3>3 DEF NewPlace, OldPlace
    <3> HIDE DEF m, k
    <3>5. gpu'[r][m].value = gpu'[r][i].value - 1  BY <2>1, <3>1, <3>3
    <3>6. QED  BY <2>2, <3>3, <3>4, <3>5 DEF Next1
  <2>5. QED  BY <2>3, <2>4
<1>3. SignalledOnce'
  <2> SUFFICES ASSUME NEW r \in AllQueues, NEW s \in AllQueues, NEW i \in Nat, NEW j \in Nat,
                      Signalling(r, i)', Signalling(s, j)', gpu'[r][i].value = gpu'[s][j].value
               PROVE  r = s /\ i = j
    BY DEF SignalledOnce
  <2>1. /\ OldPlace(q, r, i) \in Nat /\ Signalling(r, OldPlace(q, r, i))
        /\ gpu'[r][i] = gpu[r][OldPlace(q, r, i)]
        /\ OldPlace(q, s, j) \in Nat /\ Signalling(s, OldPlace(q, s, j))
        /\ gpu'[s][j] = gpu[s][OldPlace(q, s, j)]
    BY <1>1, RunFrom
  <2>2. r = s /\ OldPlace(q, r, i) = OldPlace(q, s, j)  BY <1>1, <2>1 DEF SignalledOnce
  <2>3. QED  BY <2>2 DEF OldPlace
<1>4. Behind'
  <2> SUFFICES ASSUME tx.at \notin {"none", "reserved"}
               PROVE  \/ fence' >= device.last
                      \/ \E j \in Nat : /\ Waiting(tx.queue, j)'
                                        /\ gpu'[tx.queue][j].value = device.last
                                        /\ gpu'[tx.queue][j].packets = tx.packets
    BY DEF Behind, Runs
  <2>1. CASE fence >= device.last  BY <1>1, <2>1
  <2>2. CASE ~(fence >= device.last)
    <3>1. PICK r \in AllQueues : r = tx.queue  BY <1>1, Held
    <3>2. PICK j \in Nat : /\ Waiting(r, j) /\ gpu[r][j].value = device.last
                           /\ gpu[r][j].packets = tx.packets
      BY <1>1, <2>2, <3>1 DEF Behind
    <3>3. r # q \/ j # 1  BY <1>1, <2>2, <3>2
    <3>4. PICK m \in Nat : Waiting(r, m)' /\ gpu'[r][m] = gpu[r][j]  BY <1>1, <3>2, <3>3, RunTo
    <3>5. Waiting(tx.queue, m)'  BY <3>1, <3>4 DEF Waiting, Runs
    <3>6. QED  BY <3>1, <3>2, <3>4, <3>5
  <2>3. QED  BY <2>1, <2>2
<1>5. QED  BY <1>2, <1>3, <1>4, ChainedPartsNext DEF InTurn

(***************************************************************************)
(* The receipts of the other simulator queues.                              *)
(***************************************************************************)

LEMMA CoveredParts == Covered <=> Counted /\ OthersBlocked /\ Admissible /\ EmptyWaits
BY DEF Covered, Counted, OthersBlocked, Admissible, EmptyWaits

LEMMA CoveredPartsNext == Covered' <=> Counted' /\ OthersBlocked' /\ Admissible' /\ EmptyWaits'
BY DEF Covered, Counted, OthersBlocked, Admissible, EmptyWaits

LEMMA SimulatorQueues == Queues \subseteq AllQueues /\ Private \notin Queues
BY SubmissionAssumption DEF AllQueues

\* A pending Signal that is counted tells which queue was last.
LEMMA LastSimulator ==
  ASSUME Sound, Chained, NEW q \in Queues, NEW i \in Nat, Signalling(q, i),
         gpu[q][i].value <= device.simSignal
  PROVE  device.simQueue \in Queues /\ device.simSignal > fence /\ gpu[q][i].value > fence
         /\ gpu[q][i].value \in Nat
<1>1. gpu[q][i].value > fence /\ gpu[q][i].value \in Nat
  BY ChainedParts, SimulatorQueues, OpOf DEF Sound, InTurn, Next1
<1>2. QED  BY <1>1, Times DEF Sound, Bounded

LEMMA OthersBlockedNext ==
  OthersBlocked' <=>
    \A q \in Queues : \A i \in Nat :
        Signalling(q, i)' /\ gpu'[q][i].value <= device'.simSignal /\ q # device'.simQueue =>
            \E j \in Nat : BlockedAfter(device'.simQueue, j, gpu'[q][i].value)
BY DEF OthersBlocked, Blocked, Waiting, BlockedAfter

LEMMA EmptyWaitsNext ==
  EmptyWaits' <=>
    \A q \in Queues : \A i \in Nat : Waiting(q, i)' /\ gpu'[q][i].packets = {} =>
        \A r \in Queues \ {q} : \A k \in Nat :
            Signalling(r, k)' /\ gpu'[r][k].value <= gpu'[q][i].value =>
                \E j \in 1..(i - 1) : BlockedAfter(q, j, gpu'[r][k].value)
BY DEF EmptyWaits, Blocked, Waiting, BlockedAfter

\* Waits that stay where they are block as before.
LEMMA StillBlocked ==
  ASSUME NEW q \in AllQueues, NEW j \in Nat, NEW value, Blocked(q, j, value), SameOp(q, j)
  PROVE  BlockedAfter(q, j, value)
BY DEF Blocked, SameOp, BlockedAfter, Waiting

LEMMA EmptyWaitsStay ==
  ASSUME EmptyWaits, SameOps PROVE EmptyWaits'
<1> SUFFICES ASSUME NEW q \in Queues, NEW i \in Nat, Waiting(q, i)', gpu'[q][i].packets = {},
                    NEW r \in Queues \ {q}, NEW k \in Nat,
                    Signalling(r, k)', gpu'[r][k].value <= gpu'[q][i].value
             PROVE  \E j \in 1..(i - 1) : BlockedAfter(q, j, gpu'[r][k].value)
  BY EmptyWaitsNext
<1>1. /\ q \in AllQueues /\ r \in AllQueues
      /\ \A j \in Nat : SameOp(q, j) /\ SameOp(r, j)
  BY SimulatorQueues DEF SameOps
<1>2. Waiting(q, i) /\ gpu'[q][i] = gpu[q][i] /\ Signalling(r, k) /\ gpu'[r][k] = gpu[r][k]
  BY <1>1 DEF SameOp
<1>3. PICK j \in 1..(i - 1) : Blocked(q, j, gpu[r][k].value)  BY <1>2 DEF EmptyWaits
<1>4. BlockedAfter(q, j, gpu[r][k].value)  BY <1>1, <1>3, StillBlocked
<1>5. QED  BY <1>2, <1>4

\* Steps that leave the counted receipts as they are.
LEMMA OthersBlockedStay ==
  ASSUME Sound, Chained, OthersBlocked, SameOps,
         device'.simQueue = device.simQueue, device'.simSignal = device.simSignal
  PROVE  OthersBlocked'
<1> SUFFICES ASSUME NEW q \in Queues, NEW i \in Nat, Signalling(q, i)',
                    gpu'[q][i].value <= device'.simSignal, q # device'.simQueue
             PROVE  \E j \in Nat : BlockedAfter(device'.simQueue, j, gpu'[q][i].value)
  BY OthersBlockedNext
<1>1. Signalling(q, i) /\ gpu'[q][i] = gpu[q][i]  BY SimulatorQueues DEF SameOps, SameOp
<1>2. device.simQueue \in AllQueues  BY <1>1, LastSimulator, SimulatorQueues
<1>3. PICK j \in Nat : Blocked(device.simQueue, j, gpu[q][i].value)  BY <1>1 DEF OthersBlocked
<1>4. SameOp(device.simQueue, j)  BY <1>2 DEF SameOps
<1>5. BlockedAfter(device.simQueue, j, gpu[q][i].value)  BY <1>2, <1>3, <1>4, StillBlocked
<1>6. QED  BY <1>1, <1>5

LEMMA SameCovered ==
  ASSUME Sound, Chained, Covered, SameOps, SameDevice, fence' = fence,
         tx.at = "signalled" => UNCHANGED tx,
         tx'.by \in Lists /\ tx'.packets = {} => ~cross_queue_unfinished(tx'.queue)
  PROVE  Covered'
<1>1. Counted /\ OthersBlocked /\ EmptyWaits  BY CoveredParts
<1>2. Counted'
  <2> SUFFICES ASSUME NEW q \in Queues, NEW i \in Nat, Signalling(q, i)'
               PROVE  \/ gpu'[q][i].value <= device'.simSignal
                      \/ /\ tx'.at = "signalled" /\ tx'.queue = q
                         /\ gpu'[q][i].value = tx'.value
    BY DEF Counted
  <2>1. Signalling(q, i) /\ gpu'[q][i] = gpu[q][i]  BY SimulatorQueues DEF SameOps, SameOp
  <2>2. QED  BY <1>1, <2>1 DEF Counted, SameDevice
<1>3. OthersBlocked' /\ EmptyWaits'  BY <1>1, OthersBlockedStay, EmptyWaitsStay DEF SameDevice
<1>4. Admissible'  BY DEF Admissible, cross_queue_unfinished, SameDevice
<1>5. QED  BY <1>2, <1>3, <1>4, CoveredPartsNext

LEMMA WaitsCovered ==
  ASSUME Sound, Typed', Chained, Covered, Waits PROVE Covered'
<1>1. Counted /\ OthersBlocked /\ Admissible /\ EmptyWaits /\ Typed /\ Bounded
  BY CoveredParts DEF Sound
<1>2. PICK q \in AllQueues, n \in Nat :
            /\ q = tx.queue /\ NewOp(q, n, WaitOp) /\ Waiting(q, n)' /\ ~Signalling(q, n)'
            /\ WaitOp.packets = tx.packets /\ WaitOp.value = device.last /\ WaitOp.by = tx.by
  BY <1>1, WaitAppends
<1>3. /\ tx.at = "reserved" /\ tx'.at = "waited" /\ tx'.queue = tx.queue /\ tx'.by = tx.by
      /\ tx'.packets = tx.packets /\ UNCHANGED <<device, fence>>
  BY <1>1, TypeParts DEF Typed, TxTypes, Waits
<1>4. ASSUME NEW r \in AllQueues, NEW i \in Nat, Signalling(r, i)'
      PROVE  Signalling(r, i) /\ gpu'[r][i] = gpu[r][i]
  BY <1>2, <1>4 DEF NewOp, SameOp
<1>5. ASSUME NEW r \in AllQueues, NEW j \in Nat, NEW value, Blocked(r, j, value)
      PROVE  BlockedAfter(r, j, value) /\ (r = q => j < n)
  BY <1>5, <1>2, StillBlocked DEF Blocked, NewOp
<1>6. Counted'  BY <1>1, <1>3, <1>4, SimulatorQueues DEF Counted
<1>7. OthersBlocked'
  <2> SUFFICES ASSUME NEW r \in Queues, NEW i \in Nat, Signalling(r, i)',
                      gpu'[r][i].value <= device'.simSignal, r # device'.simQueue
               PROVE  \E j \in Nat : BlockedAfter(device'.simQueue, j, gpu'[r][i].value)
    BY OthersBlockedNext
  <2>1. Signalling(r, i) /\ gpu'[r][i] = gpu[r][i]  BY <1>4, SimulatorQueues
  <2>2. device.simQueue \in AllQueues  BY <1>3, <2>1, LastSimulator, SimulatorQueues
  <2>3. PICK j \in Nat : Blocked(device.simQueue, j, gpu[r][i].value)
    BY <1>1, <1>3, <2>1 DEF OthersBlocked
  <2>4. QED  BY <1>3, <1>5, <2>1, <2>2, <2>3
<1>8. Admissible'  BY <1>1, <1>3 DEF Admissible, cross_queue_unfinished
<1>9. EmptyWaits'
  <2> SUFFICES ASSUME NEW r \in Queues, NEW i \in Nat, Waiting(r, i)', gpu'[r][i].packets = {},
                      NEW s \in Queues \ {r}, NEW k \in Nat,
                      Signalling(s, k)', gpu'[s][k].value <= gpu'[r][i].value
               PROVE  \E j \in 1..(i - 1) : BlockedAfter(r, j, gpu'[s][k].value)
    BY EmptyWaitsNext
  <2>1. Signalling(s, k) /\ gpu'[s][k] = gpu[s][k] /\ r \in AllQueues  BY <1>4, SimulatorQueues
  <2>2. CASE r = q /\ i = n
    <3>1. tx.by \in Lists /\ tx.packets = {}
      BY <1>1, <1>2, <1>3, <2>2, SimulatorQueues DEF Typed, Placed, NewOp
    <3>2. ~cross_queue_unfinished(q)  BY <1>1, <1>2, <3>1 DEF Admissible
    <3>3. gpu[s][k].value <= device.simSignal  BY <1>1, <1>3, <2>1 DEF Counted
    <3>4. device.simSignal > fence /\ gpu[s][k].value \in Nat  BY <2>1, <3>3, LastSimulator
    <3>5. device.simQueue = q  BY <1>1, <3>2, <3>4, Times DEF cross_queue_unfinished
    <3>6. PICK j \in Nat : Blocked(q, j, gpu[s][k].value)
      BY <1>1, <2>1, <2>2, <3>3, <3>5 DEF OthersBlocked
    <3>7. BlockedAfter(q, j, gpu[s][k].value) /\ j < n  BY <1>5, <3>6
    <3>8. j > 0  BY <1>1, <3>6, OpOf DEF Blocked
    <3>9. QED  BY <2>1, <2>2, <3>7, <3>8
  <2>3. CASE r # q \/ i # n
    <3>1. SameOp(r, i)  BY <1>2, <2>1, <2>3 DEF NewOp
    <3>2. Waiting(r, i) /\ gpu'[r][i] = gpu[r][i]  BY <3>1 DEF SameOp
    <3>3. PICK j \in 1..(i - 1) : Blocked(r, j, gpu[s][k].value)  BY <1>1, <2>1, <3>2 DEF EmptyWaits
    <3>4. QED  BY <1>5, <2>1, <3>3
  <2>4. QED  BY <2>2, <2>3
<1>10. QED  BY <1>6, <1>7, <1>8, <1>9, CoveredPartsNext

LEMMA SignalsCovered ==
  ASSUME Sound, Typed', Chained, Covered, Signals PROVE Covered'
<1>1. Counted /\ OthersBlocked /\ Admissible /\ EmptyWaits /\ Typed /\ Bounded
  BY CoveredParts DEF Sound
<1>2. PICK q \in AllQueues, n \in Nat :
            /\ q = tx.queue /\ NewOp(q, n, SignalOp) /\ ~Waiting(q, n)' /\ Signalling(q, n)'
            /\ SignalOp.value = tx.value
  BY <1>1, SignalAppends
<1>3. /\ tx.at = "recorded" /\ tx'.at = "signalled" /\ tx'.queue = tx.queue
      /\ tx'.by = tx.by /\ tx'.value = tx.value
      /\ tx'.packets = tx.packets /\ UNCHANGED <<device, fence>>
      /\ tx.value = device.last + 1
  BY <1>1, TypeParts DEF Typed, TxTypes, Signals, Bounded
<1>4. ASSUME NEW r \in AllQueues, NEW i \in Nat, r # q \/ i # n
      PROVE  SameOp(r, i)
  BY <1>2, <1>4 DEF NewOp
<1>5. ASSUME NEW r \in AllQueues, NEW j \in Nat, NEW value, Blocked(r, j, value)
      PROVE  BlockedAfter(r, j, value)
  BY <1>2, <1>5, <1>4, StillBlocked DEF NewOp, Blocked
<1>6. gpu'[q][n].value = device.last + 1 /\ device.last \in Nat /\ device.simSignal \in Nat
      /\ device.simSignal <= device.last
  BY <1>1, <1>2, <1>3, Times DEF NewOp, Bounded
<1>7. Counted'
  <2> SUFFICES ASSUME NEW r \in Queues, NEW i \in Nat, Signalling(r, i)'
               PROVE  \/ gpu'[r][i].value <= device.simSignal
                      \/ tx.queue = r /\ gpu'[r][i].value = tx.value
    BY <1>3 DEF Counted
  <2>1. CASE r = q /\ i = n  BY <1>2, <1>3, <1>6, <2>1
  <2>2. CASE r # q \/ i # n  BY <1>4, <2>2, SimulatorQueues, <1>1, <1>3 DEF SameOp, Counted
  <2>3. QED  BY <2>1, <2>2
<1>8. OthersBlocked'
  <2> SUFFICES ASSUME NEW r \in Queues, NEW i \in Nat, Signalling(r, i)',
                      gpu'[r][i].value <= device.simSignal, r # device.simQueue
               PROVE  \E j \in Nat : BlockedAfter(device.simQueue, j, gpu'[r][i].value)
    BY <1>3, OthersBlockedNext
  <2>1. r # q \/ i # n  BY <1>6
  <2>2. Signalling(r, i) /\ gpu'[r][i] = gpu[r][i]  BY <1>4, <2>1, SimulatorQueues DEF SameOp
  <2>3. device.simQueue \in AllQueues  BY <2>2, LastSimulator, SimulatorQueues
  <2>4. PICK j \in Nat : Blocked(device.simQueue, j, gpu[r][i].value)
    BY <1>1, <2>2 DEF OthersBlocked
  <2>5. QED  BY <1>5, <2>2, <2>3, <2>4
<1>9. Admissible'  BY <1>1, <1>3 DEF Admissible, cross_queue_unfinished
<1>10. EmptyWaits'
  <2> SUFFICES ASSUME NEW r \in Queues, NEW i \in Nat, Waiting(r, i)', gpu'[r][i].packets = {},
                      NEW s \in Queues \ {r}, NEW k \in Nat,
                      Signalling(s, k)', gpu'[s][k].value <= gpu'[r][i].value
               PROVE  \E j \in 1..(i - 1) : BlockedAfter(r, j, gpu'[s][k].value)
    BY EmptyWaitsNext
  <2>1. r \in AllQueues /\ s \in AllQueues  BY SimulatorQueues
  <2>2. Waiting(r, i) /\ gpu'[r][i] = gpu[r][i]  BY <1>2, <1>4, <2>1 DEF SameOp
  <2>3. gpu[r][i].value <= device.last /\ gpu[r][i].value \in Nat
    BY <1>1, <2>1, <2>2, OpOf DEF Bounded
  <2>4. s # q \/ k # n  BY <1>6, <2>2, <2>3
  <2>5. Signalling(s, k) /\ gpu'[s][k] = gpu[s][k]  BY <1>4, <2>1, <2>4 DEF SameOp
  <2>6. PICK j \in 1..(i - 1) : Blocked(r, j, gpu[s][k].value)  BY <1>1, <2>2, <2>5 DEF EmptyWaits
  <2>7. QED  BY <1>5, <2>1, <2>5, <2>6
<1>11. QED  BY <1>7, <1>8, <1>9, <1>10, CoveredPartsNext

\* The receipt that ends is the last one of a simulator queue: its own Wait covers
\* the others, or there are none, or they were covered on its queue before.
LEMMA FinishesCovered ==
  ASSUME Sound, Typed', Chained, Covered, Finishes PROVE Covered'
<1>1. Counted /\ OthersBlocked /\ Admissible /\ EmptyWaits /\ Typed /\ Bounded /\ Behind
  BY CoveredParts, ChainedParts DEF Sound
<1>2. /\ tx.at = "signalled" /\ tx.value = device.last + 1 /\ tx'.at = "none" /\ tx'.by = Null
      /\ fence' = fence /\ SameOps
      /\ device.last \in Nat /\ device.simSignal \in Nat /\ fence \in Nat
      /\ device.simSignal <= device.last
  BY <1>1, Times, GrownOps DEF Finishes, Still, Bounded, NoReceipt
<1>3. Admissible' /\ EmptyWaits'  BY <1>1, <1>2, EmptyWaitsStay, SubmissionAssumption DEF Admissible
<1>4. ASSUME NEW q \in Queues, NEW i \in Nat, Signalling(q, i)'
      PROVE  Signalling(q, i) /\ gpu'[q][i] = gpu[q][i]
  BY <1>2, <1>4, SimulatorQueues DEF SameOps, SameOp
<1>5. CASE tx.by = Private
  <2>1. tx.queue \notin Queues /\ device'.simQueue = device.simQueue
        /\ device'.simSignal = device.simSignal
    BY <1>1, <1>2, <1>5, SubmissionAssumption DEF Typed, Placed, Finishes
  <2>2. Counted'  BY <1>1, <1>4, <2>1 DEF Counted
  <2>3. OthersBlocked'  BY <1>1, <1>2, <2>1, OthersBlockedStay
  <2>4. QED  BY <1>3, <2>2, <2>3, CoveredPartsNext
<1>6. CASE tx.by # Private
  <2>1. tx.by \in Lists /\ tx.queue \in Queues /\ device'.simQueue = tx.queue
        /\ device'.simSignal = tx.value
    BY <1>1, <1>2, <1>6 DEF Typed, Placed, Finishes
  <2>2. Counted'
    <3> SUFFICES ASSUME NEW q \in Queues, NEW i \in Nat, Signalling(q, i)'
                 PROVE  gpu'[q][i].value <= tx.value
      BY <2>1 DEF Counted
    <3>1. Signalling(q, i) /\ gpu'[q][i] = gpu[q][i] /\ gpu[q][i].value \in Nat
      BY <1>1, <1>4, OpOf, SimulatorQueues
    <3>2. QED  BY <1>1, <1>2, <3>1 DEF Counted
  <2>3. OthersBlocked'
    <3> SUFFICES ASSUME NEW q \in Queues, NEW i \in Nat, Signalling(q, i)', q # tx.queue
                 PROVE  \E j \in Nat : BlockedAfter(tx.queue, j, gpu'[q][i].value)
      BY <2>1, OthersBlockedNext
    <3>1. Signalling(q, i) /\ gpu'[q][i] = gpu[q][i]  BY <1>4
    <3>2. gpu[q][i].value <= device.simSignal  BY <1>1, <3>1 DEF Counted
    <3>3. /\ device.simQueue \in Queues /\ device.simSignal > fence
          /\ gpu[q][i].value > fence /\ gpu[q][i].value \in Nat
      BY <3>1, <3>2, LastSimulator
    <3>4. \E j \in Nat : Blocked(tx.queue, j, gpu[q][i].value)
      <4>1. CASE tx.packets = {}
        <5>1. ~cross_queue_unfinished(tx.queue)  BY <1>1, <2>1, <4>1 DEF Admissible
        <5>2. device.simQueue = tx.queue  BY <1>2, <3>3, <5>1 DEF cross_queue_unfinished
        <5>3. QED  BY <1>1, <3>1, <3>2, <5>2 DEF OthersBlocked
      <4>2. CASE tx.packets # {}  BY <1>1, <1>2, <3>3, <3>2, <4>2 DEF Behind, Blocked
      <4>3. QED  BY <4>1, <4>2
    <3>5. PICK j \in Nat : Blocked(tx.queue, j, gpu[q][i].value)  BY <3>4
    <3>6. tx.queue \in AllQueues /\ SameOp(tx.queue, j)  BY <1>2, <2>1, SimulatorQueues DEF SameOps
    <3>7. BlockedAfter(tx.queue, j, gpu[q][i].value)  BY <3>5, <3>6, StillBlocked
    <3>8. QED  BY <3>1, <3>7
  <2>4. QED  BY <1>3, <2>2, <2>3, CoveredPartsNext
<1>7. QED  BY <1>5, <1>6

LEMMA RunCovered ==
  ASSUME Sound, Typed', Chained, Covered, NEW q \in AllQueues, Runs(q) PROVE Covered'
<1>1. /\ Counted /\ OthersBlocked /\ Admissible /\ EmptyWaits /\ Typed /\ fence \in Nat
      /\ Waiting(q, 1) => fence >= gpu[q][1].value
      /\ fence' >= fence /\ fence' \in Nat /\ UNCHANGED <<tx, device>>
      /\ device.simSignal \in Nat
  BY CoveredParts, Times, RunHead DEF Sound, Runs
<1>2. ASSUME NEW r \in Queues, NEW i \in Nat, Signalling(r, i)'
      PROVE  \E k \in Nat : /\ Signalling(r, k) /\ gpu'[r][i] = gpu[r][k]
                            /\ gpu[r][k].value > fence /\ gpu[r][k].value \in Nat
  BY <1>1, <1>2, RunFrom, SimulatorQueues, ChainedParts, OpOf DEF InTurn, Next1
\* A Wait beyond the timeline is not the one that runs.
<1>3. ASSUME NEW r \in AllQueues, NEW j \in Nat, NEW value \in Nat, value > fence,
             Blocked(r, j, value)
      PROVE  NewPlace(q, r, j) \in Nat /\ NewPlace(q, r, j) > 0
             /\ BlockedAfter(r, NewPlace(q, r, j), value)
  <2>1. Waiting(r, j) /\ gpu[r][j].value >= value /\ gpu[r][j].value \in Nat
    BY <1>1, <1>3, OpOf DEF Blocked
  <2>2. r # q \/ j # 1  BY <1>1, <1>3, <2>1
  <2>3. /\ NewPlace(q, r, j) \in Nat /\ NewPlace(q, r, j) > 0
        /\ Waiting(r, NewPlace(q, r, j))' /\ gpu'[r][NewPlace(q, r, j)] = gpu[r][j]
    BY <1>1, <2>1, <2>2, RunTo
  <2> DEFINE m == NewPlace(q, r, j)
  <2> HIDE DEF m
  <2>4. Waiting(r, m)' /\ gpu'[r][m] = gpu[r][j]  BY <2>3 DEF m
  <2>5. BlockedAfter(r, m, value)  BY <1>3, <2>4 DEF BlockedAfter, Waiting, Blocked
  <2>6. QED  BY <2>3, <2>5 DEF m
<1>4. Counted'  BY <1>1, <1>2 DEF Counted
<1>5. OthersBlocked'
  <2> SUFFICES ASSUME NEW r \in Queues, NEW i \in Nat, Signalling(r, i)',
                      gpu'[r][i].value <= device.simSignal, r # device.simQueue
               PROVE  \E j \in Nat : BlockedAfter(device.simQueue, j, gpu'[r][i].value)
    BY <1>1, OthersBlockedNext
  <2>1. PICK k \in Nat : /\ Signalling(r, k) /\ gpu'[r][i] = gpu[r][k]
                         /\ gpu[r][k].value > fence /\ gpu[r][k].value \in Nat
    BY <1>2
  <2>2. device.simQueue \in AllQueues  BY <2>1, LastSimulator, SimulatorQueues
  <2>3. PICK j \in Nat : Blocked(device.simQueue, j, gpu[r][k].value)
    BY <1>1, <2>1 DEF OthersBlocked
  <2>4. QED  BY <1>3, <2>1, <2>2, <2>3
<1>6. Admissible'  BY <1>1 DEF Admissible, cross_queue_unfinished
<1>7. EmptyWaits'
  <2> SUFFICES ASSUME NEW r \in Queues, NEW i \in Nat, Waiting(r, i)', gpu'[r][i].packets = {},
                      NEW s \in Queues \ {r}, NEW k \in Nat,
                      Signalling(s, k)', gpu'[s][k].value <= gpu'[r][i].value
               PROVE  \E j \in 1..(i - 1) : BlockedAfter(r, j, gpu'[s][k].value)
    BY EmptyWaitsNext
  <2> DEFINE o == OldPlace(q, r, i)
  <2>1. o \in Nat /\ Waiting(r, o) /\ gpu'[r][i] = gpu[r][o] /\ r \in AllQueues
    BY <1>1, RunFrom, SimulatorQueues
  <2>2. PICK l \in Nat : /\ Signalling(s, l) /\ gpu'[s][k] = gpu[s][l]
                         /\ gpu[s][l].value > fence /\ gpu[s][l].value \in Nat
    BY <1>2
  <2>3. PICK j \in 1..(o - 1) : Blocked(r, j, gpu[s][l].value)  BY <1>1, <2>1, <2>2 DEF EmptyWaits
  <2>4. j \in Nat  OBVIOUS
  <2>5. /\ NewPlace(q, r, j) \in Nat /\ NewPlace(q, r, j) > 0
        /\ BlockedAfter(r, NewPlace(q, r, j), gpu[s][l].value)
    BY <1>3, <2>1, <2>2, <2>3, <2>4
  <2>6. NewPlace(q, r, j) \in 1..(i - 1)  BY <2>1, <2>3, <2>5 DEF NewPlace, OldPlace
  <2>7. QED  BY <2>2, <2>5, <2>6
<1>8. QED  BY <1>4, <1>5, <1>6, <1>7, CoveredPartsNext

(***************************************************************************)
(* The theorems.                                                           *)
(***************************************************************************)

\* A step that leaves the watchdog's record false has not moved the timeline.
LEMMA OrderedKeeps ==
  ASSUME Sound, Typed', Ordered, TimelineStep PROVE Ordered'
<1> SUFFICES ASSUME ~past'.overtaken PROVE Chained' /\ Covered'  BY DEF Ordered
<1>0. Typed /\ (~past.overtaken => Chained /\ Covered /\ Admissible)
  BY CoveredParts DEF Sound, Ordered
<1>1. CASE Quiet
  <2>1. /\ SameOps /\ fence' = fence /\ SameDevice /\ Chained /\ Covered /\ Admissible
    BY <1>0, <1>1, GrownOps DEF Quiet, Still, SameTimes
  <2>2. Chained'  BY <1>0, <1>1, <2>1, SameChained DEF Quiet, Goes, SameDevice
  <2>3. Covered'  BY <1>1, <2>1, SameCovered DEF Quiet, Goes, Admissible
  <2>4. QED  BY <2>2, <2>3
<1>2. CASE Begins
  <2>1. /\ SameOps /\ fence' = fence /\ SameDevice /\ Chained /\ Covered /\ tx.at = "none"
    BY <1>0, <1>2, GrownOps DEF Begins, Still, SameTimes
  <2>2. /\ tx'.at = "reserved"
        /\ tx'.by \in Lists /\ tx'.packets = {} => ~cross_queue_unfinished(tx'.queue)
    BY <1>2, SubmissionAssumption DEF Begins, begin_transaction
  <2>3. Chained'  BY <1>0, <2>1, <2>2, SameChained
  <2>4. Covered'  BY <2>1, <2>2, SameCovered
  <2>5. QED  BY <2>3, <2>4
<1>3. CASE Waits  BY <1>0, <1>3, WaitsChained, WaitsCovered DEF Waits
<1>4. CASE PublishWait
  <2>1. /\ UNCHANGED <<device, fence, gpu, past>> /\ tx.at = "waited" /\ tx'.at = "ordered"
        /\ tx'.by = tx.by /\ tx'.packets = tx.packets /\ tx'.queue = tx.queue
    BY <1>0, <1>4, TypeParts DEF Typed, TxTypes, PublishWait
  <2>2. SameOps /\ SameDevice /\ Chained /\ Covered /\ Admissible
    BY <1>0, <2>1, StillGrown, GrownOps, TypeParts DEF Typed, SameDevice
  <2>3. Chained'  BY <1>0, <2>1, <2>2, SameChained
  <2>4. Covered'  BY <2>1, <2>2, SameCovered DEF Admissible
  <2>5. QED  BY <2>3, <2>4
<1>5. CASE Ends
  <2>1. /\ SameOps /\ fence' = fence /\ SameDevice /\ Chained /\ Covered
        /\ tx.at # "signalled" /\ tx'.at = "none" /\ tx'.by \notin Lists
    BY <1>0, <1>5, GrownOps, SubmissionAssumption DEF Ends, Still, SameTimes, NoReceipt
  <2>2. Chained'  BY <1>0, <2>1, SameChained
  <2>3. Covered'  BY <2>1, SameCovered
  <2>4. QED  BY <2>2, <2>3
<1>6. CASE Signals  BY <1>0, <1>6, SignalsChained, SignalsCovered DEF Signals, SameTimes
<1>7. CASE Finishes
  <2>1. SameOps /\ fence' = fence /\ Chained /\ Covered /\ tx'.at = "none"
    BY <1>0, <1>7, GrownOps DEF Finishes, Still, SameTimes, NoReceipt
  <2>2. Chained'  BY <1>0, <2>1, SameChained
  <2>3. QED  BY <1>7, <2>1, <2>2, FinishesCovered
<1>8. CASE CloseGate \/ release_queued_waits \/ OpenGate
  <2>1. UNCHANGED <<tx, device, gpu, fence>> /\ ~past.overtaken
    <3>1. CASE CloseGate  BY <3>1 DEF CloseGate
    <3>2. CASE OpenGate  BY <3>2, <1>0, TypeParts DEF OpenGate, Typed, PastTypes
    <3>3. CASE release_queued_waits
      <4>1. PICK b \in BOOLEAN : b = (past.overtaken \/ (Unreleased /\ fence < gate.waited))
        BY <1>0, TypeParts DEF Typed, PastTypes
      <4>2. past' = [past EXCEPT !.late = PastGate, !.overtaken = b]
        BY <3>3, <4>1, Zenon DEF release_queued_waits
      <4>3. ~b  BY <1>0, <4>2, TypeParts DEF Typed, PastTypes
      <4>4. ~past.overtaken /\ ~(Unreleased /\ fence < gate.waited)  BY <4>1, <4>3, Zenon
      <4>5. QED  BY <3>3, <4>4 DEF release_queued_waits
    <3>4. QED  BY <1>8, <3>1, <3>2, <3>3
  <2>2. SameOps /\ SameDevice /\ Chained /\ Covered /\ Admissible
    BY <1>0, <2>1, StillGrown, GrownOps, TypeParts DEF Typed, SameDevice
  <2>3. Chained'  BY <1>0, <2>1, <2>2, SameChained
  <2>4. Covered'  BY <2>1, <2>2, SameCovered DEF Admissible
  <2>5. QED  BY <2>3, <2>4
<1>9. ASSUME NEW q \in AllQueues, Runs(q) PROVE Chained' /\ Covered'
  BY <1>0, <1>9, RunChained, RunCovered DEF Runs
<1>10. QED  BY <1>1, <1>2, <1>3, <1>4, <1>5, <1>6, <1>7, <1>8, <1>9 DEF TimelineStep

LEMMA InitOrdered == Init => Ordered
<1> SUFFICES ASSUME Init PROVE Chained /\ Covered  BY DEF Ordered
<1>1. /\ \A q \in AllQueues : \A i \in Nat : ~Waiting(q, i) /\ ~Signalling(q, i)
      /\ \A q \in Queues : \A i \in Nat : ~Waiting(q, i) /\ ~Signalling(q, i)
  BY SimulatorQueues DEF Init, Waiting, Signalling
<1>2. tx.at = "none" /\ tx.by \notin Lists  BY SubmissionAssumption DEF Init, NoReceipt
<1>3. Chained  BY <1>1, <1>2 DEF Chained
<1>4. Covered  BY <1>1, <1>2 DEF Covered
<1>5. QED  BY <1>3, <1>4

LEMMA OrderedIsEnough == Sound /\ Ordered => NoNewCycle
<1> SUFFICES ASSUME Sound, Ordered, ~past.overtaken,
                    NEW q \in Queues, NEW i \in DOMAIN gpu[q],
                    gpu[q][i].kind = "wait", gpu[q][i].packets = {},
                    NEW other \in Queues \ {q}, NEW value \in (fence + 1)..gpu[q][i].value,
                    PendingSignal(other, value)
             PROVE  \E j \in 1..(i - 1) :
                        /\ gpu[q][j].kind = "wait" /\ gpu[q][j].packets # {}
                        /\ gpu[q][j].value >= value
  BY DEF NoNewCycle
<1>1. EmptyWaits  BY CoveredParts DEF Ordered
<1>2. /\ q \in AllQueues /\ other \in AllQueues /\ 0 \in Nat
      /\ gpu[q] \in Seq(Operation) /\ gpu[other] \in Seq(Operation)
  BY SimulatorQueues, OpOf DEF Sound
<1>3. i \in Nat /\ Waiting(q, i)  BY <1>2 DEF Waiting
<1>4. PICK k \in Nat : Signalling(other, k) /\ gpu[other][k].value = value
  <2>1. PICK k \in DOMAIN gpu[other] : gpu[other][k].kind = "signal" /\ gpu[other][k].value = value
    BY DEF PendingSignal
  <2>2. k \in Nat /\ Signalling(other, k)  BY <1>2, <2>1 DEF Signalling
  <2>3. QED  BY <2>1, <2>2
<1>5. value <= gpu[q][i].value  BY <1>2, <1>3, OpOf, Times DEF Sound
<1>6. PICK j \in 1..(i - 1) : Blocked(q, j, value)  BY <1>1, <1>3, <1>4, <1>5 DEF EmptyWaits
<1>7. QED  BY <1>6 DEF Blocked, Waiting

LEMMA Inductive ==
  /\ Init => Sound /\ Released /\ Ordered
  /\ Sound /\ Released /\ Ordered /\ [Next]_vars => (Sound /\ Released /\ Ordered)'
<1>1. Sound /\ Released /\ Ordered /\ [Next]_vars => (Sound /\ Released /\ Ordered)'
  <2> SUFFICES ASSUME Sound, Released, Ordered, [Next]_vars
               PROVE  Sound' /\ Released' /\ Ordered'
    OBVIOUS
  <2>1. Typed' /\ TimelineStep  BY NextKeeps DEF Sound
  <2>2. Bounded' /\ Released' /\ Ordered'  BY <2>1, BoundedKeeps, ReleasedKeeps, OrderedKeeps
  <2>3. QED  BY <2>1, <2>2 DEF Sound
<1>2. QED  BY <1>1, InitSound, InitOrdered

\* The state keeps its types: a queued operation, a receipt and the timeline stay
\* within the receipts that were handed out (scene_capture_manager.hpp, Device and
\* Transaction).
THEOREM TypesHold == Spec => []TypeOK
<1>1. Sound => TypeOK  BY DEF Sound, Typed
<1>2. QED  BY <1>1, Inductive, PTL DEF Spec

\* While the gate is closed, a simulator queue is blocked only by a batch that had
\* passed the gate before it closed, or after the GPU's own late Signal has set the
\* timeline back (graphics/scene_capture_manager.cpp, release_queued_waits).
THEOREM WaitsAreReleased == Spec => []GateReleasesWaits
BY Inductive, ReleasedIsEnough, PTL DEF Spec

\* A batch without capture packets never makes its queue wait for the unfinished
\* receipt of another simulator queue, unless a batch with packets already does; as
\* long as the watchdog has not moved the timeline ahead of the GPU
\* (graphics/scene_capture_manager.cpp, cross_queue_unfinished).
THEOREM NoCycleIsClosed == Spec => []NoNewCycle
BY Inductive, OrderedIsEnough, PTL DEF Spec

(***************************************************************************)
(* The contract of the packets, FrameLease: it keeps a texture to one side  *)
(* at a time, its writers or its readers.                                   *)
(***************************************************************************)

\* What is known of one texture is kept by each of its steps.
LEMMA StepKeeps ==
  ASSUME NEW s \in Lease!Slot, NEW n, Undisturbed(s), Lease!Step(s, n)
  PROVE  n \in Lease!Slot /\ Undisturbed(n)
<1>1. CASE Lease!Record(s, n)
  BY <1>1 DEF Lease!Record, Lease!Becomes, Lease!NotWritten, Lease!NotRead, Lease!Slot,
              Lease!Stages, Undisturbed
<1>2. CASE Lease!Execute(s, n)  BY <1>2 DEF Lease!Execute, Lease!Slot, Lease!Stages, Undisturbed
<1>3. CASE Lease!Written(s, n)  BY <1>3 DEF Lease!Written, Lease!Slot, Lease!Stages, Undisturbed
<1>4. CASE Lease!WasRead(s, n)  BY <1>4 DEF Lease!WasRead, Lease!Slot, Lease!Stages, Undisturbed
<1>5. CASE Lease!Hand(s, n)
  BY <1>5 DEF Lease!Hand, Lease!Becomes, Lease!NotWritten, Lease!Slot, Lease!Stages, Undisturbed
<1>6. CASE Lease!Consume(s, n)  BY <1>6 DEF Lease!Consume, Lease!Slot, Lease!Stages, Undisturbed
<1>7. CASE Lease!Spend(s, n)
  BY <1>7 DEF Lease!Spend, Lease!Becomes, Lease!NotWritten, Lease!Slot, Lease!Stages, Undisturbed
<1>8. CASE Lease!Return(s, n)
  BY <1>8 DEF Lease!Return, Lease!Becomes, Lease!NotWritten, Lease!NotRead, Lease!Slot,
              Lease!Stages, Undisturbed
<1>9. CASE Lease!Lose(s, n)
  BY <1>9 DEF Lease!Lose, Lease!Becomes, Lease!Slot, Lease!Stages, Undisturbed
<1>10. CASE Lease!Distrust(s, n)  BY <1>10 DEF Lease!Distrust, Lease!Slot, Lease!Stages, Undisturbed
<1>11. QED  BY <1>1, <1>2, <1>3, <1>4, <1>5, <1>6, <1>7, <1>8, <1>9, <1>10 DEF Lease!Step

LEMMA LeaseParts ==
  /\ Lease!TypeOK <=> \A p \in Packets : SlotOf(p) \in Lease!Slot
  /\ Lease!Exclusive <=> \A p \in Packets : Undisturbed(SlotOf(p))
BY DEF Lease!TypeOK, Lease!Exclusive, Undisturbed, SlotOf

LEMMA LeasePartsNext ==
  /\ Lease!TypeOK' <=> \A p \in Packets : SlotOf(p)' \in Lease!Slot
  /\ Lease!Exclusive' <=> \A p \in Packets : Undisturbed(SlotOf(p)')
BY DEF Lease!TypeOK, Lease!Exclusive, Undisturbed, SlotOf

\* No texture is written while its frame is out or it is free, and none is read
\* when it is free or a copy into it is recorded, as long as the queued work is in
\* the order the receipts say (scene_capture_manager.hpp, the promise of the lease).
THEOREM LeaseIsExclusive == Lease!Spec => [](Lease!TypeOK /\ Lease!Exclusive)
<1>1. Lease!Init => Lease!TypeOK /\ Lease!Exclusive
  <2> SUFFICES ASSUME Lease!Init PROVE Lease!TypeOK /\ Lease!Exclusive  OBVIOUS
  <2>1. Lease!Fresh \in Lease!Slot /\ Undisturbed(Lease!Fresh)
    BY DEF Lease!Fresh, Lease!Slot, Lease!Stages, Undisturbed
  <2>2. \A p \in Packets : SlotOf(p) = Lease!Fresh  BY DEF Lease!Init, SlotOf
  <2>3. QED  BY <2>1, <2>2, LeaseParts
<1>2. Lease!TypeOK /\ Lease!Exclusive /\ [Lease!Next]_([p \in Packets |-> SlotOf(p)])
         => (Lease!TypeOK /\ Lease!Exclusive)'
  <2> SUFFICES ASSUME Lease!TypeOK, Lease!Exclusive, [Lease!Next]_([p \in Packets |-> SlotOf(p)])
               PROVE  Lease!TypeOK' /\ Lease!Exclusive'
    OBVIOUS
  <2>1. ASSUME NEW p \in Packets PROVE SlotOf(p)' = SlotOf(p) \/ Lease!Step(SlotOf(p), SlotOf(p)')
    BY DEF Lease!Next, SlotOf
  <2>2. ASSUME NEW p \in Packets PROVE SlotOf(p)' \in Lease!Slot /\ Undisturbed(SlotOf(p)')
    BY <2>1, StepKeeps, LeaseParts
  <2>3. QED  BY <2>2, LeasePartsNext
<1>3. QED  BY <1>1, <1>2, PTL DEF Lease!Spec, SlotOf

(***************************************************************************)
(* The packets.  A queued copy is covered by a Signal behind it, and a       *)
(* packet moves on by the Signal that covers it, or by its producer's fence. *)
(***************************************************************************)

(* The queues: what a step adds to them is behind what was there. *)

LEMMA LongerOps ==
  ASSUME Typed, Longer, NEW q \in AllQueues, NEW i \in Nat, i \in 1..Len(gpu[q])
  PROVE  i \in 1..Len(gpu'[q]) /\ gpu'[q][i] = gpu[q][i]
<1>1. /\ Len(gpu[q]) <= Len(gpu'[q]) /\ gpu'[q][i] = gpu[q][i] /\ Len(gpu[q]) \in Nat
  BY OpOf DEF Longer
<1>2. Len(gpu'[q]) \in Int => i \in 1..Len(gpu'[q])  BY <1>1
<1>3. QED  BY <1>1, <1>2

LEMMA LongerSignals ==
  ASSUME Typed, Typed', Longer, NEW q \in AllQueues, NEW j \in Nat, Signalling(q, j)
  PROVE  Signalling(q, j)' /\ gpu'[q][j] = gpu[q][j] /\ gpu[q][j].value \in Nat
<1>1. Len(gpu'[q]) \in Nat  BY TypePartsNext DEF Typed, GpuTypes
<1>2. j \in 1..Len(gpu[q]) /\ gpu[q][j].kind = "signal"  BY DEF Signalling
<1>3. j \in 1..Len(gpu'[q]) /\ gpu'[q][j] = gpu[q][j]  BY <1>1, <1>2 DEF Longer
<1>4. QED  BY <1>2, <1>3, OpOf DEF Signalling

LEMMA LongerCarries ==
  ASSUME Typed, Typed', Longer, NEW kind, NEW p, NEW q \in AllQueues, NEW i \in Nat,
         Carries(kind, q, i, p)
  PROVE  Carries(kind, q, i, p)'
<1>1. Len(gpu'[q]) \in Nat  BY TypePartsNext DEF Typed, GpuTypes
<1>2. i \in 1..Len(gpu[q])  BY DEF Carries
<1>3. i \in 1..Len(gpu'[q]) /\ gpu'[q][i] = gpu[q][i]  BY <1>1, <1>2 DEF Longer
<1>4. QED  BY <1>3 DEF Carries

LEMMA SameLonger == ASSUME Typed, gpu' = gpu PROVE Longer /\ \A kind, p : NoNew(kind, p)
BY OpOf DEF Longer, NoNew, Carries

(* A packet that stays as it is stays covered. *)

LEMMA WritesStay ==
  ASSUME Typed, Typed', Longer, NEW p \in Packets, NEW k, WritesCovered(p, k), NoNew("write", p),
         \A q \in AllQueues : Here(q, p) => Here(q, p)',
         \A value \in Nat : Enough(p, k, value) => Enough(p, k, value)'
  PROVE  WritesCovered(p, k)'
<1> SUFFICES ASSUME NEW q \in AllQueues, NEW i \in Nat, Writing(q, i, p)'
             PROVE  /\ k.gpu \in {"recorded", "retiring"}
                    /\ \/ Here(q, p)'
                       \/ \E j \in Nat : /\ Signalling(q, j)' /\ j > i
                                         /\ Enough(p, k, gpu[q][j].value)'
  BY DEF WritesCovered
<1>1. Writing(q, i, p)  BY DEF NoNew, Writing
<1>2. CASE Here(q, p)  BY <1>1, <1>2 DEF WritesCovered
<1>3. ASSUME NEW j \in Nat, Signalling(q, j), j > i, Enough(p, k, gpu[q][j].value)
      PROVE  Signalling(q, j)' /\ j > i /\ Enough(p, k, gpu[q][j].value)'
  <2>1. Signalling(q, j)' /\ gpu'[q][j] = gpu[q][j] /\ gpu[q][j].value \in Nat
    BY <1>3, LongerSignals
  <2> DEFINE v == gpu[q][j].value
  <2>2. PICK u \in Nat : u = v  BY <2>1
  <2>3. Enough(p, k, u)'  BY <1>3, <2>2
  <2>4. Enough(p, k, gpu[q][j].value)'  BY <2>1, <2>2, <2>3 DEF Enough
  <2>5. QED  BY <1>3, <2>1, <2>4
<1>4. QED  BY <1>1, <1>2, <1>3 DEF WritesCovered

LEMMA LastStays ==
  ASSUME Typed, Typed', Longer, NEW k \in Packet, LastSignalled(k), fence' = fence,
         device.last <= device'.last
  PROVE  LastSignalled(k)'
<1> SUFFICES ASSUME k.submitted
             PROVE  /\ k.producer \in AllQueues /\ k.order < 2 * (device'.last + 1)
                    /\ k.order >= 2 * (fence' + 1) =>
                         \E j \in Nat : /\ Signalling(k.producer, j)'
                                        /\ OfOrder(k, gpu[k.producer][j].value)'
  BY DEF LastSignalled
<1>1. /\ k.producer \in AllQueues /\ k.order < 2 * (device.last + 1)
      /\ k.order >= 2 * (fence + 1) =>
            \E j \in Nat : Signalling(k.producer, j) /\ OfOrder(k, gpu[k.producer][j].value)
  BY DEF LastSignalled
<1>2. k.order < 2 * (device'.last + 1)
  <2>1. k.order \in Nat /\ device.last \in Nat /\ device'.last \in Nat
    BY Times, TimesNext, Numbers DEF Packet
  <2>2. QED  BY <1>1, <2>1
<1>3. ASSUME NEW j \in Nat, Signalling(k.producer, j), OfOrder(k, gpu[k.producer][j].value)
      PROVE  Signalling(k.producer, j)' /\ OfOrder(k, gpu[k.producer][j].value)'
  BY <1>1, <1>3, LongerSignals DEF OfOrder
<1>4. QED  BY <1>1, <1>2, <1>3

LEMMA RetiringStays ==
  ASSUME Typed, Typed', Longer, NEW p \in Packets, NEW k \in Packet, LastSignalled(k),
         Retiring(p, k), fence' = fence, k.gpu = "retiring" => NoNew("write", p),
         \A j \in Nat : Signalling(k.producer, j)' /\ OfOrder(k, gpu'[k.producer][j].value) =>
                           Signalling(k.producer, j)
  PROVE  Retiring(p, k)'
<1> SUFFICES ASSUME k.gpu = "retiring"
             PROVE  k.submitted /\ (AllRan(p, k)' \/ FenceBehind(p, k)')
  BY DEF Retiring
<1>1. k.submitted /\ k.producer \in AllQueues /\ NoNew("write", p)  BY DEF Retiring, LastSignalled
<1>2. CASE AllRan(p, k)  BY <1>1, <1>2 DEF AllRan, NoNew, Writing
<1>3. CASE FenceBehind(p, k)
  <2>1. PICK n \in Nat :
          /\ Finishing(k.producer, n, p)
          /\ \A i \in Nat : Writing(k.producer, i, p) => i < n
          /\ \A j \in Nat :
                Signalling(k.producer, j) /\ OfOrder(k, gpu[k.producer][j].value) => j < n
    BY <1>3 DEF FenceBehind
  <2>2. Finishing(k.producer, n, p)'  BY <1>1, <2>1, LongerCarries DEF Finishing
  <2>3. \A i \in Nat : Writing(k.producer, i, p)' => i < n  BY <1>1, <2>1 DEF NoNew, Writing
  <2>4. ASSUME NEW j \in Nat, Signalling(k.producer, j)', OfOrder(k, gpu'[k.producer][j].value)
        PROVE  j < n
    <3>1. Signalling(k.producer, j)  BY <2>4
    <3>2. gpu'[k.producer][j] = gpu[k.producer][j]  BY <1>1, <3>1, LongerSignals
    <3>3. OfOrder(k, gpu[k.producer][j].value)  BY <2>4, <3>2
    <3>4. QED  BY <2>1, <3>1, <3>3
  <2>5. FenceBehind(p, k)'  BY <2>2, <2>3, <2>4 DEF FenceBehind, OfOrder
  <2>6. QED  BY <1>1, <2>5
<1>4. QED  BY <1>2, <1>3 DEF Retiring

LEMMA BehindStays ==
  ASSUME Typed, Typed', Longer, NEW q \in AllQueues, NEW i \in Nat, NEW value,
         SignalBehind(q, i, value)
  PROVE  SignalBehind(q, i, value)'
<1>1. PICK j \in Nat : Signalling(q, j) /\ j > i /\ gpu[q][j].value <= value  BY DEF SignalBehind
<1>2. Signalling(q, j)' /\ gpu'[q][j] = gpu[q][j]  BY <1>1, LongerSignals
<1>3. QED  BY <1>1, <1>2 DEF SignalBehind

\* The worker's reads, while it goes on as it was or the receipt does.
LEMMA ReadsStay ==
  ASSUME Typed, Typed', Longer, NEW p \in Packets, NEW k, ReadsCovered(p, k), NoNew("read", p),
         p \in worker.pending /\ worker.at # "idle" => p \in worker'.pending /\ worker'.at # "idle",
         p \in worker'.pending =>
            /\ p \in worker.pending
            /\ tx'.by = Private /\ tx'.at = "signalled" =>
                  tx.by = Private /\ tx.at = "signalled" /\ tx'.value = tx.value
            /\ worker'.at = "drawn" =>
                  \/ worker.at = "drawn" /\ worker'.value = worker.value
                  \/ tx.by = Private /\ tx.at = "signalled" /\ worker'.value = tx.value
  PROVE  ReadsCovered(p, k)'
<1> SUFFICES ASSUME NEW q \in AllQueues, NEW i \in Nat, Reading(q, i, p)'
             PROVE  q = Private /\ ReadCovered(i, p, k)'
  BY DEF ReadsCovered
<1>1. q = Private /\ ReadCovered(i, p, k) /\ Private \in AllQueues
  BY DEF NoNew, Reading, ReadsCovered, AllQueues
<1>2. \A value : SignalBehind(Private, i, value) => SignalBehind(Private, i, value)'
  BY <1>1, BehindStays
<1>3. \/ p \in worker'.pending /\ worker'.at # "idle"
      \/ k.gpu = "consuming" /\ SignalBehind(Private, i, k.until)'
  BY <1>1, <1>2 DEF ReadCovered
<1>4. ASSUME p \in worker'.pending, tx'.by = Private, tx'.at = "signalled"
      PROVE  SignalBehind(Private, i, tx.value)'
  BY <1>1, <1>4, <1>2 DEF ReadCovered, SignalBehind
<1>5. ASSUME p \in worker'.pending, worker'.at = "drawn"
      PROVE  SignalBehind(Private, i, worker.value)'
  <2>1. CASE worker.at = "drawn" /\ worker'.value = worker.value
    BY <1>1, <1>5, <2>1, <1>2 DEF ReadCovered, SignalBehind
  <2>2. CASE tx.by = Private /\ tx.at = "signalled" /\ worker'.value = tx.value
    BY <1>1, <1>5, <2>2, <1>2 DEF ReadCovered, SignalBehind
  <2>3. QED  BY <1>5, <2>1, <2>2
<1>6. QED  BY <1>1, <1>3, <1>4, <1>5 DEF ReadCovered

(* The GPU's steps. *)

LEMMA RunCarries ==
  ASSUME Typed, NEW q \in AllQueues, Runs(q), NEW kind, NEW p
  PROVE  /\ \A r \in AllQueues : \A i \in Nat : Carries(kind, r, i, p)' =>
               /\ Carries(kind, r, OldPlace(q, r, i), p) /\ i > 0
               /\ r # q \/ OldPlace(q, r, i) # 1
         /\ \A r \in AllQueues : \A j \in Nat : Carries(kind, r, j, p) /\ (r # q \/ j # 1) =>
               Carries(kind, r, NewPlace(q, r, j), p)' /\ NewPlace(q, r, j) > 0
<1> DEFINE s == gpu[q]
<1>1. gpu \in GpuTypes /\ s \in Seq(Operation) /\ Len(s) \in Nat /\ s # << >>
  BY OpOf, TypeParts DEF Typed, GpuTypes, Runs
<1>2. Len(Tail(s)) = Len(s) - 1 /\ \A i \in 1..(Len(s) - 1) : Tail(s)[i] = s[i + 1]  BY <1>1
<1>3. gpu'[q] = Tail(s) /\ \A r \in AllQueues \ {q} : gpu'[r] = gpu[r]  BY <1>1 DEF GpuTypes, Runs
<1>4. ASSUME NEW r \in AllQueues, NEW i \in Nat, Carries(kind, r, i, p)'
      PROVE  /\ Carries(kind, r, OldPlace(q, r, i), p) /\ i > 0
             /\ r # q \/ OldPlace(q, r, i) # 1
  <2>1. CASE r # q  BY <1>3, <1>4, <2>1 DEF Carries, OldPlace
  <2>2. CASE r = q
    <3>1. i \in 1..(Len(s) - 1) /\ gpu'[r][i] = s[i + 1]  BY <1>2, <1>3, <1>4, <2>2 DEF Carries
    <3>2. i + 1 \in 1..Len(s) /\ i > 0 /\ i + 1 # 1  BY <1>1, <3>1
    <3>3. QED  BY <1>4, <2>2, <3>1, <3>2 DEF Carries, OldPlace
  <2>3. QED  BY <2>1, <2>2
<1>5. ASSUME NEW r \in AllQueues, NEW j \in Nat, Carries(kind, r, j, p), r # q \/ j # 1
      PROVE  Carries(kind, r, NewPlace(q, r, j), p)' /\ NewPlace(q, r, j) > 0
  <2>1. CASE r # q  BY <1>3, <1>5, <2>1 DEF Carries, NewPlace
  <2>2. CASE r = q
    <3>1. j \in 1..Len(s) /\ j # 1  BY <1>5, <2>2 DEF Carries
    <3>2. j - 1 \in 1..(Len(s) - 1) /\ (j - 1) + 1 = j  BY <1>1, <3>1
    <3>3. gpu'[r][j - 1] = s[j] /\ j - 1 \in 1..Len(gpu'[r])  BY <1>2, <1>3, <2>2, <3>2
    <3>4. QED  BY <1>5, <2>2, <3>2, <3>3 DEF Carries, NewPlace
  <2>3. QED  BY <2>1, <2>2
<1>6. QED  BY <1>4, <1>5

LEMMA RunSignalTo ==
  ASSUME Typed, NEW q \in AllQueues, Runs(q), NEW r \in AllQueues, NEW j \in Nat,
         r # q \/ j # 1, Signalling(r, j)
  PROVE  /\ NewPlace(q, r, j) \in Nat /\ NewPlace(q, r, j) > 0
         /\ Signalling(r, NewPlace(q, r, j))' /\ gpu'[r][NewPlace(q, r, j)] = gpu[r][j]
         /\ gpu[r][j].value \in Nat
<1>1. j > 0 /\ gpu[r][j].value \in Nat  BY OpOf
<1>2. CASE r # q  BY <1>2, RunMoves, <1>1 DEF SameOp, NewPlace
<1>3. CASE r = q
  <2>1. j - 1 \in Nat \ {0} /\ (j - 1) + 1 = j  BY <1>1, <1>3
  <2>2. NextOp(q, j - 1)  BY <2>1, RunMoves
  <2>3. Signalling(q, j - 1)' /\ gpu'[q][j - 1] = gpu[q][j]  BY <1>3, <2>1, <2>2 DEF NextOp
  <2>4. QED  BY <1>1, <1>3, <2>1, <2>3 DEF NewPlace
<1>4. QED  BY <1>2, <1>3

\* A Signal behind an operation that has not run is still behind it.
LEMMA RunBehind ==
  ASSUME Typed, NEW q \in AllQueues, Runs(q), NEW r \in AllQueues, NEW i \in Nat, i > 0,
         NEW j \in Nat, Signalling(r, j), j > OldPlace(q, r, i)
  PROVE  \E m \in Nat : Signalling(r, m)' /\ m > i /\ gpu'[r][m] = gpu[r][j]
<1>1. r # q \/ j # 1  BY DEF OldPlace
<1>2. /\ NewPlace(q, r, j) \in Nat /\ Signalling(r, NewPlace(q, r, j))'
      /\ gpu'[r][NewPlace(q, r, j)] = gpu[r][j]
  BY <1>1, RunSignalTo
<1>3. NewPlace(q, r, j) > i  BY DEF NewPlace, OldPlace
<1>4. QED  BY <1>2, <1>3

LEMMA RunWrites ==
  ASSUME Typed, NEW q \in AllQueues, Runs(q), NEW p \in Packets, NEW k, WritesCovered(p, k)
  PROVE  WritesCovered(p, k)'
<1> SUFFICES ASSUME NEW r \in AllQueues, NEW i \in Nat, Writing(r, i, p)'
             PROVE  /\ k.gpu \in {"recorded", "retiring"}
                    /\ \/ Here(r, p)'
                       \/ \E j \in Nat : /\ Signalling(r, j)' /\ j > i
                                         /\ Enough(p, k, gpu[r][j].value)'
  BY DEF WritesCovered
<1> DEFINE o == OldPlace(q, r, i)
<1>1. Writing(r, o, p) /\ i > 0 /\ o \in Nat  BY RunCarries, RunFrom DEF Writing
<1>2. tx' = tx  BY DEF Runs
<1>3. CASE Here(r, p)  BY <1>1, <1>2, <1>3 DEF WritesCovered, Here, InReceipt
<1>4. ASSUME NEW j \in Nat, Signalling(r, j), j > o, Enough(p, k, gpu[r][j].value)
      PROVE  \E m \in Nat : Signalling(r, m)' /\ m > i /\ Enough(p, k, gpu[r][m].value)'
  <2>1. PICK m \in Nat : Signalling(r, m)' /\ m > i /\ gpu'[r][m] = gpu[r][j]
    BY <1>1, <1>4, RunBehind
  <2>2. Enough(p, k, gpu[r][m].value)'  BY <1>2, <1>4, <2>1 DEF Enough, InReceipt
  <2>3. QED  BY <2>1, <2>2
<1>5. QED  BY <1>1, <1>3, <1>4 DEF WritesCovered

LEMMA RunReads ==
  ASSUME Typed, NEW q \in AllQueues, Runs(q), UNCHANGED worker, NEW p \in Packets, NEW k,
         ReadsCovered(p, k)
  PROVE  ReadsCovered(p, k)'
<1> SUFFICES ASSUME NEW r \in AllQueues, NEW i \in Nat, Reading(r, i, p)'
             PROVE  r = Private /\ ReadCovered(i, p, k)'
  BY DEF ReadsCovered
<1> DEFINE o == OldPlace(q, r, i)
<1>1. Reading(r, o, p) /\ i > 0 /\ o \in Nat  BY RunCarries, RunFrom DEF Reading
<1>2. tx' = tx  BY DEF Runs
<1>3. r = Private /\ ReadCovered(o, p, k)  BY <1>1 DEF ReadsCovered
<1>4. ASSUME NEW value, SignalBehind(Private, o, value) PROVE SignalBehind(Private, i, value)'
  <2>1. PICK j \in Nat : Signalling(r, j) /\ j > o /\ gpu[r][j].value <= value
    BY <1>3, <1>4 DEF SignalBehind
  <2>2. PICK m \in Nat : Signalling(r, m)' /\ m > i /\ gpu'[r][m] = gpu[r][j]
    BY <1>1, <2>1, RunBehind
  <2>3. QED  BY <1>3, <2>1, <2>2 DEF SignalBehind
<1>5. SignalBehind(Private, o, tx.value) => SignalBehind(Private, i, tx.value)'
  <2>1. ASSUME SignalBehind(Private, o, tx.value) PROVE SignalBehind(Private, i, tx.value)'
    <3>1. PICK v : v = tx.value  OBVIOUS
    <3>2. SignalBehind(Private, i, v)'  BY <1>4, <2>1, <3>1
    <3>3. QED  BY <1>2, <3>1, <3>2 DEF SignalBehind
  <2>2. QED  BY <2>1
<1>6. SignalBehind(Private, o, worker.value) => SignalBehind(Private, i, worker.value)'
  <2>1. ASSUME SignalBehind(Private, o, worker.value)
        PROVE  SignalBehind(Private, i, worker.value)'
    <3>1. PICK v : v = worker.value  OBVIOUS
    <3>2. SignalBehind(Private, i, v)'  BY <1>4, <2>1, <3>1
    <3>3. QED  BY <3>1, <3>2 DEF SignalBehind
  <2>2. QED  BY <2>1
<1>7. QED  BY <1>2, <1>3, <1>4, <1>5, <1>6 DEF ReadCovered

LEMMA RunLast ==
  ASSUME Sound, Chained, NEW q \in AllQueues, Runs(q), NEW k \in Packet, LastSignalled(k)
  PROVE  LastSignalled(k)'
<1> SUFFICES ASSUME k.submitted
             PROVE  /\ k.producer \in AllQueues /\ k.order < 2 * (device'.last + 1)
                    /\ k.order >= 2 * (fence' + 1) =>
                         \E j \in Nat : /\ Signalling(k.producer, j)'
                                        /\ OfOrder(k, gpu[k.producer][j].value)'
  BY DEF LastSignalled
<1>1. /\ Typed /\ k.producer \in AllQueues /\ device' = device
      /\ k.order < 2 * (device.last + 1) /\ k.order \in Nat
      /\ fence' >= fence /\ fence' \in Nat /\ fence \in Nat
  BY RunHead, Times, Numbers DEF LastSignalled, Runs, Packet, Sound
<1>2. ASSUME k.order >= 2 * (fence' + 1)
      PROVE  \E m \in Nat : /\ Signalling(k.producer, m)'
                            /\ OfOrder(k, gpu[k.producer][m].value)'
  <2>1. PICK j \in Nat : Signalling(k.producer, j) /\ OfOrder(k, gpu[k.producer][j].value)
    BY <1>1, <1>2 DEF LastSignalled
  <2>2. k.producer # q \/ j # 1
    <3>1. SUFFICES ASSUME k.producer = q, j = 1 PROVE FALSE  OBVIOUS
    <3>2. fence' = gpu[q][1].value  BY <2>1, <3>1 DEF Signalling, Runs
    <3>3. QED  BY <1>1, <1>2, <2>1, <3>1, <3>2 DEF OfOrder
  <2>3. /\ NewPlace(q, k.producer, j) \in Nat /\ Signalling(k.producer, NewPlace(q, k.producer, j))'
        /\ gpu'[k.producer][NewPlace(q, k.producer, j)] = gpu[k.producer][j]
    BY <1>1, <2>1, <2>2, RunSignalTo
  <2>4. OfOrder(k, gpu[k.producer][NewPlace(q, k.producer, j)].value)'
    BY <2>1, <2>3 DEF OfOrder, NewPlace
  <2> DEFINE m == NewPlace(q, k.producer, j)
  <2>5. m \in Nat /\ Signalling(k.producer, m)' /\ OfOrder(k, gpu'[k.producer][m].value)
    BY <2>1, <2>3 DEF OfOrder
  <2> HIDE DEF m
  <2>6. QED  BY <2>5 DEF OfOrder
<1>3. QED  BY <1>1, <1>2

LEMMA RunRetiring ==
  ASSUME Sound, Chained, NEW q \in AllQueues, Runs(q), NEW p \in Packets, NEW k \in Packet,
         LastSignalled(k), Retiring(p, k)
  PROVE  Retiring(p, k)'
<1> SUFFICES ASSUME k.gpu = "retiring"
             PROVE  k.submitted /\ (AllRan(p, k)' \/ FenceBehind(p, k)')
  BY DEF Retiring
<1>1. /\ Typed /\ k.submitted /\ k.producer \in AllQueues /\ k.order \in Nat
      /\ fence' >= fence /\ fence' \in Nat /\ fence \in Nat
  BY RunHead, Times, Numbers DEF Retiring, LastSignalled, Packet, Sound
<1> DEFINE r == k.producer
<1>2. CASE AllRan(p, k)  BY <1>1, <1>2, RunCarries, RunFrom DEF AllRan, Writing
<1>3. CASE FenceBehind(p, k)
  <2>1. PICK n \in Nat :
          /\ Finishing(r, n, p)
          /\ \A i \in Nat : Writing(r, i, p) => i < n
          /\ \A j \in Nat : Signalling(r, j) /\ OfOrder(k, gpu[r][j].value) => j < n
    BY <1>3 DEF FenceBehind
  <2>2. CASE r = q /\ n = 1
    <3>1. fence' = fence  BY <2>1, <2>2 DEF Finishing, Carries, Runs
    <3>2. k.order < 2 * (fence + 1)
      <4>1. SUFFICES ASSUME k.order >= 2 * (fence + 1) PROVE FALSE  BY <1>1
      <4>2. PICK j \in Nat : Signalling(r, j) /\ OfOrder(k, gpu[r][j].value)
        BY <1>1, <4>1 DEF LastSignalled
      <4>3. j < 1 /\ j > 0  BY <1>1, <2>1, <2>2, <4>2, OpOf
      <4>4. QED  BY <4>3
    <3>3. ASSUME NEW i \in Nat, Writing(r, i, p)' PROVE FALSE
      BY <1>1, <3>3, RunCarries, RunFrom, <2>1, <2>2 DEF Writing, OldPlace
    <3>4. QED  BY <1>1, <3>1, <3>2, <3>3 DEF AllRan
  <2>3. CASE r # q \/ n # 1
    <3> DEFINE m == NewPlace(q, r, n)
    <3>1. Finishing(r, m, p)' /\ m > 0 /\ m \in Nat
      BY <1>1, <2>1, <2>3, RunCarries DEF Finishing, NewPlace
    <3>2. ASSUME NEW i \in Nat, Writing(r, i, p)' PROVE i < m
      BY <1>1, <3>2, RunCarries, RunFrom, <2>1 DEF Writing, OldPlace, NewPlace
    <3>3. ASSUME NEW j \in Nat, Signalling(r, j)', OfOrder(k, gpu'[r][j].value) PROVE j < m
      BY <1>1, <3>3, RunFrom, <2>1 DEF OldPlace, NewPlace
    <3> HIDE DEF m
    <3>4. FenceBehind(p, k)'  BY <3>1, <3>2, <3>3 DEF FenceBehind, OfOrder
    <3>5. QED  BY <1>1, <3>4
  <2>4. QED  BY <2>2, <2>3
<1>4. QED  BY <1>1, <1>2, <1>3 DEF Retiring

(* When a packet moves on. *)

\* The Signals that are queued are beyond the fence, unless the watchdog moved it.
LEMMA PendingSignals ==
  ASSUME Sound, Chained, NEW q \in AllQueues, NEW j \in Nat, Signalling(q, j)
  PROVE  gpu[q][j].value > fence /\ gpu[q][j].value \in Nat /\ fence \in Nat
BY ChainedParts, OpOf, Times DEF InTurn, Next1, Sound

LEMMA FreshCovers ==
  ASSUME NEW p \in Packets, Untouched(p), NEW k, ~k.submitted, k.gpu # "retiring"
  PROVE  Covers(p, k)
BY DEF Covers, WritesCovered, LastSignalled, Retiring, ReadsCovered, Untouched

\* recycle: the readers have run, the copies had before.
LEMMA ReadersRan ==
  ASSUME Sound, Chained, NEW p \in Packets, NEW k \in Packet, Covers(p, k),
         k.gpu = "consuming", k.until <= fence, p \notin worker.pending
  PROVE  Untouched(p)
<1> SUFFICES ASSUME NEW q \in AllQueues, NEW i \in Nat PROVE ~Writing(q, i, p) /\ ~Reading(q, i, p)
  BY DEF Untouched
<1>1. ~Writing(q, i, p)  BY DEF Covers, WritesCovered
<1>2. ASSUME Reading(q, i, p) PROVE FALSE
  <2>1. SignalBehind(q, i, k.until)  BY <1>2 DEF Covers, ReadsCovered, ReadCovered
  <2>2. PICK j \in Nat : Signalling(q, j) /\ gpu[q][j].value <= k.until  BY <2>1 DEF SignalBehind
  <2>3. gpu[q][j].value > fence /\ gpu[q][j].value \in Nat /\ fence \in Nat  BY <2>2, PendingSignals
  <2>4. k.until \in Nat  BY Numbers DEF Packet
  <2>5. QED  BY <2>2, <2>3, <2>4
<1>3. QED  BY <1>1, <1>2

\* A packet that was never submitted, and is in no receipt.
LEMMA NeverQueued ==
  ASSUME NEW p \in Packets, NEW k, Covers(p, k), k.gpu = "recorded", ~k.submitted,
         ~InReceipt(p), p \notin worker.pending
  PROVE  Untouched(p)
BY DEF Covers, WritesCovered, Here, Enough, ReadsCovered, ReadCovered, Untouched

\* Frames that are ready or with the consumer have no copies queued.
LEMMA NoCopies ==
  ASSUME NEW p \in Packets, NEW k, Covers(p, k), k.gpu \notin {"recorded", "retiring"}
  PROVE  \A q \in AllQueues : \A i \in Nat : ~Writing(q, i, p)
BY DEF Covers, WritesCovered

\* The producer's fence was reached: the copies ran, on other queues as well.
LEMMA CopiesRan ==
  ASSUME Sound, Chained, NEW p \in Packets, NEW k \in Packet, Covers(p, k),
         k.gpu = "retiring", ~InReceipt(p), \A q \in AllQueues : \A i \in Nat : ~Finishing(q, i, p)
  PROVE  \A q \in AllQueues : \A i \in Nat : ~Writing(q, i, p)
<1>1. k.producer \in AllQueues /\ k.order \in Nat /\ AllRan(p, k)
  BY Numbers DEF Covers, Retiring, LastSignalled, FenceBehind, Packet
<1>2. SUFFICES ASSUME NEW q \in AllQueues, NEW i \in Nat, Writing(q, i, p) PROVE FALSE  OBVIOUS
<1>3. PICK j \in Nat : Signalling(q, j) /\ Enough(p, k, gpu[q][j].value)
  BY <1>2 DEF Covers, WritesCovered, Here
<1>4. 2 * gpu[q][j].value <= k.order  BY <1>3 DEF Enough
<1>5. gpu[q][j].value > fence /\ gpu[q][j].value \in Nat /\ fence \in Nat  BY <1>3, PendingSignals
<1>6. QED  BY <1>1, <1>4, <1>5 DEF AllRan

(* collect: its signals go behind everything. *)

LEMMA CollectQueues ==
  ASSUME Typed, NEW pk, NEW receipt, gpu' = ProducerSignals(pk, receipt, gpu)
  PROVE  /\ Longer
         /\ \A q \in AllQueues : \A i \in Nat :
               i \in 1..Len(gpu'[q]) /\ i \notin 1..Len(gpu[q]) => gpu'[q][i].kind = "done"
         /\ \A q \in AllQueues : SignalledWith(pk, receipt, q) # {} =>
               /\ Len(gpu[q]) + 1 \in 1..Len(gpu'[q])
               /\ gpu'[q][Len(gpu[q]) + 1] = Op("done", SignalledWith(pk, receipt, q), 0, Null)
<1> SUFFICES ASSUME NEW q \in AllQueues
             PROVE  /\ Len(gpu[q]) <= Len(gpu'[q])
                    /\ \A i \in 1..Len(gpu[q]) : gpu'[q][i] = gpu[q][i]
                    /\ \A i \in Nat : i \in 1..Len(gpu'[q]) /\ i \notin 1..Len(gpu[q]) =>
                          gpu'[q][i].kind = "done"
                    /\ SignalledWith(pk, receipt, q) # {} =>
                          /\ Len(gpu[q]) + 1 \in 1..Len(gpu'[q])
                          /\ gpu'[q][Len(gpu[q]) + 1] =
                                Op("done", SignalledWith(pk, receipt, q), 0, Null)
  BY DEF Longer
<1> DEFINE S == SignalledWith(pk, receipt, q)
           op == Op("done", S, 0, Null)
<1>1. gpu[q] \in Seq(Operation) /\ Len(gpu[q]) \in Nat  BY OpOf
<1>2. gpu'[q] = IF S = {} THEN gpu[q] ELSE Append(gpu[q], op)  BY DEF ProducerSignals, SignalledWith
<1>3. CASE S = {}  BY <1>1, <1>2, <1>3
<1>4. CASE S # {}
  <2>1. op \in Operation /\ op.kind = "done"
    BY Numbers, OpTypes DEF SignalledWith, Collectable, Assigned
  <2> HIDE DEF op
  <2>2. /\ Len(gpu'[q]) = Len(gpu[q]) + 1 /\ gpu'[q][Len(gpu[q]) + 1] = op
        /\ \A i \in 1..Len(gpu[q]) : gpu'[q][i] = gpu[q][i]
    BY <1>1, <1>2, <1>4, <2>1, AppendProperties
  <2>3. \A i \in 1..Len(gpu'[q]) : i \notin 1..Len(gpu[q]) => i = Len(gpu[q]) + 1  BY <1>1, <2>2
  <2>4. QED  BY <1>1, <1>4, <2>1, <2>2, <2>3 DEF op
<1>5. QED  BY <1>3, <1>4

LEMMA DoneIsNew ==
  ASSUME Typed, Typed', Longer,
         \A q \in AllQueues : \A i \in Nat :
            i \in 1..Len(gpu'[q]) /\ i \notin 1..Len(gpu[q]) => gpu'[q][i].kind = "done"
  PROVE  /\ \A p : NoNew("write", p) /\ NoNew("read", p)
         /\ \A q \in AllQueues : \A j \in Nat : Signalling(q, j)' => Signalling(q, j)
<1>1. ASSUME NEW q \in AllQueues, NEW i \in Nat, i \in 1..Len(gpu'[q]), gpu'[q][i].kind # "done"
      PROVE  i \in 1..Len(gpu[q]) /\ gpu'[q][i] = gpu[q][i]
  BY <1>1 DEF Longer
<1>2. ASSUME NEW kind, kind # "done", NEW p PROVE NoNew(kind, p)
  <2>1. SUFFICES ASSUME NEW q \in AllQueues, NEW i \in Nat, Carries(kind, q, i, p)'
                 PROVE  Carries(kind, q, i, p)
    BY DEF NoNew
  <2>2. i \in 1..Len(gpu'[q]) /\ gpu'[q][i].kind = kind /\ p \in gpu'[q][i].packets
    BY <2>1 DEF Carries
  <2>3. i \in 1..Len(gpu[q]) /\ gpu'[q][i] = gpu[q][i]  BY <1>1, <1>2, <2>2
  <2>4. QED  BY <2>2, <2>3 DEF Carries
<1>3. ASSUME NEW q \in AllQueues, NEW j \in Nat, Signalling(q, j)' PROVE Signalling(q, j)
  BY <1>3, <1>1 DEF Signalling
<1>4. QED  BY <1>2, <1>3

LEMMA CollectSignals ==
  ASSUME Typed, Typed', NEW pk, NEW receipt, gpu' = ProducerSignals(pk, receipt, gpu)
  PROVE  /\ Longer /\ \A p : NoNew("write", p) /\ NoNew("read", p)
         /\ \A q \in AllQueues : \A j \in Nat : Signalling(q, j)' => Signalling(q, j)
BY CollectQueues, DoneIsNew

\* A packet that is signalled.
LEMMA CollectRetires ==
  ASSUME Typed, Typed', NEW pk, NEW receipt, gpu' = ProducerSignals(pk, receipt, gpu),
         NEW p \in Collectable(pk, receipt), pk[p].submitted, pk[p].producer \in AllQueues,
         NEW k, k.submitted, k.producer = pk[p].producer
  PROVE  Retiring(p, k)'
<1> DEFINE q == k.producer
<1>0. PICK n \in Nat : n = Len(gpu[q]) + 1  BY OpOf
<1>1. q \in AllQueues /\ p \in SignalledWith(pk, receipt, q) /\ Len(gpu[q]) \in Nat
      /\ SignalledWith(pk, receipt, q) \in SUBSET Packets
  BY OpOf DEF SignalledWith, Collectable, Assigned
<1>2. n \in 1..Len(gpu'[q]) /\ gpu'[q][n] = Op("done", SignalledWith(pk, receipt, q), 0, Null)
  BY <1>0, <1>1, CollectQueues
<1>3. gpu'[q][n].kind = "done" /\ p \in gpu'[q][n].packets  BY <1>1, <1>2, Numbers, OpTypes
<1>4. ASSUME NEW i \in Nat, Writing(q, i, p)' PROVE i < n
  <2>1. Writing(q, i, p)  BY <1>1, <1>4, CollectSignals DEF NoNew, Writing
  <2>2. QED  BY <1>0, <1>1, <2>1 DEF Writing, Carries
<1>5. ASSUME NEW j \in Nat, Signalling(q, j)' PROVE j < n
  BY <1>1, <1>5, CollectSignals, <1>0 DEF Signalling
<1>7. Finishing(q, n, p)'  BY <1>2, <1>3 DEF Finishing, Carries
<1>8. FenceBehind(p, k)'  BY <1>4, <1>5, <1>7 DEF FenceBehind, OfOrder
<1>9. QED  BY <1>8 DEF Retiring

LEMMA CollectCases ==
  ASSUME NEW pk \in PacketTypes, NEW receipt, NEW p \in Packets
  PROVE  \E c \in Packet :
            /\ c = Collected(pk, receipt, fence)[p]
            /\ \/ p \in Recyclable(pk, fence) /\ c = Idle
               \/ /\ p \in Collectable(pk, receipt) /\ pk[p].submitted
                  /\ c = [pk[p] EXCEPT !.gpu = "retiring"]
               \/ p \in Collectable(pk, receipt) /\ ~pk[p].submitted /\ c = Idle
               \/ c = pk[p]
<1>1. Collected(pk, receipt, fence) \in PacketTypes  BY CollectedTypes
<1>2. PICK c \in Packet : c = Collected(pk, receipt, fence)[p]  BY <1>1 DEF PacketTypes
<1>3. CASE p \in Recyclable(pk, fence)  BY <1>2, <1>3 DEF Collected
<1>4. CASE p \notin Recyclable(pk, fence) /\ p \in Collectable(pk, receipt)
  BY <1>2, <1>4 DEF Collected
<1>5. CASE p \notin Recyclable(pk, fence) /\ p \notin Collectable(pk, receipt)
  BY <1>2, <1>5 DEF Collected
<1>6. QED  BY <1>2, <1>3, <1>4, <1>5

LEMMA TrustedOrder == ASSUME Ordered, NEW p, Trusted(p) PROVE Chained
BY DEF Ordered, Trusted

LEMMA IdleUntouched ==
  ASSUME NEW p \in Packets, NEW k, Covers(p, k), k.gpu = "idle", p \notin worker.pending
  PROVE  Untouched(p)
BY DEF Covers, WritesCovered, ReadsCovered, ReadCovered, Untouched

\* A packet that was covered and is not changed, while collect's signals go out.
LEMMA SignalsCover ==
  ASSUME Typed, Typed', NEW pk, NEW receipt, gpu' = ProducerSignals(pk, receipt, gpu),
         fence' = fence, NEW p \in Packets, NEW k \in Packet, Covers(p, k)
  PROVE  CoversAfter(p, k)
<1>1. /\ Longer /\ NoNew("write", p)
      /\ \A q \in AllQueues : \A j \in Nat : Signalling(q, j)' => Signalling(q, j)
  BY CollectSignals
<1>2. Retiring(p, k)'
  <2>1. CASE k.submitted  BY <2>1, <1>1, RetiringStays DEF Covers, LastSignalled
  <2>2. CASE ~k.submitted  BY <2>2 DEF Covers, Retiring
  <2>3. QED  BY <2>1, <2>2
<1>3. QED  BY <1>2 DEF Covers, CoversAfter

LEMMA FreshCoversAfter ==
  ASSUME NEW p \in Packets, Untouched(p), NEW k, ~k.submitted, k.gpu # "retiring"
  PROVE  CoversAfter(p, k)
BY DEF CoversAfter, WritesCovered, LastSignalled, Retiring, ReadsCovered, Untouched

LEMMA CollectCovers ==
  ASSUME Sound, Typed', Ordered, NEW pk \in PacketTypes, NEW receipt,
         gpu' = ProducerSignals(pk, receipt, gpu), fence' = fence,
         NEW p \in Packets, Trusted(p), Covers(p, pk[p]),
         p \in worker.pending => pk[p].gpu = "ready",
         p \in Collectable(pk, receipt) /\ ~pk[p].submitted => ~InReceipt(p)
  PROVE  \E c \in Packet :
            /\ c = Collected(pk, receipt, fence)[p] /\ CoversAfter(p, c)
            /\ c.gpu = "idle" => Untouched(p)
<1>1. PICK c \in Packet :
        /\ c = Collected(pk, receipt, fence)[p]
        /\ \/ p \in Recyclable(pk, fence) /\ c = Idle
           \/ /\ p \in Collectable(pk, receipt) /\ pk[p].submitted
              /\ c = [pk[p] EXCEPT !.gpu = "retiring"]
           \/ p \in Collectable(pk, receipt) /\ ~pk[p].submitted /\ c = Idle
           \/ c = pk[p]
  BY CollectCases
<1>2. PICK k \in Packet : k = pk[p]  BY DEF PacketTypes
<1>3. Chained /\ Typed /\ Covers(p, k)  BY <1>2, TrustedOrder DEF Sound
<1>4. ~Idle.submitted /\ Idle.gpu = "idle"  BY DEF Idle
<1>5. CASE p \in Recyclable(pk, fence) /\ c = Idle
  BY <1>2, <1>5, <1>3, ReadersRan, <1>1, <1>4, FreshCoversAfter DEF Recyclable
<1>6. CASE p \in Collectable(pk, receipt) /\ ~pk[p].submitted /\ c = Idle
  BY <1>2, <1>6, <1>3, NeverQueued, <1>1, <1>4, FreshCoversAfter DEF Collectable
<1>7. CASE /\ p \in Collectable(pk, receipt) /\ pk[p].submitted
           /\ c = [pk[p] EXCEPT !.gpu = "retiring"]
  <2>1. k.gpu = "recorded" /\ k.submitted  BY <1>2, <1>7 DEF Collectable
  <2>2. /\ c.gpu = "retiring" /\ c.submitted = k.submitted /\ c.producer = k.producer
        /\ c.order = k.order
    BY <1>2, <1>7 DEF Packet
  <2>3. WritesCovered(p, c)  BY <1>3, <2>1, <2>2 DEF Covers, WritesCovered, Enough
  <2>4. LastSignalled(c)  BY <1>3, <2>2 DEF Covers, LastSignalled, OfOrder
  <2>5. ReadsCovered(p, c)  BY <1>3, <2>1, <2>2 DEF Covers, ReadsCovered, ReadCovered
  <2>6. Retiring(p, c)'  BY <1>2, <1>3, <2>1, <1>7, <2>2, CollectRetires DEF Covers, LastSignalled
  <2>7. QED  BY <1>1, <2>2, <2>3, <2>4, <2>5, <2>6 DEF CoversAfter
<1>8. CASE c = pk[p]
  <2>1. CoversAfter(p, k)  BY <1>3, SignalsCover
  <2>2. CoversAfter(p, c)  BY <1>2, <1>8, <2>1 DEF CoversAfter
  <2>3. k.gpu = "idle" => Untouched(p)  BY <1>2, <1>3, IdleUntouched
  <2>4. QED  BY <1>1, <1>2, <1>8, <2>2, <2>3
<1>9. QED  BY <1>1, <1>5, <1>6, <1>7, <1>8

(* What a step leaves covered. *)

LEMMA MovesCover ==
  ASSUME Typed, Typed', NEW p \in Packets, NEW k \in Packet, CoversAfter(p, k), Moves(p, k),
         packet'[p] = k
  PROVE  Covers(p, packet[p])'
<1>1. WritesCovered(p, k)'  BY WritesStay DEF Moves, CoversAfter
<1>2. LastSignalled(k)'  BY LastStays DEF Moves, CoversAfter
<1>3. ReadsCovered(p, k)'  BY ReadsStay DEF Moves, CoversAfter
<1>4. Covers(p, k)'  BY <1>1, <1>2, <1>3 DEF CoversAfter, Covers
<1>5. QED
  BY <1>4 DEF Covers, WritesCovered, Enough, LastSignalled, OfOrder, Retiring, AllRan,
              FenceBehind, ReadsCovered, ReadCovered

(* The packet as the contract sees it, while the queues hold what they held. *)

LEMMA FrameIs ==
  ASSUME NEW k \in Packet
  PROVE  /\ FrameOf(k) \in Lease!Stages
         /\ k.gpu = "idle" <=> FrameOf(k) = "free"
         /\ k.gpu # "idle" /\ k.quarantined <=> FrameOf(k) = "lost"
         /\ k.gpu = "consuming" /\ ~k.quarantined <=> FrameOf(k) = "spent"
         /\ k.gpu \in {"recorded", "retiring", "ready"} /\ ~k.quarantined =>
               FrameOf(k) = IF k.leased THEN "handed" ELSE "recorded"
<1>1. k.gpu \in {"idle", "recorded", "retiring", "ready", "consuming"} /\ k.quarantined \in BOOLEAN
  BY DEF Packet, GpuStates
<1>2. CASE k.gpu = "idle"  BY <1>2 DEF FrameOf, Lease!Stages
<1>3. CASE k.gpu # "idle" /\ k.quarantined  BY <1>3 DEF FrameOf, Lease!Stages
<1>4. CASE k.gpu = "consuming" /\ ~k.quarantined  BY <1>4 DEF FrameOf, Lease!Stages
<1>5. CASE k.gpu \in {"recorded", "retiring", "ready"} /\ ~k.quarantined
  BY <1>5 DEF FrameOf, Lease!Stages
<1>6. QED  BY <1>1, <1>2, <1>3, <1>4, <1>5

LEMMA UntouchedParts == ASSUME NEW p PROVE Untouched(p) <=> NoWrites(p) /\ NoReads(p)
BY DEF Untouched, NoWrites, NoReads

LEMMA QueuedIs ==
  ASSUME Typed, NEW p
  PROVE  /\ QueuedFor("write", p) <=> ~NoWrites(p)
         /\ QueuedFor("read", p) <=> ~NoReads(p)
<1>1. \A q \in AllQueues : DOMAIN gpu[q] = 1..Len(gpu[q]) /\ Len(gpu[q]) \in Nat  BY OpOf
<1>2. \A q \in AllQueues : \A i : i \in DOMAIN gpu[q] <=> i \in Nat /\ i \in 1..Len(gpu[q])  BY <1>1
<1>3. QED  BY <1>2 DEF QueuedFor, NoWrites, NoReads, Writing, Reading, Carries

LEMMA QueuedIsNext ==
  ASSUME Typed', NEW p
  PROVE  /\ QueuedFor("write", p)' <=> ~NoWrites(p)'
         /\ QueuedFor("read", p)' <=> ~NoReads(p)'
<1>0. gpu' \in GpuTypes  BY TypePartsNext DEF Typed
<1>1. \A q \in AllQueues : DOMAIN gpu'[q] = 1..Len(gpu'[q]) /\ Len(gpu'[q]) \in Nat
  BY <1>0 DEF GpuTypes
<1>2. \A q \in AllQueues : \A i : i \in DOMAIN gpu'[q] <=> i \in Nat /\ i \in 1..Len(gpu'[q])
  BY <1>1
<1>3. QED  BY <1>2 DEF QueuedFor, NoWrites, NoReads, Writing, Reading, Carries

LEMMA SlotHas ==
  ASSUME Typed, NEW p \in Packets PROVE \E s : s = SlotOf(p) /\ SlotIs(p, s)
<1>1. packet[p] \in Packet  BY TypeParts DEF Typed, PacketTypes
<1>2. Frame(p) = FrameOf(packet[p])  BY DEF Frame, FrameOf
<1>3. PICK w \in BOOLEAN : w = QueuedFor("write", p)  BY DEF QueuedFor
<1>4. PICK r \in BOOLEAN : r = QueuedFor("read", p)  BY DEF QueuedFor
<1>5. PICK t \in BOOLEAN : t = Trusted(p)  BY DEF Trusted
<1>6. PICK f \in Lease!Stages : f = FrameOf(packet[p])  BY <1>1, FrameIs
<1> DEFINE s == [frame |-> f, writing |-> w, reading |-> r, trusted |-> t]
<1>7. s = SlotOf(p)  BY <1>2, <1>3, <1>4, <1>5, <1>6, Zenon DEF SlotOf
<1>8. s \in Lease!Slot /\ s.frame = f /\ s.writing = w /\ s.reading = r /\ s.trusted = t
  BY DEF Lease!Slot
<1> HIDE DEF s
<1>9. SlotIs(p, s)  BY <1>3, <1>4, <1>5, <1>6, <1>8, QueuedIs DEF SlotIs
<1>10. QED  BY <1>7, <1>9

LEMMA SlotHasNext ==
  ASSUME Typed', NEW p \in Packets PROVE \E s : s = SlotOf(p)' /\ SlotIs(p, s)'
<1>1. packet'[p] \in Packet  BY TypePartsNext DEF Typed, PacketTypes
<1>2. Frame(p)' = FrameOf(packet[p])'  BY DEF Frame, FrameOf
<1>3. PICK w \in BOOLEAN : w = QueuedFor("write", p)'  BY DEF QueuedFor
<1>4. PICK r \in BOOLEAN : r = QueuedFor("read", p)'  BY DEF QueuedFor
<1>5. PICK t \in BOOLEAN : t = Trusted(p)'  BY DEF Trusted
<1>6. PICK f \in Lease!Stages : f = FrameOf(packet[p])'
  <2>1. PICK k \in Packet : k = packet'[p]  BY <1>1
  <2>2. FrameOf(k) \in Lease!Stages  BY FrameIs
  <2>3. FrameOf(packet[p])' = FrameOf(k)  BY <2>1 DEF FrameOf
  <2>4. QED  BY <2>2, <2>3
<1> DEFINE s == [frame |-> f, writing |-> w, reading |-> r, trusted |-> t]
<1>7. s = SlotOf(p)'  BY <1>2, <1>3, <1>4, <1>5, <1>6, Zenon DEF SlotOf
<1>8. s \in Lease!Slot /\ s.frame = f /\ s.writing = w /\ s.reading = r /\ s.trusted = t
  BY DEF Lease!Slot
<1> HIDE DEF s
<1>9. SlotIs(p, s)'  BY <1>3, <1>4, <1>5, <1>6, <1>8, QueuedIsNext DEF SlotIs
<1>10. QED  BY <1>7, <1>9

LEMMA SlotEqual ==
  ASSUME NEW s \in Lease!Slot, NEW n \in Lease!Slot, n.frame = s.frame, n.writing <=> s.writing,
         n.reading <=> s.reading, n.trusted <=> s.trusted
  PROVE  n = s
BY DEF Lease!Slot

\* Only the frame moves.
LEMMA FrameSlot ==
  ASSUME Typed, Typed', NEW p \in Packets, NEW f, NEW g, f = FrameOf(packet[p]),
         g = FrameOf(packet[p])', FrameGoes(p, f, g),
         NoWrites(p)' <=> NoWrites(p), NoReads(p)' <=> NoReads(p), Trusted(p)' <=> Trusted(p)
  PROVE  SlotGoes(p)
<1>1. PICK s : s = SlotOf(p) /\ SlotIs(p, s)  BY SlotHas
<1>2. PICK n : n = SlotOf(p)' /\ SlotIs(p, n)'  BY SlotHasNext
<1>3. /\ s \in Lease!Slot /\ n \in Lease!Slot /\ s.frame = f /\ n.frame = g
      /\ n.writing <=> s.writing
      /\ n.reading <=> s.reading
      /\ n.trusted <=> s.trusted
      /\ s.writing <=> ~NoWrites(p)
      /\ s.reading <=> ~NoReads(p)
      /\ s.trusted <=> Trusted(p)
  BY <1>1, <1>2 DEF SlotIs
<1>4. n = [s EXCEPT !.frame = g]  BY <1>3, SlotEqual DEF Lease!Slot
<1>5. n = s \/ Lease!Step(s, n)
  BY <1>3, <1>4, UntouchedParts
     DEF FrameGoes, Lease!Step, Lease!Record, Lease!Hand, Lease!Spend, Lease!Return, Lease!Lose,
         Lease!Becomes, Lease!NotWritten, Lease!NotRead, Lease!Slot
<1>6. QED  BY <1>1, <1>2, <1>5 DEF SlotGoes

\* Only what is queued changes: copies, or readers.
LEMMA QueueSlot ==
  ASSUME Typed, Typed', NEW p \in Packets, NEW f, f = FrameOf(packet[p]),
         f = FrameOf(packet[p])', Trusted(p)' <=> Trusted(p),
         \/ /\ NoReads(p)' <=> NoReads(p)
            /\ NoWrites(p) /\ ~NoWrites(p)' => f \in {"recorded", "lost"}
         \/ /\ NoWrites(p)' <=> NoWrites(p)
            /\ NoReads(p) /\ ~NoReads(p)' => f \in {"handed", "lost"}
  PROVE  SlotGoes(p)
<1>1. PICK s : s = SlotOf(p) /\ SlotIs(p, s)  BY SlotHas
<1>2. PICK n : n = SlotOf(p)' /\ SlotIs(p, n)'  BY SlotHasNext
<1>3. /\ s \in Lease!Slot /\ n \in Lease!Slot /\ s.frame = f /\ n.frame = f
      /\ n.trusted <=> s.trusted
      /\ s.writing <=> ~NoWrites(p)
      /\ n.writing <=> ~NoWrites(p)'
      /\ s.reading <=> ~NoReads(p)
      /\ n.reading <=> ~NoReads(p)'
  BY <1>1, <1>2 DEF SlotIs
<1>4. CASE n.writing <=> s.writing
  <2>1. CASE n.reading <=> s.reading  BY <1>1, <1>2, <1>3, <1>4, <2>1, SlotEqual DEF SlotGoes
  <2>2. CASE ~n.reading /\ s.reading
    BY <1>3, <1>4, <2>2, <1>1, <1>2 DEF Lease!Slot, SlotGoes, Lease!Step, Lease!WasRead
  <2>3. CASE n.reading /\ ~s.reading
    <3>1. n = [s EXCEPT !.reading = TRUE]  BY <1>3, <1>4, <2>3 DEF Lease!Slot
    <3>2. f \in {"handed", "lost"}  BY <1>3, <2>3
    <3>3. QED  BY <1>1, <1>2, <1>3, <3>1, <3>2 DEF SlotGoes, Lease!Step, Lease!Consume
  <2>4. QED  BY <2>1, <2>2, <2>3
<1>5. CASE ~(n.writing <=> s.writing)
  <2>1. (n.reading <=> s.reading) /\ (NoWrites(p) /\ ~NoWrites(p)' => f \in {"recorded", "lost"})
    BY <1>3, <1>5
  <2>2. CASE ~n.writing /\ s.writing
    BY <1>3, <2>1, <2>2, <1>1, <1>2 DEF Lease!Slot, SlotGoes, Lease!Step, Lease!Written
  <2>3. CASE n.writing /\ ~s.writing
    <3>1. n = [s EXCEPT !.writing = TRUE]  BY <1>3, <2>1, <2>3 DEF Lease!Slot
    <3>2. f \in {"recorded", "lost"}  BY <1>3, <2>1, <2>3
    <3>3. QED  BY <1>1, <1>2, <1>3, <3>1, <3>2 DEF SlotGoes, Lease!Step, Lease!Execute
  <2>4. QED  BY <1>5, <2>2, <2>3
<1>6. QED  BY <1>4, <1>5

\* Only the trust is lost.
LEMMA TrustSlot ==
  ASSUME Typed, Typed', NEW p \in Packets, FrameOf(packet[p])' = FrameOf(packet[p]),
         NoWrites(p)' <=> NoWrites(p), NoReads(p)' <=> NoReads(p), Trusted(p)' => Trusted(p)
  PROVE  SlotGoes(p)
<1>1. PICK s : s = SlotOf(p) /\ SlotIs(p, s)  BY SlotHas
<1>2. PICK n : n = SlotOf(p)' /\ SlotIs(p, n)'  BY SlotHasNext
<1>3. /\ s \in Lease!Slot /\ n \in Lease!Slot /\ n.frame = s.frame
      /\ n.writing <=> s.writing
      /\ n.reading <=> s.reading
      /\ n.trusted => s.trusted
  BY <1>1, <1>2 DEF SlotIs
<1>4. n = s \/ n = [s EXCEPT !.trusted = FALSE]  BY <1>3 DEF Lease!Slot
<1>5. QED  BY <1>1, <1>2, <1>4 DEF SlotGoes, Lease!Step, Lease!Distrust

\* New operations have the packet in neither way.
LEMMA QueuesHold ==
  ASSUME Typed, Typed', Longer, NEW kind, NEW p, NoNew(kind, p)
  PROVE  (\A q \in AllQueues : \A i \in Nat : ~Carries(kind, q, i, p))'
            <=> \A q \in AllQueues : \A i \in Nat : ~Carries(kind, q, i, p)
BY LongerCarries DEF NoNew

LEMMA WritesHold ==
  ASSUME Typed, Typed', Longer, NEW p, NoNew("write", p) PROVE NoWrites(p)' <=> NoWrites(p)
BY QueuesHold DEF NoWrites, Writing

LEMMA ReadsHold ==
  ASSUME Typed, Typed', Longer, NEW p, NoNew("read", p) PROVE NoReads(p)' <=> NoReads(p)
BY QueuesHold DEF NoReads, Reading

(* What every holder of the mutex finds. *)

LEMMA PacketOf == ASSUME Typed, NEW p \in Packets PROVE packet[p] \in Packet
BY TypeParts DEF Typed, PacketTypes

LEMMA QuarantineCases ==
  ASSUME NEW pk \in PacketTypes, NEW S, NEW p \in Packets
  PROVE  \E m \in Packet :
            /\ m = Quarantine(pk, S)[p]
            /\ \/ m = pk[p] /\ (p \in S => pk[p].gpu = "idle")
               \/ m = [pk[p] EXCEPT !.quarantined = TRUE] /\ pk[p].gpu # "idle" /\ p \in S
<1>1. Quarantine(pk, S) \in PacketTypes  BY QuarantineTypes
<1>2. PICK m \in Packet : m = Quarantine(pk, S)[p]  BY <1>1 DEF PacketTypes
<1>3. QED  BY <1>2 DEF Quarantine, Assigned

LEMMA QuarantineOf ==
  ASSUME NEW pk \in PacketTypes, NEW S, NEW p \in Packets
  PROVE  \E m \in Packet : /\ m = Quarantine(pk, S)[p] /\ SameButLost(pk[p], m)
                           /\ p \in S /\ m.gpu # "idle" => m.quarantined
<1>1. PICK m \in Packet :
        /\ m = Quarantine(pk, S)[p]
        /\ \/ m = pk[p] /\ (p \in S => pk[p].gpu = "idle")
           \/ m = [pk[p] EXCEPT !.quarantined = TRUE] /\ pk[p].gpu # "idle" /\ p \in S
  BY QuarantineCases
<1>2. pk[p] \in Packet  BY DEF PacketTypes
<1>3. CASE m = pk[p] /\ (p \in S => pk[p].gpu = "idle")  BY <1>1, <1>3 DEF SameButLost
<1>4. CASE m = [pk[p] EXCEPT !.quarantined = TRUE] /\ pk[p].gpu # "idle"
  BY <1>2, <1>4, <1>1 DEF SameButLost, Packet
<1>5. QED  BY <1>1, <1>3, <1>4

\* apply_deferred: a packet is as it was and kept, or quarantined.
LEMMA SettledOf ==
  ASSUME Typed, Outcast, Covering, NEW p \in Packets
  PROVE  \E k \in Packet :
            /\ k = Settled[p] /\ SameButLost(packet[p], k)
            /\ k.gpu = "idle" => k = Idle
            /\ Failing /\ k.gpu # "idle" => k.quarantined
            /\ packet[p].quarantined \/ p \in deferred.marked => k.gpu = "idle" \/ k.quarantined
            /\ Trusted(p) /\ ~k.quarantined => Covers(p, k)
<1>1. packet \in PacketTypes /\ packet[p] \in Packet  BY TypeParts, PacketOf DEF Typed
<1>2. PICK S : Settled = Quarantine(packet, S) /\ S = IF deferred.uncertain THEN Packets
                                                   ELSE deferred.marked
  BY DEF Settled, fail_device
<1>3. PICK k \in Packet : /\ k = Quarantine(packet, S)[p] /\ SameButLost(packet[p], k)
                          /\ p \in S /\ k.gpu # "idle" => k.quarantined
  BY <1>1, QuarantineOf
<1>4. k = Settled[p]  BY <1>2, <1>3
<1>5. k.gpu = "idle" => k = Idle  BY <1>3 DEF SameButLost, Outcast
<1>6. packet[p].quarantined => k.quarantined  BY <1>3 DEF SameButLost
<1>7. Failing /\ k.gpu # "idle" => k.quarantined
  BY <1>2, <1>3, <1>6 DEF Failing, Outcast, SameButLost
<1>8. ASSUME Trusted(p), ~k.quarantined PROVE Covers(p, k)
  BY <1>2, <1>3, <1>6, <1>8 DEF SameButLost, Doomed, Covering, Kept
<1>9. packet[p].quarantined \/ p \in deferred.marked => k.gpu = "idle" \/ k.quarantined
  BY <1>2, <1>3, <1>6
<1>10. QED  BY <1>3, <1>4, <1>5, <1>7, <1>8, <1>9

LEMMA LostFrame ==
  ASSUME NEW k \in Packet, NEW m \in Packet, SameButLost(k, m)
  PROVE  FrameOf(m) = FrameOf(k) \/ (FrameOf(k) # "free" /\ FrameOf(m) = "lost")
BY FrameIs DEF SameButLost

LEMMA Collecting ==
  ASSUME Sound, Typed', Ordered, NEW pk \in PacketTypes, NEW receipt,
         gpu' = ProducerSignals(pk, receipt, gpu), fence' = fence, NEW p \in Packets,
         Trusted(p) /\ ~pk[p].quarantined => Covers(p, pk[p]),
         pk[p].gpu = "idle" => pk[p] = Idle,
         pk[p].leased => pk[p].gpu = "ready",
         p \in worker.pending => pk[p].gpu = "ready",
         p \in Collectable(pk, receipt) /\ ~pk[p].submitted => ~InReceipt(p)
  PROVE  \E c \in Packet : Gathers(pk, receipt, p, c)
<1>1. PICK c \in Packet :
        /\ c = Collected(pk, receipt, fence)[p]
        /\ \/ p \in Recyclable(pk, fence) /\ c = Idle
           \/ /\ p \in Collectable(pk, receipt) /\ pk[p].submitted
              /\ c = [pk[p] EXCEPT !.gpu = "retiring"]
           \/ p \in Collectable(pk, receipt) /\ ~pk[p].submitted /\ c = Idle
           \/ c = pk[p]
  BY CollectCases
<1>2. PICK k \in Packet : k = pk[p]  BY DEF PacketTypes
<1>3. /\ Idle \in Packet /\ Idle.gpu = "idle" /\ ~Idle.quarantined
      /\ p \in Recyclable(pk, fence) => ~k.quarantined /\ k.gpu = "consuming"
      /\ p \in Collectable(pk, receipt) => ~k.quarantined /\ k.gpu = "recorded"
  BY <1>2, IdleType DEF Recyclable, Collectable, Idle
<1>4. /\ \/ c = pk[p]
         \/ ~pk[p].quarantined /\ pk[p].gpu = "consuming" /\ c = Idle
         \/ /\ ~pk[p].quarantined /\ p \in Collectable(pk, receipt)
            /\ c = Idle \/ c = [pk[p] EXCEPT !.gpu = "retiring"]
      /\ c.gpu = "idle" => c = Idle
  BY <1>1, <1>2, <1>3 DEF Packet
<1>5. ASSUME Trusted(p), ~k.quarantined
      PROVE  CoversAfter(p, c) /\ (c.gpu = "idle" => Untouched(p))
  BY <1>2, <1>5, CollectCovers, <1>1
<1>6. c.quarantined <=> k.quarantined  BY <1>1, <1>2, <1>3 DEF Packet
<1>7. c.gpu = "idle" /\ Trusted(p) => Untouched(p)  BY <1>3, <1>4, <1>5, <1>6
<1>8. FrameGoes(p, FrameOf(k), FrameOf(c))
  <2>1. CASE p \in Recyclable(pk, fence) /\ c = Idle  BY <1>3, <2>1, FrameIs, <1>7 DEF FrameGoes
  <2>2. CASE p \in Collectable(pk, receipt) /\ c = Idle
    BY <1>2, <1>3, <2>2, FrameIs, <1>7 DEF FrameGoes
  <2>3. CASE p \in Collectable(pk, receipt) /\ c = [pk[p] EXCEPT !.gpu = "retiring"]
    BY <1>2, <1>3, <2>3, FrameIs DEF Packet, FrameGoes
  <2>4. CASE c = pk[p]  BY <1>2, <2>4 DEF FrameGoes
  <2>5. QED  BY <1>1, <2>1, <2>2, <2>3, <2>4
<1>9. QED  BY <1>1, <1>2, <1>4, <1>5, <1>6, <1>7, <1>8 DEF Gathers

LEMMA FrameThrough ==
  ASSUME NEW p, NEW k \in Packet, NEW m \in Packet, NEW c \in Packet, SameButLost(k, m),
         FrameGoes(p, FrameOf(m), FrameOf(c)), m.quarantined => c = m
  PROVE  FrameGoes(p, FrameOf(k), FrameOf(c))
<1>1. CASE m = k  BY <1>1
<1>2. CASE m # k  BY <1>2, FrameIs DEF SameButLost, FrameGoes
<1>3. QED  BY <1>1, <1>2

\* collect as every holder of the mutex does it, of what is settled.
LEMMA SettledCollecting ==
  ASSUME Sound, Typed', Ordered, Leased, gpu' = ProducerSignals(Settled, tx, gpu),
         fence' = fence, NEW p \in Packets
  PROVE  \E k \in Packet, c \in Packet :
            /\ k = Settled[p] /\ SameButLost(packet[p], k)
            /\ Failing /\ k.gpu # "idle" => k.quarantined
            /\ packet[p].quarantined \/ p \in deferred.marked => k.gpu = "idle" \/ k.quarantined
            /\ Gathers(Settled, tx, p, c)
            /\ FrameGoes(p, FrameOf(packet[p]), FrameOf(c))
<1>1. Typed /\ Outcast /\ Covering /\ Handled /\ packet[p] \in Packet /\ Settled \in PacketTypes
  BY PacketOf, TypeParts, SettledTypes DEF Sound, Leased, Typed
<1>2. PICK k \in Packet :
            /\ k = Settled[p] /\ SameButLost(packet[p], k)
            /\ k.gpu = "idle" => k = Idle
            /\ Failing /\ k.gpu # "idle" => k.quarantined
            /\ packet[p].quarantined \/ p \in deferred.marked => k.gpu = "idle" \/ k.quarantined
            /\ Trusted(p) /\ ~k.quarantined => Covers(p, k)
  BY <1>1, SettledOf
<1>3. /\ k.leased => k.gpu = "ready"
      /\ p \in worker.pending => k.gpu = "ready"
      /\ p \in Collectable(Settled, tx) => ~InReceipt(p)
  BY <1>1, <1>2 DEF Handled, SameButLost, Collectable, InReceipt
<1>4. PICK c \in Packet : Gathers(Settled, tx, p, c)  BY <1>1, <1>2, <1>3, Collecting
<1>5. FrameGoes(p, FrameOf(k), FrameOf(c)) /\ (k.quarantined => c = k)  BY <1>2, <1>4 DEF Gathers
<1>6. FrameGoes(p, FrameOf(packet[p]), FrameOf(c))  BY <1>1, <1>2, <1>5, FrameThrough
<1>7. QED  BY <1>2, <1>4, <1>6

(* A step: what is kept, and what the contract sees. *)

\* The receipt's tails and the rest of what covers a packet are as they were.
LEMMA MovesAlong ==
  ASSUME Typed, Typed', Longer, NEW p, NEW k, NoNew("write", p), NoNew("read", p),
         fence' = fence, device'.last = device.last,
         InReceipt(p) => InReceipt(p)',
         tx' = tx \/ /\ tx'.queue = tx.queue /\ tx'.value = tx.value /\ tx'.by = tx.by
                     /\ tx.at # "signalled" /\ tx'.at # "signalled"
                     /\ tx.at \in {"forwarded", "recorded", "unsignalled"} =>
                           tx'.at \in {"forwarded", "recorded", "unsignalled"},
         UNCHANGED worker
  PROVE  Moves(p, k)
<1>1. device.last <= device'.last  BY Times
<1>2. \A q \in AllQueues : Here(q, p) => Here(q, p)'  BY DEF Here, InReceipt
<1>3. \A value \in Nat : Enough(p, k, value) => Enough(p, k, value)'  BY DEF Enough, InReceipt
<1>4. p \in worker'.pending =>
          /\ p \in worker.pending
          /\ tx'.by = Private /\ tx'.at = "signalled" =>
                tx.by = Private /\ tx.at = "signalled" /\ tx'.value = tx.value
          /\ worker'.at = "drawn" => worker.at = "drawn" /\ worker'.value = worker.value
  OBVIOUS
<1>5. QED  BY <1>1, <1>2, <1>3, <1>4 DEF Moves

LEMMA LeasedParts ==
  ASSUME Sound, Leased, NEW p \in Packets
  PROVE  /\ packet[p].leased <=> packet[p].gpu = "ready"
         /\ p \in worker.pending \cup worker.incoming => packet[p].leased
         /\ Typed /\ Listed /\ Handled /\ Outcast /\ OwnSignal /\ Covering
         /\ packet[p] \in Packet /\ packet \in PacketTypes /\ Settled \in PacketTypes
BY PacketOf, TypeParts, SettledTypes DEF Sound, Leased, Typed, Handled

LEMMA CollectSettles ==
  ASSUME Sound, Typed', Ordered, Leased, gpu' = ProducerSignals(Settled, tx, gpu),
         fence' = fence, NEW p \in Packets
  PROVE  \E c \in Packet :
            c = Collected(Settled, tx, fence)[p] /\ Settles(p, c) /\ Stays(p, c)
<1>1. PICK k \in Packet, c \in Packet :
            /\ k = Settled[p] /\ SameButLost(packet[p], k)
            /\ Failing /\ k.gpu # "idle" => k.quarantined
            /\ packet[p].quarantined \/ p \in deferred.marked => k.gpu = "idle" \/ k.quarantined
            /\ Gathers(Settled, tx, p, c)
            /\ FrameGoes(p, FrameOf(packet[p]), FrameOf(c))
  BY SettledCollecting
<1>2. /\ \/ c = k
         \/ ~k.quarantined /\ k.gpu = "consuming" /\ c = Idle
         \/ /\ ~k.quarantined /\ p \in Collectable(Settled, tx)
            /\ c = Idle \/ c = [k EXCEPT !.gpu = "retiring"]
      /\ Trusted(p) /\ ~c.quarantined => CoversAfter(p, c)
      /\ c.gpu = "idle" => c = Idle /\ (Trusted(p) => Untouched(p))
      /\ c = Collected(Settled, tx, fence)[p]
      /\ p \in Collectable(Settled, tx) =>
            k.gpu = "recorded" /\ k.retired /\ p \notin tx.tails
  BY <1>1 DEF Gathers, Collectable
<1>3. /\ packet[p].leased <=> packet[p].gpu = "ready"
      /\ packet[p] \in Packet
  BY LeasedParts
<1>4. /\ k.gpu = packet[p].gpu /\ k.leased = packet[p].leased /\ k.retired = packet[p].retired
  BY <1>1 DEF SameButLost
<1>5. /\ Idle.gpu = "idle" /\ Idle.leased = FALSE
      /\ [k EXCEPT !.gpu = "retiring"].gpu = "retiring"
      /\ [k EXCEPT !.gpu = "retiring"].leased = k.leased
  BY DEF Idle, Packet
<1>6. (c.leased <=> c.gpu = "ready") /\ (packet[p].leased => c.leased)  BY <1>2, <1>3, <1>4, <1>5
<1>7. Stays(p, c)  BY <1>2, <1>4 DEF Stays
<1>8. ASSUME Failing \/ packet[p].quarantined \/ p \in deferred.marked
      PROVE  c.gpu = "idle" \/ c.quarantined
  BY <1>1, <1>8, <1>2
<1>9. Settles(p, c)  BY <1>1, <1>2, <1>6, <1>8 DEF Settles
<1>10. QED  BY <1>2, <1>7, <1>9

\* No signal goes out.
LEMMA SameCover ==
  ASSUME Typed, Typed', gpu' = gpu, fence' = fence, NEW p \in Packets, NEW k \in Packet,
         Covers(p, k)
  PROVE  CoversAfter(p, k)
<1>1. Longer /\ NoNew("write", p)  BY SameLonger
<1>2. \A j \in Nat : Signalling(k.producer, j)' => Signalling(k.producer, j)  BY DEF Signalling
<1>3. Retiring(p, k)'  BY <1>1, <1>2, RetiringStays DEF Covers
<1>4. QED  BY <1>3 DEF Covers, CoversAfter

\* fail_device, or nothing, after the settling.
LEMMA QuarantineSettles ==
  ASSUME Sound, Typed', Ordered, Leased, gpu' = gpu, fence' = fence, NEW S, NEW p \in Packets
  PROVE  \E c \in Packet : /\ c = Quarantine(Settled, S)[p] /\ Settles(p, c) /\ Stays(p, c)
                           /\ p \in S => c.gpu = "idle" \/ c.quarantined
<1>0. /\ Typed /\ Outcast /\ Covering /\ packet[p] \in Packet /\ Settled \in PacketTypes
      /\ packet[p].leased <=> packet[p].gpu = "ready"
      /\ p \in worker.pending => packet[p].leased
  BY LeasedParts
<1>1. PICK k \in Packet :
            /\ k = Settled[p] /\ SameButLost(packet[p], k)
            /\ k.gpu = "idle" => k = Idle
            /\ Failing /\ k.gpu # "idle" => k.quarantined
            /\ packet[p].quarantined \/ p \in deferred.marked => k.gpu = "idle" \/ k.quarantined
            /\ Trusted(p) /\ ~k.quarantined => Covers(p, k)
  BY <1>0, SettledOf
<1>2. PICK c \in Packet : /\ c = Quarantine(Settled, S)[p] /\ SameButLost(k, c)
                          /\ p \in S /\ c.gpu # "idle" => c.quarantined
  BY <1>0, <1>1, QuarantineOf
<1>3. SameButLost(packet[p], c) /\ (c.gpu = "idle" => c = Idle) /\ (k.quarantined => c.quarantined)
  BY <1>1, <1>2 DEF SameButLost
<1>4. ASSUME Trusted(p), ~c.quarantined PROVE CoversAfter(p, c) /\ Covers(p, c)
  BY <1>2, <1>3, <1>4, <1>0, <1>1, SameCover DEF SameButLost
<1>5. ASSUME c.gpu = "idle", Trusted(p) PROVE Untouched(p)
  BY <1>0, <1>3, <1>4, <1>5, IdleUntouched DEF Idle, SameButLost
<1>6. FrameGoes(p, FrameOf(packet[p]), FrameOf(c))  BY <1>0, <1>3, LostFrame DEF FrameGoes
<1>7. (c.leased <=> c.gpu = "ready") /\ (packet[p].leased => c.leased) /\ Stays(p, c)
  BY <1>0, <1>3 DEF SameButLost, Stays
<1>8. Failing \/ packet[p].quarantined \/ p \in deferred.marked => c.gpu = "idle" \/ c.quarantined
  BY <1>1, <1>2, <1>3 DEF SameButLost
<1>9. Settles(p, c)  BY <1>3, <1>4, <1>5, <1>6, <1>7, <1>8 DEF Settles
<1>10. QED  BY <1>2, <1>7, <1>9

LEMMA SettleSettles ==
  ASSUME Sound, Typed', Ordered, Leased, gpu' = gpu, fence' = fence, NEW p \in Packets
  PROVE  \E c \in Packet : c = Settled[p] /\ Settles(p, c) /\ Stays(p, c)
<1>1. PICK c \in Packet : c = Quarantine(Settled, {})[p] /\ Settles(p, c) /\ Stays(p, c)
  BY QuarantineSettles
<1>2. Quarantine(Settled, {})[p] = Settled[p]  BY DEF Quarantine, Assigned
<1>3. QED  BY <1>1, <1>2

(* The parts of the invariant, put together again. *)

LEMMA Trusts == ASSUME SameTrust, NEW p PROVE Trusted(p)' <=> Trusted(p)
BY DEF SameTrust, Trusted

\* A step that leaves the packet as it is, its queued work too.
LEMMA StillStep ==
  ASSUME Typed, Typed', Covering, NEW p \in Packets, packet'[p] = packet[p], Moves(p, packet[p]),
         \A q \in AllQueues : \A j \in Nat : Signalling(q, j)' => Signalling(q, j),
         Trusted(p)' => Trusted(p), Kept(p)' => Kept(p)
  PROVE  SlotGoes(p) /\ (Kept(p)' => Covers(p, packet[p])')
<1>1. PICK k \in Packet : k = packet[p]  BY PacketOf
<1>2. Longer /\ NoNew("write", p) /\ NoNew("read", p) /\ fence' = fence  BY DEF Moves
<1>3. SlotGoes(p)  BY <1>2, WritesHold, ReadsHold, TrustSlot DEF FrameOf
<1>4. ASSUME Kept(p)' PROVE Covers(p, packet[p])'
  <2>1. Covers(p, k)  BY <1>1, <1>4 DEF Covering
  <2>2. Retiring(p, k)'
    <3>1. CASE k.submitted  BY <2>1, <3>1, <1>2, RetiringStays DEF Covers, LastSignalled
    <3>2. CASE ~k.submitted  BY <2>1, <3>2 DEF Covers, Retiring
    <3>3. QED  BY <3>1, <3>2
  <2>3. CoversAfter(p, k) /\ Moves(p, k) /\ packet'[p] = k
    BY <1>1, <2>1, <2>2 DEF Covers, CoversAfter
  <2>4. QED  BY <2>3, MovesCover
<1>5. QED  BY <1>3, <1>4

\* A step of a holder of the mutex; what it loses need not be covered.
LEMMA HolderMoves ==
  ASSUME Typed, Typed', NEW p \in Packets, NEW c \in Packet, packet'[p] = c, ~c.quarantined => Moves(p, c),
         Longer, NoNew("write", p), NoNew("read", p), SameTrust, Trusted(p) /\ ~c.quarantined => CoversAfter(p, c),
         FrameGoes(p, FrameOf(packet[p]), FrameOf(c))
  PROVE  SlotGoes(p) /\ (Kept(p)' => Covers(p, packet[p])')
<1>1. Longer /\ NoNew("write", p) /\ NoNew("read", p) /\ (Trusted(p)' <=> Trusted(p))  BY Trusts
<1>2. (NoWrites(p)' <=> NoWrites(p)) /\ (NoReads(p)' <=> NoReads(p))  BY <1>1, WritesHold, ReadsHold
<1>3. FrameOf(packet[p])' = FrameOf(c)  BY DEF FrameOf
<1>4. SlotGoes(p)
  <2>1. PICK f : f = FrameOf(packet[p])  OBVIOUS
  <2>2. PICK g : g = FrameOf(c)  OBVIOUS
  <2>3. FrameGoes(p, f, g) /\ g = FrameOf(packet[p])'  BY <1>3, <2>1, <2>2
  <2>4. QED  BY <1>1, <1>2, <2>1, <2>3, FrameSlot
<1>5. ASSUME Kept(p)' PROVE Covers(p, packet[p])'  BY <1>1, <1>5, MovesCover DEF Kept, Doomed
<1>6. QED  BY <1>4, <1>5

LEMMA HolderStep ==
  ASSUME Typed, Typed', NEW p \in Packets, NEW c \in Packet, packet'[p] = c, Moves(p, c),
         SameTrust, Trusted(p) /\ ~c.quarantined => CoversAfter(p, c),
         FrameGoes(p, FrameOf(packet[p]), FrameOf(c))
  PROVE  SlotGoes(p) /\ (Kept(p)' => Covers(p, packet[p])')
BY HolderMoves DEF Moves

LEMMA ListedShrinks ==
  ASSUME Typed, Listed, \A l \in Lists : list'[l].packets \subseteq list[l].packets,
         \A p \in Packets : Remains(p)' => Stays(p, packet'[p]),
         tx'.tails \subseteq tx.tails,
         tx'.tails # {} =>
            tx'.by \in Lists /\ tx'.at \in {"recorded", "signalled", "unsignalled"},
         tx'.packets = IF tx'.by \in Lists THEN list'[tx'.by].packets ELSE {}
  PROVE  Listed'
<1>1. \A l \in Lists : list[l].packets \subseteq Packets  BY TypeParts DEF Typed, ListTypes
<1>2. tx.tails \subseteq Packets  BY TypeParts DEF Typed, TxTypes
<1>3. \A l \in Lists : \A p \in list'[l].packets : packet'[p].gpu = "recorded" /\ ~packet'[p].retired
  BY <1>1 DEF Listed, Stays, Remains
<1>4. \A p \in tx'.tails : packet'[p].gpu = "recorded" /\ packet'[p].retired
  BY <1>2 DEF Listed, Stays, Remains
<1>5. \A l, m \in Lists : list'[l].packets \cap list'[m].packets # {} => l = m  BY DEF Listed
<1>6. QED  BY <1>3, <1>4, <1>5 DEF Listed

LEMMA ListedStays ==
  ASSUME Typed, Listed, \A l \in Lists : list'[l].packets = list[l].packets,
         \A p \in Packets : Stays(p, packet'[p]),
         tx'.tails \subseteq tx.tails,
         tx'.tails # {} =>
            tx'.by \in Lists /\ tx'.at \in {"recorded", "signalled", "unsignalled"},
         tx'.packets = IF tx'.by \in Lists THEN list[tx'.by].packets ELSE {}
  PROVE  Listed'
BY ListedShrinks

\* What is marked, or the device's, is quarantined by the next holder.
LEMMA OutcastRests ==
  ASSUME Typed, Listed, Outcast, SameTrust, NEW l \in Lists, list[l].at = "unordered",
         NEW p \in list[l].packets, NEW c \in Packet, packet'[p] = c, Rests(p, c), Stays(p, c)
  PROVE  ~Kept(p)'
<1>1. p \in Packets /\ packet[p].gpu = "recorded" /\ ~packet[p].retired /\ ~Kept(p)
  BY TypeParts DEF Typed, ListTypes, Listed, Outcast
<1>2. packet'[p].gpu = "recorded"  BY <1>1 DEF Stays
<1>3. Trusted(p)' <=> Trusted(p)  BY Trusts
<1>4. CASE ~Trusted(p)  BY <1>3, <1>4 DEF Kept
<1>5. CASE Doomed(p)  BY <1>5, <1>2 DEF Doomed, Failing, Rests, Kept
<1>6. QED  BY <1>1, <1>4, <1>5 DEF Kept

LEMMA OutcastSettles ==
  ASSUME Typed, Listed, Outcast, SameTrust, NEW l \in Lists, list[l].at = "unordered",
         NEW p \in list[l].packets, NEW c \in Packet, packet'[p] = c, Settles(p, c), Stays(p, c)
  PROVE  ~Kept(p)'
BY OutcastRests DEF Settles, Rests

\* A mark that is set, or trust that is lost, keeps no more packets.
LEMMA LessKept ==
  ASSUME NEW p, packet'[p] = packet[p], deferred.marked \subseteq deferred'.marked,
         deferred.uncertain => deferred'.uncertain, Trusted(p)' => Trusted(p), Kept(p)'
  PROVE  Kept(p)
BY DEF Kept, Doomed

LEMMA OwnStays ==
  ASSUME Typed, Typed', OwnSignal, Longer, fence' = fence, past'.overtaken = past.overtaken,
         tx'.at = "signalled" => tx.at = "signalled" /\ tx'.queue = tx.queue /\ tx'.value = tx.value
  PROVE  OwnSignal'
<1> SUFFICES ASSUME ~past'.overtaken, tx'.at = "signalled", fence' < tx'.value
             PROVE  \E j \in Nat : Signalling(tx.queue, j)' /\ gpu'[tx'.queue][j].value = tx'.value
  BY DEF OwnSignal
<1>1. tx.at = "signalled" /\ tx'.queue = tx.queue /\ tx'.value = tx.value  OBVIOUS
<1>2. PICK j \in Nat : Signalling(tx.queue, j) /\ gpu[tx.queue][j].value = tx.value
  BY <1>1 DEF OwnSignal
<1>3. tx.queue \in AllQueues  BY <1>1 DEF Typed, Placed, AllQueues
<1>4. Signalling(tx.queue, j)' /\ gpu'[tx.queue][j] = gpu[tx.queue][j]
  <2>1. PICK q \in AllQueues : q = tx.queue  BY <1>3
  <2>2. Signalling(q, j)' /\ gpu'[q][j] = gpu[q][j]  BY <1>2, <2>1, LongerSignals
  <2>3. QED  BY <1>1, <2>1, <2>2 DEF Signalling
<1>5. QED  BY <1>1, <1>2, <1>4

\* The packets of the receipt are recorded ones.
LEMMA ReceiptRecorded ==
  ASSUME Typed, Listed, NEW p \in Packets, InReceipt(p) PROVE packet[p].gpu = "recorded"
BY DEF Listed, InReceipt

LEMMA NoneOpen ==
  ASSUME Typed, Listed, tx.by = Null
  PROVE  tx.at = "none" /\ tx.tails = {} /\ tx.packets = {} /\ \A p : ~InReceipt(p)
<1>1. tx.by \notin Lists  BY SubmissionAssumption
<1>2. QED  BY <1>1, Alone DEF Listed, InReceipt

(* The steps that only queue a Wait, set a mark or move a thread. *)

LEMMA PlainStep ==
  ASSUME Sound, Typed', Leased, Longer,
         \A p : NoNew("write", p) /\ NoNew("read", p),
         \A q \in AllQueues : \A j \in Nat : Signalling(q, j)' => Signalling(q, j),
         UNCHANGED <<packet, device, worker, fence>>, Approaches,
         past'.overtaken = past.overtaken, past.unmarked \subseteq past'.unmarked,
         deferred.marked \subseteq deferred'.marked, deferred.uncertain => deferred'.uncertain,
         \A l \in Lists : list'[l].packets = list[l].packets,
         \A l \in Lists : list'[l].at = "unordered" =>
            list[l].at = "unordered" \/ \A p \in list[l].packets : ~Kept(p)'
  PROVE  LeaseStep
<1>1. /\ Typed /\ Listed /\ Handled /\ Outcast /\ OwnSignal /\ Covering
      /\ \A l \in Lists : list[l].packets \subseteq Packets
  BY TypeParts DEF Sound, Leased, Typed, ListTypes
<1>2. \A p : (Trusted(p)' => Trusted(p)) /\ (Kept(p)' => Kept(p))  BY LessKept DEF Trusted
<1>3. ASSUME NEW p \in Packets PROVE SlotGoes(p) /\ (Kept(p)' => Covers(p, packet[p])')
  <2>1. /\ fence' = fence /\ device'.last = device.last /\ UNCHANGED worker
        /\ InReceipt(p) => InReceipt(p)'
    BY DEF Approaches, InReceipt
  <2>2. tx' = tx \/ /\ tx'.queue = tx.queue /\ tx'.value = tx.value /\ tx'.by = tx.by
                    /\ tx.at # "signalled" /\ tx'.at # "signalled"
                    /\ tx.at \in {"forwarded", "recorded", "unsignalled"} =>
                          tx'.at \in {"forwarded", "recorded", "unsignalled"}
    BY DEF Approaches
  <2>3. Moves(p, packet[p])  BY <1>1, <2>1, <2>2, MovesAlong
  <2>4. QED  BY <1>1, <1>2, <2>3, StillStep
<1>4. Listed'  BY <1>1, ListedStays DEF Stays, Approaches, Listed
<1>5. Handled'  BY <1>1 DEF Handled, Approaches
<1>6. Outcast'  BY <1>1, <1>2 DEF Outcast
<1>7. OwnSignal'  BY <1>1, OwnStays DEF Approaches
<1>8. QED  BY <1>3, <1>4, <1>5, <1>6, <1>7 DEF LeaseStep, Leased, Covering

\* The thread of a list moves.
LEMMA SubmittingLists ==
  ASSUME Typed, NEW l \in Lists, NEW q, NEW at, Submitting(l, q, at)
  PROVE  \A m \in Lists : /\ list'[m].packets = list[m].packets
                          /\ list'[m].at = IF m = l THEN at ELSE list[m].at
<1>1. list \in [Lists -> ListTypes]  BY TypeParts DEF Typed
<1>2. list' = [list EXCEPT ![l] = [list[l] EXCEPT !.queue = q, !.at = at]]  BY DEF Submitting
<1>3. [list[l] EXCEPT !.queue = q, !.at = at].packets = list[l].packets
      /\ [list[l] EXCEPT !.queue = q, !.at = at].at = at
  BY <1>1 DEF ListTypes
<1>4. QED  BY <1>1, <1>2, <1>3

LEMMA StageLists ==
  ASSUME Typed, NEW l \in Lists, NEW at, Stage(l, at)
  PROVE  \A m \in Lists : /\ list'[m].packets = list[m].packets
                          /\ list'[m].at = IF m = l THEN at ELSE list[m].at
<1>1. list \in [Lists -> ListTypes]  BY TypeParts DEF Typed
<1>2. list' = [list EXCEPT ![l] = [list[l] EXCEPT !.at = at]]  BY DEF Stage
<1>3. [list[l] EXCEPT !.at = at].packets = list[l].packets /\ [list[l] EXCEPT !.at = at].at = at
  BY <1>1 DEF ListTypes
<1>4. QED  BY <1>1, <1>2, <1>3

LEMMA NothingNew ==
  ASSUME Typed, gpu' = gpu
  PROVE  /\ Longer /\ \A p : NoNew("write", p) /\ NoNew("read", p)
         /\ \A q \in AllQueues : \A j \in Nat : Signalling(q, j)' => Signalling(q, j)
BY SameLonger DEF Signalling

LEMMA EnterLeases ==
  ASSUME Sound, Typed', Leased, NEW l \in Lists, NEW q \in Queues, Enter(l, q) PROVE LeaseStep
<1>1. /\ Typed /\ Submitting(l, q, "admitted")
      /\ UNCHANGED <<packet, tx, device, deferred, worker, gate, fence, gpu, past>>
  BY DEF Sound, Enter
<1>2. \A m \in Lists : /\ list'[m].packets = list[m].packets
                       /\ list'[m].at = IF m = l THEN "admitted" ELSE list[m].at
  BY <1>1, SubmittingLists
<1>3. \A m \in Lists : list'[m].at = "unordered" => list[m].at = "unordered"  BY <1>2
<1>4. QED  BY <1>1, <1>2, <1>3, NothingNew, PlainStep DEF Approaches

\* The packets of a list that goes on without a receipt are marked, or their mark is
\* lost, or the device is.
LEMMA MarkedLeases ==
  ASSUME Sound, Typed', Leased, NEW l \in Lists, NEW q, Submitting(l, q, "unordered"),
         UNCHANGED <<packet, tx, device, worker, fence, gpu>>,
         past'.overtaken = past.overtaken, past.unmarked \subseteq past'.unmarked,
         deferred.marked \subseteq deferred'.marked, deferred.uncertain => deferred'.uncertain,
         \A p \in list[l].packets :
            p \in past'.unmarked \/ p \in deferred'.marked \/ deferred'.uncertain
  PROVE  LeaseStep
<1>1. Typed /\ Listed  BY DEF Sound, Leased
<1>2. \A m \in Lists : /\ list'[m].packets = list[m].packets
                       /\ list'[m].at = IF m = l THEN "unordered" ELSE list[m].at
  BY <1>1, SubmittingLists
<1>3. \A p \in list[l].packets : ~Kept(p)'  BY <1>1 DEF Listed, Kept, Doomed, Trusted
<1>4. QED  BY <1>1, <1>2, <1>3, NothingNew, PlainStep DEF Approaches

LEMMA MarkParts ==
  ASSUME Typed, NEW l \in Lists, NEW lost \in BOOLEAN, Mark(l, lost)
  PROVE  /\ past'.overtaken = past.overtaken /\ past.unmarked \subseteq past'.unmarked
         /\ deferred.marked \subseteq deferred'.marked
         /\ deferred.uncertain => deferred'.uncertain
         /\ \A p \in list[l].packets : p \in past'.unmarked \/ p \in deferred'.marked
<1>1. past \in PastTypes /\ deferred \in [marked : SUBSET Packets, uncertain : BOOLEAN]
  BY TypeParts DEF Typed
<1> DEFINE S == list[l].packets
<1>2. CASE lost
  <2>1. Troubled(S, [past EXCEPT !.unmarked = @ \cup S]) /\ deferred' = deferred  BY <1>2 DEF Mark
  <2> DEFINE h == [past EXCEPT !.unmarked = @ \cup S]
  <2>2. h.overtaken = past.overtaken /\ h.unmarked = past.unmarked \cup S  BY <1>1 DEF PastTypes
  <2>3. [h EXCEPT !.troubles = @ + 1].overtaken = h.overtaken
        /\ [h EXCEPT !.troubles = @ + 1].unmarked = h.unmarked
    BY <1>1 DEF PastTypes
  <2> HIDE DEF h
  <2>4. past' = h \/ past' = [h EXCEPT !.troubles = @ + 1]  BY <2>1 DEF Troubled, h
  <2>5. QED  BY <2>1, <2>2, <2>3, <2>4
<1>3. CASE ~lost
  <2>1. Troubled(S, past) /\ deferred' = [deferred EXCEPT !.marked = @ \cup S]  BY <1>3 DEF Mark
  <2>2. past'.overtaken = past.overtaken /\ past'.unmarked = past.unmarked
    BY <1>1, <2>1 DEF Troubled, PastTypes
  <2>3. deferred'.marked = deferred.marked \cup S /\ deferred'.uncertain = deferred.uncertain
    BY <1>1, <2>1
  <2>4. QED  BY <2>2, <2>3
<1>4. QED  BY <1>2, <1>3

LEMMA EscapeLeases ==
  ASSUME Sound, Typed', Leased, NEW l \in Lists, Escape(l) PROVE LeaseStep
<1>1. /\ Typed /\ escape_unordered(l) /\ UNCHANGED <<packet, tx, device, worker, fence, gpu>>
      /\ \E q : Submitting(l, q, "unordered")
  BY DEF Sound, Escape
<1>2. PICK lost \in BOOLEAN : Mark(l, lost)  BY <1>1 DEF escape_unordered
<1>3. /\ past'.overtaken = past.overtaken /\ past.unmarked \subseteq past'.unmarked
      /\ deferred.marked \subseteq deferred'.marked
      /\ deferred.uncertain => deferred'.uncertain
      /\ \A p \in list[l].packets : p \in past'.unmarked \/ p \in deferred'.marked
  BY <1>1, <1>2, MarkParts
<1>4. PICK q : Submitting(l, q, "unordered")  BY <1>1
<1>5. QED  BY <1>1, <1>3, <1>4, MarkedLeases

LEMMA RefuseLeases ==
  ASSUME Sound, Typed', Leased, NEW l \in Lists, NEW q \in Queues, Refuse(l, q) PROVE LeaseStep
<1>1. /\ Typed /\ UNCHANGED <<packet, tx, device, worker, fence, gpu>>
      /\ Submitting(l, q, "unordered")
  BY DEF Sound, Refuse
<1>2. CASE Mark(l, FALSE)  BY <1>1, <1>2, MarkParts, MarkedLeases
<1>3. CASE deferred' = [deferred EXCEPT !.uncertain = TRUE] /\ Troubled(list[l].packets, past)
  <2>1. past \in PastTypes /\ deferred \in [marked : SUBSET Packets, uncertain : BOOLEAN]
    BY <1>1, TypeParts DEF Typed
  <2>2. past'.overtaken = past.overtaken /\ past'.unmarked = past.unmarked
    BY <1>3, <2>1 DEF Troubled, PastTypes
  <2>3. deferred'.marked = deferred.marked /\ deferred'.uncertain  BY <1>3, <2>1
  <2>4. QED  BY <1>1, <2>2, <2>3, MarkedLeases
<1>4. QED  BY <1>2, <1>3 DEF Refuse

(* A new operation, behind everything in its queue. *)

LEMMA OneMore ==
  ASSUME Typed, Typed', NEW q \in AllQueues, NEW op \in Operation,
         gpu' = [gpu EXCEPT ![q] = Append(gpu[q], op)]
  PROVE  \E n \in Nat :
            /\ Longer /\ gpu'[q][n] = op /\ n \in 1..Len(gpu'[q])
            /\ \A r \in AllQueues : \A i \in Nat :
                  i \in 1..Len(gpu'[r]) => (r = q /\ i = n) \/
                                           (i \in 1..Len(gpu[r]) /\ gpu'[r][i] = gpu[r][i])
            /\ \A i \in Nat : i \in 1..Len(gpu[q]) => i < n
<1>1. gpu \in GpuTypes /\ gpu[q] \in Seq(Operation) /\ Len(gpu[q]) \in Nat
  BY TypeParts, OpOf DEF Typed, GpuTypes
<1>2. PICK n \in Nat : n = Len(gpu[q]) + 1  BY <1>1
<1>3. /\ Len(gpu'[q]) = n /\ gpu'[q][n] = op
      /\ \A i \in 1..Len(gpu[q]) : gpu'[q][i] = gpu[q][i]
  BY <1>1, <1>2, AppendProperties DEF GpuTypes
<1>4. \A r \in AllQueues \ {q} : gpu'[r] = gpu[r] /\ Len(gpu[r]) \in Nat  BY <1>1, OpOf DEF GpuTypes
<1>5. Longer  BY <1>1, <1>2, <1>3, <1>4 DEF Longer
<1>6. ASSUME NEW r \in AllQueues, NEW i \in Nat, i \in 1..Len(gpu'[r])
      PROVE  (r = q /\ i = n) \/ (i \in 1..Len(gpu[r]) /\ gpu'[r][i] = gpu[r][i])
  <2>1. CASE r = q  BY <1>1, <1>2, <1>3, <1>6, <2>1
  <2>2. CASE r # q  BY <1>4, <1>6, <2>2
  <2>3. QED  BY <2>1, <2>2
<1>7. \A i \in Nat : i \in 1..Len(gpu[q]) => i < n  BY <1>1, <1>2
<1>8. n \in 1..Len(gpu'[q])  BY <1>1, <1>2, <1>3
<1>9. QED  BY <1>3, <1>5, <1>6, <1>7, <1>8

LEMMA OneMoreIs ==
  ASSUME Typed, Typed', NEW q \in AllQueues, NEW op \in Operation,
         gpu' = [gpu EXCEPT ![q] = Append(gpu[q], op)]
  PROVE  \E n \in Nat : Added(q, n, op)
<1>1. PICK n \in Nat :
            /\ Longer /\ gpu'[q][n] = op /\ n \in 1..Len(gpu'[q])
            /\ \A r \in AllQueues : \A i \in Nat :
                  i \in 1..Len(gpu'[r]) => (r = q /\ i = n) \/
                                           (i \in 1..Len(gpu[r]) /\ gpu'[r][i] = gpu[r][i])
            /\ \A i \in Nat : i \in 1..Len(gpu[q]) => i < n
  BY OneMore
<1>2. \A kind, p : \A r \in AllQueues : \A i \in Nat :
         Carries(kind, r, i, p)' =>
            Carries(kind, r, i, p) \/ (r = q /\ i = n /\ op.kind = kind /\ p \in op.packets)
  BY <1>1 DEF Carries
<1>3. \A r \in AllQueues : \A j \in Nat :
         Signalling(r, j)' => Signalling(r, j) \/ (r = q /\ j = n /\ op.kind = "signal")
  BY <1>1 DEF Signalling
<1>4. QED  BY <1>1, <1>2, <1>3 DEF Added, Carries, Signalling

LEMMA QueueWaitLeases == ASSUME Sound, Typed', Leased, QueueWait PROVE LeaseStep
<1>1. /\ Typed /\ tx.at = "reserved" /\ tx.queue \in AllQueues /\ tx \in TxTypes
      /\ device.last \in Receipts
      /\ UNCHANGED <<packet, list, device, deferred, worker, gate, fence, past>>
  BY TypeParts DEF Sound, QueueWait, Typed, Placed, AllQueues, DeviceTypes
<1>2. Approaches  BY <1>1 DEF QueueWait, Approaches, TxTypes
<1>3. CASE gpu' = gpu  BY <1>1, <1>2, <1>3, NothingNew, PlainStep
<1>4. CASE gpu' = [gpu EXCEPT ![tx.queue] = Append(@, Op("wait", tx.packets, device.last, tx.by))]
  <2>1. PICK q \in AllQueues : q = tx.queue  BY <1>1
  <2>2. PICK op \in Operation : op = WaitOp /\ op.kind = "wait"
    BY <1>1, OpTypes DEF WaitOp, TxTypes
  <2>3. gpu' = [gpu EXCEPT ![q] = Append(gpu[q], op)]  BY <1>4, <2>1, <2>2 DEF WaitOp
  <2>4. PICK n \in Nat : Added(q, n, op)  BY <1>1, <2>3, OneMoreIs
  <2>5. \A p : NoNew("write", p) /\ NoNew("read", p)  BY <2>2, <2>4 DEF Added, NoNew
  <2>6. \A r \in AllQueues : \A j \in Nat : Signalling(r, j)' => Signalling(r, j)
    BY <2>2, <2>4 DEF Added
  <2>7. past'.overtaken = past.overtaken /\ past.unmarked \subseteq past'.unmarked  BY <1>1
  <2>8. QED  BY <1>1, <1>2, <2>4, <2>5, <2>6, <2>7, PlainStep DEF Added
<1>5. QED  BY <1>3, <1>4 DEF QueueWait

LEMMA PublishWaitLeases == ASSUME Sound, Typed', Leased, PublishWait PROVE LeaseStep
<1>1. /\ Typed /\ tx.at = "waited" /\ tx \in TxTypes /\ tx' = [tx EXCEPT !.at = "ordered"]
      /\ UNCHANGED <<packet, list, device, deferred, worker, fence, gpu, past>>
  BY TypeParts DEF Sound, PublishWait, Typed
<1>2. Approaches  BY <1>1 DEF Approaches, TxTypes
<1>3. QED  BY <1>1, <1>2, NothingNew, PlainStep

LEMMA GateLeases ==
  ASSUME Sound, Typed', Leased,
         UNCHANGED <<packet, list, tx, device, deferred, worker, fence, gpu>>,
         past'.overtaken = past.overtaken, past'.unmarked = past.unmarked
  PROVE  LeaseStep
BY NothingNew, PlainStep DEF Sound, Approaches

\* When the watchdog moves the timeline, no packet is trusted any more.
LEMMA ReleaseLeases ==
  ASSUME Sound, Typed', Leased, release_queued_waits PROVE LeaseStep
<1>1. /\ Typed /\ past \in PastTypes
      /\ UNCHANGED <<packet, list, tx, device, deferred, worker, gpu>>
      /\ past' = [past EXCEPT !.late = PastGate,
                              !.overtaken = @ \/ (Unreleased /\ fence < gate.waited)]
      /\ fence' = IF Unreleased /\ fence < gate.waited THEN gate.waited ELSE fence
  BY TypeParts DEF Sound, Typed, release_queued_waits
<1>2. CASE ~(Unreleased /\ fence < gate.waited)  BY <1>1, <1>2, GateLeases DEF PastTypes
<1>3. CASE Unreleased /\ fence < gate.waited
  <2>1. past'.overtaken /\ past'.unmarked = past.unmarked  BY <1>1, <1>3 DEF PastTypes
  <2>2. \A p : ~Trusted(p)' /\ ~Kept(p)'  BY <2>1 DEF Trusted, Kept
  <2>3. Listed' /\ Handled' /\ Outcast' /\ OwnSignal' /\ Covering'
    BY <1>1, <2>1, <2>2 DEF Leased, Listed, Handled, Outcast, OwnSignal, Covering
  <2>4. ASSUME NEW p \in Packets PROVE SlotGoes(p)
    BY <1>1, SameLonger, WritesHold, ReadsHold, <2>2, TrustSlot DEF FrameOf
  <2>5. QED  BY <2>3, <2>4 DEF LeaseStep, Leased
<1>4. QED  BY <1>2, <1>3

LEMMA WatchdogLeases == ASSUME Sound, Typed', Leased, WatchdogStep PROVE LeaseStep
<1>1. CASE CloseGate  BY <1>1, GateLeases DEF CloseGate
<1>2. CASE OpenGate  BY TypeParts, <1>2, GateLeases DEF Sound, Typed, OpenGate, PastTypes
<1>3. QED  BY <1>1, <1>2, ReleaseLeases DEF WatchdogStep

(* The steps that queue lists and readers. *)

LEMMA FramesHad ==
  ASSUME Typed, Handled, NEW p \in Packets
  PROVE  /\ packet[p].gpu = "recorded" => FrameOf(packet[p]) \in {"recorded", "lost"}
         /\ packet[p].leased => FrameOf(packet[p]) \in {"handed", "lost"}
BY PacketOf, FrameIs DEF Handled

LEMMA ExecutedIs ==
  ASSUME Typed, NEW q \in AllQueues, NEW kind \in {"write", "read"}, NEW S \in SUBSET Packets,
         gpu' = [gpu EXCEPT ![q] = Executed(q, kind, S)]
  PROVE  Queued(q, kind, S)
<1>1. gpu \in GpuTypes  BY TypeParts DEF Typed
<1>2. CASE S = {}  BY <1>2, <1>1 DEF Executed, GpuTypes, Queued
<1>3. CASE S # {}
  <2>1. PICK op \in Operation : /\ op = Op(kind, S, 0, Null) /\ op.kind = kind
                                /\ op.packets = S
    BY Numbers, OpTypes
  <2>2. QED  BY <1>3, <2>1 DEF Executed, Queued
<1>4. QED  BY <1>2, <1>3

\* Copies that are queued, and the Signals behind them.
LEMMA WritesGrow ==
  ASSUME Typed, Typed', Longer, NEW p \in Packets, NEW k, WritesCovered(p, k),
         \A r \in AllQueues : \A i \in Nat : Writing(r, i, p)' =>
            \/ k.gpu \in {"recorded", "retiring"} /\ Here(r, p)'
            \/ /\ k.gpu \in {"recorded", "retiring"}
               /\ \E j \in Nat : Signalling(r, j)' /\ j > i /\ Enough(p, k, gpu[r][j].value)'
            \/ Writing(r, i, p) /\ ~Here(r, p),
         \A value \in Nat : Enough(p, k, value) => Enough(p, k, value)'
  PROVE  WritesCovered(p, k)'
<1> SUFFICES ASSUME NEW r \in AllQueues, NEW i \in Nat, Writing(r, i, p)',
                    Writing(r, i, p), ~Here(r, p)
             PROVE  /\ k.gpu \in {"recorded", "retiring"}
                    /\ \E j \in Nat : /\ Signalling(r, j)' /\ j > i
                                      /\ Enough(p, k, gpu[r][j].value)'
  BY DEF WritesCovered
<1>1. PICK j \in Nat : Signalling(r, j) /\ j > i /\ Enough(p, k, gpu[r][j].value)
  BY DEF WritesCovered
<1>2. Signalling(r, j)' /\ gpu'[r][j] = gpu[r][j] /\ gpu[r][j].value \in Nat  BY <1>1, LongerSignals
<1>3. PICK u \in Nat : u = gpu[r][j].value  BY <1>2
<1>4. Enough(p, k, u)'  BY <1>1, <1>3
<1>5. Enough(p, k, gpu[r][j].value)'  BY <1>2, <1>3, <1>4 DEF Enough
<1>6. QED  BY <1>1, <1>2, <1>5 DEF WritesCovered

\* A batch that goes without a receipt: its packets are not kept any more.
LEMMA ForwardUnorderedLeases ==
  ASSUME Sound, Typed', Leased, NEW l \in Lists, ForwardUnordered(l) PROVE LeaseStep
<1> DEFINE S == list[l].packets
<1>1. /\ Typed /\ list[l].at = "unordered" /\ S \in SUBSET Packets /\ S = list[l].packets
      /\ list' = [list EXCEPT ![l].at = "free", ![l].queue = Null]
      /\ UNCHANGED <<packet, tx, device, deferred, worker, gate, fence, past>>
      /\ Listed /\ Handled /\ Outcast /\ OwnSignal /\ Covering
  BY TypeParts DEF Sound, Leased, Typed, ListTypes, ForwardUnordered
<1>2. PICK q \in AllQueues : q = list[l].queue  BY <1>1 DEF Typed, Placed, AllQueues
<1>3. gpu' = [gpu EXCEPT ![q] = Executed(q, "write", S)]  BY <1>2 DEF ForwardUnordered
<1>4. \A m \in Lists : /\ list'[m].packets = list[m].packets
                       /\ list'[m].at = IF m = l THEN "free" ELSE list[m].at
  <2>1. list \in [Lists -> ListTypes]  BY <1>1, TypeParts DEF Typed
  <2>2. list' = [list EXCEPT ![l] = [list[l] EXCEPT !.at = "free", !.queue = Null]]  BY <1>1
  <2>3. /\ [list[l] EXCEPT !.at = "free", !.queue = Null].packets = list[l].packets
        /\ [list[l] EXCEPT !.at = "free", !.queue = Null].at = "free"
    BY <2>1 DEF ListTypes
  <2>4. QED  BY <2>1, <2>2, <2>3
<1> HIDE DEF S
<1>5. \A m \in Lists : list'[m].at = "unordered" => list[m].at = "unordered"  BY <1>4
<1>6. CASE gpu' = gpu  BY <1>1, <1>4, <1>5, <1>6, NothingNew, PlainStep DEF Approaches
<1>7. ASSUME NEW op \in Operation, op.kind = "write", op.packets = S,
             gpu' = [gpu EXCEPT ![q] = Append(gpu[q], op)]
      PROVE  LeaseStep
  <2>1. PICK n \in Nat : Added(q, n, op)  BY <1>1, <1>7, OneMoreIs
  <2>2. Longer /\ (\A p : NoNew("read", p)) /\ \A p : p \notin S => NoNew("write", p)
    BY <1>7, <2>1 DEF Added, NoNew
  <2>3. \A r \in AllQueues : \A j \in Nat : Signalling(r, j)' => Signalling(r, j)
    BY <1>7, <2>1 DEF Added
  <2>4. \A p : (Trusted(p)' <=> Trusted(p)) /\ (Kept(p)' <=> Kept(p))
    BY <1>1 DEF Trusted, Kept, Doomed
  <2>5. ASSUME NEW p \in Packets PROVE SlotGoes(p) /\ (Kept(p)' => Covers(p, packet[p])')
    <3>1. CASE p \notin S  BY <1>1, <2>2, <3>1, MovesAlong, <2>3, <2>4, StillStep DEF InReceipt
    <3>2. CASE p \in S
      <4>1. ~Kept(p) /\ packet[p].gpu = "recorded"  BY <1>1, <3>2 DEF Outcast, Listed
      <4>2. PICK f : f = FrameOf(packet[p])  OBVIOUS
      <4>3. f \in {"recorded", "lost"} /\ f = FrameOf(packet[p])'
        BY <1>1, <4>1, <4>2, FramesHad DEF FrameOf
      <4>4. NoReads(p)' <=> NoReads(p)  BY <1>1, <2>2, ReadsHold
      <4>5. SlotGoes(p)  BY <1>1, <2>4, <4>2, <4>3, <4>4, QueueSlot
      <4>6. QED  BY <2>4, <4>1, <4>5
    <3>3. QED  BY <3>1, <3>2
  <2>6. Listed'  BY <1>1, <1>4, ListedStays DEF Stays, Listed
  <2>7. Handled' /\ Outcast' /\ OwnSignal'
    BY <1>1, <1>4, <1>5, <2>4, <2>2, OwnStays DEF Handled, Outcast
  <2>8. QED  BY <2>5, <2>6, <2>7 DEF LeaseStep, Leased, Covering
<1>8. Queued(q, "write", S)  BY <1>1, <1>3, ExecutedIs
<1>9. QED  BY <1>6, <1>7, <1>8 DEF Queued

\* A batch's lists go out with its receipt.
LEMMA ForwardCovers ==
  ASSUME Sound, Typed', Leased, tx.at = "ordered", tx' = [tx EXCEPT !.at = "forwarded"],
         UNCHANGED <<packet, list, device, deferred, worker, gate, fence, past>>,
         NEW q \in AllQueues, q = tx.queue, NEW op \in Operation, NEW n \in Nat, Added(q, n, op),
         op.kind \in {"write", "read"}, NEW p \in Packets,
         p \in op.packets /\ op.kind = "write" => InReceipt(p),
         p \in op.packets /\ op.kind = "read" => p \in worker.pending /\ tx.by = Private
  PROVE  SlotGoes(p) /\ (Kept(p)' => Covers(p, packet[p])')
<1>1. /\ Typed /\ Listed /\ Handled /\ Covering /\ tx \in TxTypes
      /\ packet[p].leased <=> packet[p].gpu = "ready"
      /\ p \in worker.pending => packet[p].leased
      /\ InReceipt(p) => packet[p].gpu = "recorded"
      /\ InReceipt(p)' <=> InReceipt(p)
      /\ tx'.at = "forwarded" /\ tx'.queue = tx.queue /\ tx'.by = tx.by /\ tx'.value = tx.value
  <2>1. Typed /\ Listed /\ Handled /\ Covering /\ tx \in TxTypes
    BY TypeParts DEF Sound, Leased, Typed
  <2>2. tx'.at = "forwarded" /\ tx'.queue = tx.queue /\ tx'.by = tx.by /\ tx'.value = tx.value
        /\ tx'.packets = tx.packets /\ tx'.tails = tx.tails
    BY <2>1 DEF TxTypes
  <2>3. InReceipt(p) => packet[p].gpu = "recorded"  BY <2>1, ReceiptRecorded
  <2>4. QED  BY <2>1, <2>2, <2>3 DEF Handled, InReceipt
<1>2. /\ Longer
      /\ \A r \in AllQueues : \A i \in Nat : Writing(r, i, p)' =>
            Writing(r, i, p) \/ (r = q /\ InReceipt(p))
      /\ \A r \in AllQueues : \A i \in Nat : Reading(r, i, p)' =>
            Reading(r, i, p) \/ (r = q /\ tx.by = Private /\ p \in worker.pending)
      /\ \A r \in AllQueues : \A j \in Nat : Signalling(r, j)' => Signalling(r, j)
  BY DEF Added, Writing, Reading
<1>3. Trusted(p)' <=> Trusted(p)  BY DEF Trusted
<1>4. Kept(p)' <=> Kept(p)  BY <1>3 DEF Kept, Doomed
<1>5. PICK k \in Packet : k = packet[p] /\ k = packet'[p]  BY <1>1, PacketOf
<1>6. SlotGoes(p)
  <2>1. PICK f : f = FrameOf(packet[p])  OBVIOUS
  <2>2. f = FrameOf(packet[p])'  BY <2>1 DEF FrameOf
  <2>3. /\ packet[p].gpu = "recorded" => f \in {"recorded", "lost"}
        /\ packet[p].leased => f \in {"handed", "lost"}
    BY <1>1, <2>1, FramesHad
  <2>4. CASE op.kind = "write"
    <3>1. NoNew("read", p)  BY <2>4 DEF Added, NoNew
    <3>2. NoReads(p)' <=> NoReads(p)  BY <1>1, <1>2, <3>1, ReadsHold
    <3>3. NoWrites(p) /\ ~NoWrites(p)' => f \in {"recorded", "lost"}
      BY <1>1, <1>2, <2>3 DEF NoWrites
    <3>4. QED  BY <1>1, <1>3, <2>1, <2>2, <3>2, <3>3, QueueSlot
  <2>5. CASE op.kind = "read"
    <3>1. NoNew("write", p)  BY <2>5 DEF Added, NoNew
    <3>2. NoWrites(p)' <=> NoWrites(p)  BY <1>1, <1>2, <3>1, WritesHold
    <3>3. NoReads(p) /\ ~NoReads(p)' => f \in {"handed", "lost"}  BY <1>1, <1>2, <2>3 DEF NoReads
    <3>4. QED  BY <1>1, <1>3, <2>1, <2>2, <3>2, <3>3, QueueSlot
  <2>6. QED  BY <2>4, <2>5
<1>7. ASSUME Kept(p)' PROVE Covers(p, packet[p])'
  <2>1. Covers(p, k)  BY <1>1, <1>4, <1>5, <1>7 DEF Covering
  <2>2. \A value \in Nat : Enough(p, k, value) => Enough(p, k, value)'  BY DEF Enough
  <2>3. WritesCovered(p, k)'  BY <1>1, <1>5, <1>2, <2>1, <2>2, WritesGrow DEF Here, Covers
  <2>4. LastSignalled(k)'  BY <1>1, Times, <1>2, <2>1, LastStays DEF Covers
  <2>5. Retiring(p, k)'
    <3>1. k.gpu = "retiring" => NoNew("write", p)  BY <1>1, <1>2, <1>5 DEF NoNew, Writing
    <3>2. k.gpu = "retiring" => k.producer \in AllQueues
      BY <2>1 DEF Covers, Retiring, LastSignalled
    <3>3. k.gpu # "retiring" => Retiring(p, k)'  BY DEF Retiring
    <3>4. QED  BY <1>1, <1>2, <2>1, <3>1, <3>2, <3>3, RetiringStays DEF Covers
  <2>6. ReadsCovered(p, k)'
    <3>1. SUFFICES ASSUME NEW r \in AllQueues, NEW i \in Nat, Reading(r, i, p)'
                   PROVE  r = Private /\ ReadCovered(i, p, k)'
      BY DEF ReadsCovered
    <3>2. CASE Reading(r, i, p)
      <4>1. r = Private /\ ReadCovered(i, p, k)  BY <2>1, <3>2 DEF Covers, ReadsCovered
      <4>2. \A value : SignalBehind(Private, i, value) => SignalBehind(Private, i, value)'
        BY <1>1, <1>2, <4>1, BehindStays
      <4>3. SignalBehind(Private, i, worker.value) => SignalBehind(Private, i, worker.value)'
        BY <4>2 DEF SignalBehind
      <4>4. QED  BY <1>1, <4>1, <4>2, <4>3 DEF ReadCovered
    <3>3. CASE r = q /\ tx.by = Private /\ p \in worker.pending
      BY <1>1, <3>3, SubmissionAssumption DEF Handled, Typed, Placed, ReadCovered
    <3>4. QED  BY <1>2, <3>1, <3>2, <3>3
  <2>7. Covers(p, k)'  BY <2>3, <2>4, <2>5, <2>6 DEF Covers
  <2>8. QED
    BY <1>5, <2>7 DEF Covers, WritesCovered, Enough, LastSignalled, OfOrder, Retiring, AllRan,
                      FenceBehind, ReadsCovered, ReadCovered
<1>8. QED  BY <1>6, <1>7

LEMMA ForwardLeases == ASSUME Sound, Typed', Leased, Forward PROVE LeaseStep
<1>1. /\ Typed /\ tx.at = "ordered" /\ tx' = [tx EXCEPT !.at = "forwarded"] /\ tx \in TxTypes
      /\ UNCHANGED <<packet, list, device, deferred, worker, gate, fence, past>>
      /\ Listed /\ Handled /\ Outcast /\ OwnSignal /\ Covering /\ worker \in WorkerTypes
  BY TypeParts DEF Sound, Leased, Typed, Forward
<1>2. PICK q \in AllQueues : q = tx.queue  BY <1>1 DEF Typed, Placed, AllQueues
<1>3. PICK kind \in {"write", "read"}, S \in SUBSET Packets :
        /\ gpu' = [gpu EXCEPT ![q] = Executed(q, kind, S)]
        /\ kind = "write" => S = tx.packets
        /\ kind = "read" => S = worker.pending /\ tx.by = Private
  <2>1. CASE tx.by = Private
    BY <1>1, <1>2, <2>1, SubmissionAssumption DEF Typed, Placed, WorkerTypes, Forward
  <2>2. CASE tx.by # Private  BY <1>2, <2>2, <1>1 DEF Forward, TxTypes
  <2>3. QED  BY <2>1, <2>2
<1>4. /\ tx'.at = "forwarded" /\ tx'.queue = tx.queue /\ tx'.by = tx.by /\ tx'.value = tx.value
      /\ tx'.packets = tx.packets /\ tx'.tails = tx.tails /\ tx.tails = {}
  BY <1>1 DEF TxTypes, Listed
<1>5. /\ Listed' /\ Handled' /\ Outcast'
      /\ \A p : Trusted(p)' <=> Trusted(p)
  <2>1. \A p \in Packets : Stays(p, packet'[p])  BY <1>1 DEF Stays
  <2>2. Listed'  BY <1>1, <1>4, <2>1, ListedStays DEF Listed
  <2>3. Handled'  BY <1>1, <1>4 DEF Handled
  <2>4. \A p : (Trusted(p)' <=> Trusted(p)) /\ (Kept(p)' <=> Kept(p))
    BY <1>1 DEF Trusted, Kept, Doomed
  <2>5. Outcast'  BY <1>1, <2>4 DEF Outcast
  <2>6. QED  BY <2>2, <2>3, <2>4, <2>5
<1>6. CASE gpu' = gpu
  <2>1. ASSUME NEW p \in Packets PROVE SlotGoes(p) /\ (Kept(p)' => Covers(p, packet[p])')
    <3>1. Moves(p, packet[p])  BY <1>1, <1>4, <1>6, NothingNew, MovesAlong DEF InReceipt
    <3>2. (Trusted(p)' => Trusted(p)) /\ (Kept(p)' => Kept(p))  BY <1>1, <1>5 DEF Kept, Doomed
    <3>3. QED  BY <1>1, <1>6, <3>1, <3>2, NothingNew, StillStep
  <2>2. OwnSignal'  BY <1>1, <1>4, <1>6, NothingNew, OwnStays
  <2>3. QED  BY <1>5, <2>1, <2>2 DEF LeaseStep, Leased, Covering
<1>7. ASSUME NEW op \in Operation, op.kind = kind, op.packets = S,
             gpu' = [gpu EXCEPT ![q] = Append(gpu[q], op)]
      PROVE  LeaseStep
  <2>1. PICK n \in Nat : Added(q, n, op)  BY <1>1, <1>7, OneMoreIs
  <2>2. \A p \in Packets : SlotGoes(p) /\ (Kept(p)' => Covers(p, packet[p])')
    BY <1>1, <1>2, <1>3, <1>7, <2>1, ForwardCovers DEF InReceipt
  <2>3. OwnSignal'  BY <1>1, <1>4, <2>1, OwnStays DEF Added
  <2>4. QED  BY <1>5, <2>2, <2>3 DEF LeaseStep, Leased, Covering
<1>8. Queued(q, kind, S)  BY <1>1, <1>3, ExecutedIs
<1>9. QED  BY <1>6, <1>7, <1>8 DEF Queued

(* Tails and the receipt's Signal. *)

\* The lists alone.
LEMMA TailsOf ==
  ASSUME Typed, NEW q \in AllQueues, NEW S \in SUBSET Packets
  PROVE  \E s \in Seq(Operation) :
            /\ s = Executed(q, "write", S) /\ Len(gpu[q]) <= Len(s) /\ Len(s) \in Nat
            /\ \A i \in 1..Len(gpu[q]) : s[i] = gpu[q][i]
            /\ \A i \in Nat : i \in 1..Len(s) =>
                  i \in 1..Len(gpu[q]) \/ (s[i].kind = "write" /\ s[i].packets = S)
<1>1. gpu \in GpuTypes /\ gpu[q] \in Seq(Operation) /\ Len(gpu[q]) \in Nat
  BY TypeParts, OpOf DEF Typed, GpuTypes
<1>2. CASE S = {}
  <2>1. PICK s \in Seq(Operation) : s = gpu[q]  BY <1>1
  <2>2. s = Executed(q, "write", S)  BY <1>2, <2>1 DEF Executed
  <2>3. QED  BY <1>1, <2>1, <2>2
<1>3. CASE S # {}
  <2>1. PICK op \in Operation : /\ op = Op("write", S, 0, Null) /\ op.kind = "write"
                                /\ op.packets = S
    BY Numbers, OpTypes
  <2>2. PICK s \in Seq(Operation) : s = Append(gpu[q], op)
    <3>1. Append(gpu[q], op) \in Seq(Operation)  BY <1>1
    <3>2. QED  BY <3>1, Zenon
  <2>3. s = Executed(q, "write", S)
    <3>1. Executed(q, "write", S) = Append(gpu[q], Op("write", S, 0, Null))
      BY <1>3, Zenon DEF Executed
    <3>2. QED  BY <2>1, <2>2, <3>1, Zenon
  <2>4. /\ Len(s) = Len(gpu[q]) + 1 /\ s[Len(gpu[q]) + 1] = op
        /\ \A i \in 1..Len(gpu[q]) : s[i] = gpu[q][i]
    BY <1>1, <2>2, AppendProperties
  <2>5. \A i \in Nat : i \in 1..Len(s) => i \in 1..Len(gpu[q]) \/ i = Len(gpu[q]) + 1  BY <1>1, <2>4
  <2>6. /\ Len(gpu[q]) <= Len(s) /\ Len(s) \in Nat
        /\ \A i \in Nat : i \in 1..Len(s) =>
              i \in 1..Len(gpu[q]) \/ (s[i].kind = "write" /\ s[i].packets = S)
    BY <1>1, <2>1, <2>4, <2>5
  <2>7. QED  BY <2>3, <2>4, <2>6
<1>4. QED  BY <1>2, <1>3

LEMMA SignalAdds ==
  ASSUME Typed, Typed', NEW success \in BOOLEAN, Signal(success), NEW q \in AllQueues,
         q = tx.queue
  PROVE  \E n \in Nat : SignalAdded(q, n, success)
<1>1. gpu \in GpuTypes /\ tx.tails \in SUBSET Packets /\ tx.value \in Receipts
      /\ tx.by \in Lists \cup {Private, Null} /\ tx.at = "recorded"
  BY TypeParts DEF Typed, TxTypes, Signal
<1>2. PICK s \in Seq(Operation) :
            /\ s = Executed(q, "write", tx.tails) /\ Len(gpu[q]) <= Len(s) /\ Len(s) \in Nat
            /\ \A i \in 1..Len(gpu[q]) : s[i] = gpu[q][i]
            /\ \A i \in Nat : i \in 1..Len(s) =>
                  i \in 1..Len(gpu[q]) \/ (s[i].kind = "write" /\ s[i].packets = tx.tails)
  BY <1>1, TailsOf
<1>3. PICK op \in Operation : /\ op = Op("signal", {}, tx.value, tx.by) /\ op.kind = "signal"
                              /\ op.value = tx.value /\ op.packets = {}
  BY <1>1, OpTypes
<1>4. gpu' = [gpu EXCEPT ![q] = s \o IF success THEN <<op>> ELSE << >>]  BY <1>2, <1>3 DEF Signal
<1>5. PICK n \in Nat : n = Len(s) + 1  BY <1>2
<1>6. /\ \A i \in 1..Len(s) : gpu'[q][i] = s[i]
      /\ Len(gpu'[q]) = IF success THEN n ELSE Len(s)
      /\ success => gpu'[q][n] = op
  <2>1. CASE success  BY <1>1, <1>4, <2>1, <1>5, AppendProperties DEF GpuTypes
  <2>2. CASE ~success  BY <1>1, <1>4, <2>2 DEF GpuTypes
  <2>3. QED  BY <2>1, <2>2
<1>7. \A r \in AllQueues \ {q} : gpu'[r] = gpu[r] /\ Len(gpu[r]) \in Nat
  BY <1>1, <1>4, OpOf DEF GpuTypes
<1>8. Len(gpu[q]) \in Nat /\ \A i \in 1..Len(gpu[q]) : i \in 1..Len(s)  BY <1>2, OpOf
<1>9. Longer
  <2>1. Len(gpu[q]) <= Len(gpu'[q])  BY <1>2, <1>5, <1>6, <1>8
  <2>2. \A i \in 1..Len(gpu[q]) : gpu'[q][i] = gpu[q][i]  BY <1>2, <1>6, <1>8
  <2>3. QED  BY <1>7, <2>1, <2>2 DEF Longer
<1>10. ASSUME NEW r \in AllQueues, NEW i \in Nat, i \in 1..Len(gpu'[r])
       PROVE  \/ i \in 1..Len(gpu[r]) /\ gpu'[r][i] = gpu[r][i]
              \/ r = q /\ i < n /\ gpu'[r][i].kind = "write" /\ gpu'[r][i].packets = tx.tails
              \/ r = q /\ success /\ i = n
  <2>1. CASE r # q  BY <1>7, <1>10, <2>1
  <2>2. CASE r = q /\ i \in 1..Len(s)
    <3>1. gpu'[q][i] = s[i] /\ i < n  BY <1>2, <1>5, <1>6, <2>2
    <3>2. CASE i \in 1..Len(gpu[q])  BY <1>2, <2>2, <3>1, <3>2
    <3>3. CASE s[i].kind = "write" /\ s[i].packets = tx.tails  BY <2>2, <3>1, <3>3
    <3>4. QED  BY <1>2, <2>2, <3>2, <3>3
  <2>3. CASE r = q /\ i \notin 1..Len(s)  BY <1>2, <1>5, <1>6, <1>10, <2>3
  <2>4. QED  BY <2>1, <2>2, <2>3
<1>11. ASSUME NEW kind, NEW p, NEW r \in AllQueues, NEW i \in Nat, Carries(kind, r, i, p)'
       PROVE  /\ Carries(kind, r, i, p) \/ (r = q /\ kind = "write" /\ p \in tx.tails)
              /\ r = q /\ success => i < n
  <2>1. i \in 1..Len(gpu'[r]) /\ gpu'[r][i].kind = kind /\ p \in gpu'[r][i].packets
    BY <1>11 DEF Carries
  <2>2. CASE i \in 1..Len(gpu[r]) /\ gpu'[r][i] = gpu[r][i]
    BY <1>2, <1>5, <1>8, <2>2, <2>1 DEF Carries
  <2>3. CASE r = q /\ i < n /\ gpu'[r][i].kind = "write" /\ gpu'[r][i].packets = tx.tails
    BY <2>1, <2>3
  <2>4. CASE r = q /\ success /\ i = n  BY <1>3, <1>6, <2>1, <2>4
  <2>5. QED  BY <1>10, <2>1, <2>2, <2>3, <2>4
<1>12. ASSUME NEW r \in AllQueues, NEW j \in Nat, Signalling(r, j)'
       PROVE  Signalling(r, j) \/ (success /\ r = q /\ j = n)
  BY <1>12, <1>10 DEF Signalling
<1>13. success => Signalling(q, n)' /\ gpu'[q][n].value = tx.value
  BY <1>2, <1>5, <1>6, <1>3 DEF Signalling
<1>14. SignalAdded(q, n, success)  BY <1>9, <1>11, <1>12, <1>13 DEF SignalAdded
<1>15. QED  BY <1>14

LEMMA SignalTells ==
  ASSUME Sound, Typed', Leased, NEW success \in BOOLEAN, Signal(success),
         NEW q \in AllQueues, q = tx.queue, NEW n \in Nat, SignalAdded(q, n, success),
         NEW p \in Packets
  PROVE  SlotGoes(p) /\ (Kept(p)' => Covers(p, packet[p])')
<1>1. /\ Typed /\ Listed /\ Handled /\ Covering /\ tx \in TxTypes /\ past \in PastTypes
      /\ tx.at = "recorded" /\ tx.value = device.last + 1 /\ device.last \in Nat
      /\ UNCHANGED <<packet, list, device, deferred, worker, gate, fence>>
  BY TypeParts, Times DEF Sound, Bounded, Leased, Typed, Signal
<1>2. /\ tx'.at = IF success THEN "signalled" ELSE "unsignalled"
      /\ tx'.queue = tx.queue /\ tx'.by = tx.by /\ tx'.value = tx.value
      /\ tx'.packets = tx.packets /\ tx'.tails = tx.tails
      /\ InReceipt(p)' <=> InReceipt(p)
  BY <1>1 DEF Signal, TxTypes, InReceipt
<1>3. SameTrust  BY <1>1 DEF Signal, PastTypes, SameTrust
<1>4. (Trusted(p)' <=> Trusted(p)) /\ (Kept(p)' <=> Kept(p))  BY <1>1, <1>3, Trusts DEF Kept, Doomed
<1>5. PICK k \in Packet : k = packet[p] /\ k = packet'[p]  BY <1>1, PacketOf
<1>6. /\ InReceipt(p) => k.gpu = "recorded"
      /\ p \in tx.tails => InReceipt(p)
  BY <1>1, <1>5, ReceiptRecorded DEF InReceipt
<1>7. /\ Longer /\ NoNew("read", p)
      /\ \A r \in AllQueues : \A i \in Nat : Writing(r, i, p)' =>
            Writing(r, i, p) \/ (r = q /\ InReceipt(p))
      /\ success => \A i \in Nat : Writing(q, i, p)' => i < n
      /\ success => \A i \in Nat : Reading(q, i, p)' => i < n
  BY <1>6 DEF SignalAdded, NoNew, Writing, Reading
<1>8. SlotGoes(p)
  <2>1. PICK f : f = FrameOf(packet[p])  OBVIOUS
  <2>2. f = FrameOf(packet[p])' /\ (packet[p].gpu = "recorded" => f \in {"recorded", "lost"})
    BY <1>1, <2>1, FramesHad DEF FrameOf
  <2>3. NoReads(p)' <=> NoReads(p)  BY <1>1, <1>7, ReadsHold
  <2>4. NoWrites(p) /\ ~NoWrites(p)' => f \in {"recorded", "lost"}
    BY <1>5, <1>6, <1>7, <2>2 DEF NoWrites
  <2>5. QED  BY <1>1, <1>4, <2>1, <2>2, <2>3, <2>4, QueueSlot
<1>9. ASSUME Kept(p)' PROVE Covers(p, packet[p])'
  <2>1. Covers(p, k)  BY <1>1, <1>4, <1>5, <1>9 DEF Covering
  <2>2. \A value \in Nat : Enough(p, k, value) => Enough(p, k, value)'  BY <1>1 DEF Enough
  <2>3. WritesCovered(p, k)'
    <3>1. CASE success
      <4>1. InReceipt(p) =>
               /\ Signalling(q, n)' /\ Enough(p, k, gpu[q][n].value)'
               /\ \A i \in Nat : Writing(q, i, p)' => n > i
        BY <1>2, <1>7, <3>1 DEF SignalAdded, Enough
      <4>2. ASSUME NEW r \in AllQueues, NEW i \in Nat, Writing(r, i, p)'
            PROVE  \/ k.gpu \in {"recorded", "retiring"} /\ Here(r, p)'
                   \/ /\ k.gpu \in {"recorded", "retiring"}
                      /\ \E j \in Nat : /\ Signalling(r, j)' /\ j > i
                                        /\ Enough(p, k, gpu[r][j].value)'
                   \/ Writing(r, i, p) /\ ~Here(r, p)
        BY <1>6, <1>7, <4>1, <4>2 DEF Here
      <4>3. QED  BY <1>1, <1>7, <2>1, <2>2, <4>2, WritesGrow DEF Covers
    <3>2. CASE ~success
      <4>1. InReceipt(p) => Here(q, p)'  BY <1>2, <3>2 DEF Here
      <4>2. \A r \in AllQueues : Here(r, p) => r = q /\ InReceipt(p)  BY DEF Here
      <4>3. \A r \in AllQueues : \A i \in Nat : Writing(r, i, p)' =>
               \/ k.gpu \in {"recorded", "retiring"} /\ Here(r, p)'
               \/ Writing(r, i, p) /\ ~Here(r, p)
        BY <1>6, <1>7, <4>1, <4>2
      <4>4. QED  BY <1>1, <1>7, <2>1, <2>2, <4>3, WritesGrow DEF Covers
    <3>3. QED  BY <3>1, <3>2
  <2>4. LastSignalled(k)'  BY <1>1, <1>7, <2>1, LastStays DEF Covers
  <2>5. Retiring(p, k)'
    <3>1. CASE k.gpu = "retiring"
      <4>1. k.producer \in AllQueues /\ k.order < 2 * (device.last + 1) /\ NoNew("write", p)
        BY <1>6, <1>7, <2>1, <3>1 DEF Covers, Retiring, LastSignalled, NoNew, Writing
      <4>2. k.order \in Nat  BY Numbers DEF Packet
      <4>3. ASSUME NEW j \in Nat, Signalling(k.producer, j)', OfOrder(k, gpu'[k.producer][j].value)
            PROVE  Signalling(k.producer, j)
        <5>1. SUFFICES ASSUME success, k.producer = q, j = n PROVE FALSE
          BY <4>1, <4>3 DEF SignalAdded
        <5>2. gpu'[k.producer][j].value = device.last + 1  BY <1>1, <5>1 DEF SignalAdded
        <5>3. k.order = 2 * (device.last + 1) \/ k.order = 2 * (device.last + 1) + 1
          BY <4>3, <5>2 DEF OfOrder
        <5>4. QED  BY <1>1, <4>1, <4>2, <5>3
      <4>4. QED  BY <1>1, <1>7, <2>1, <4>1, <4>3, RetiringStays DEF Covers
    <3>2. CASE k.gpu # "retiring"  BY <3>2 DEF Retiring
    <3>3. QED  BY <3>1, <3>2
  <2>6. ReadsCovered(p, k)'
    <3>1. SUFFICES ASSUME NEW r \in AllQueues, NEW i \in Nat, Reading(r, i, p)'
                   PROVE  r = Private /\ ReadCovered(i, p, k)'
      BY DEF ReadsCovered
    <3>2. Reading(r, i, p)  BY <1>7, <3>1 DEF NoNew, Reading
    <3>3. r = Private /\ ReadCovered(i, p, k)  BY <2>1, <3>2 DEF Covers, ReadsCovered
    <3>4. \A value : SignalBehind(Private, i, value) => SignalBehind(Private, i, value)'
      BY <1>1, <1>7, <3>3, BehindStays
    <3>5. SignalBehind(Private, i, worker.value) => SignalBehind(Private, i, worker.value)'
      BY <1>1, <3>4 DEF SignalBehind
    <3>6. ASSUME tx'.by = Private, tx'.at = "signalled" PROVE SignalBehind(Private, i, tx.value)'
      <4>1. success /\ q = Private  BY <1>1, <1>2, <3>6, SubmissionAssumption DEF Typed, Placed
      <4>2. Signalling(q, n)' /\ n > i /\ gpu'[q][n].value <= tx'.value
        BY <1>1, <1>2, <1>7, <3>1, <3>3, <4>1 DEF SignalAdded
      <4>3. QED  BY <4>1, <4>2 DEF SignalBehind
    <3>7. QED  BY <1>1, <3>3, <3>4, <3>5, <3>6 DEF ReadCovered
  <2>7. Covers(p, k)'  BY <2>3, <2>4, <2>5, <2>6 DEF Covers
  <2>8. QED
    BY <1>5, <2>7 DEF Covers, WritesCovered, Enough, LastSignalled, OfOrder, Retiring, AllRan,
                      FenceBehind, ReadsCovered, ReadCovered
<1>10. QED  BY <1>8, <1>9

LEMMA SignalLeases ==
  ASSUME Sound, Typed', Leased, NEW success \in BOOLEAN, Signal(success) PROVE LeaseStep
<1>1. /\ Typed /\ Listed /\ Handled /\ Outcast /\ OwnSignal /\ tx \in TxTypes
      /\ past \in PastTypes /\ tx.at = "recorded"
      /\ UNCHANGED <<packet, list, device, deferred, worker, gate, fence>>
  BY TypeParts DEF Sound, Leased, Typed, Signal
<1>2. PICK q \in AllQueues : q = tx.queue  BY <1>1 DEF Typed, Placed, AllQueues
<1>3. PICK n \in Nat : SignalAdded(q, n, success)  BY <1>1, <1>2, SignalAdds
<1>4. /\ tx'.at = IF success THEN "signalled" ELSE "unsignalled"
      /\ tx'.queue = tx.queue /\ tx'.by = tx.by /\ tx'.value = tx.value
      /\ tx'.packets = tx.packets /\ tx'.tails = tx.tails
  BY <1>1 DEF Signal, TxTypes
<1>5. SameTrust  BY <1>1 DEF Signal, PastTypes, SameTrust
<1>6. Listed'  BY <1>1, <1>4, ListedStays DEF Stays, Listed
<1>7. Handled' /\ Outcast'  BY <1>1, <1>5, Trusts, <1>4 DEF Kept, Doomed, Handled, Outcast
<1>8. OwnSignal'
  <2>1. CASE success  BY <1>2, <1>3, <1>4, <2>1 DEF SignalAdded, OwnSignal
  <2>2. CASE ~success  BY <1>4, <2>2 DEF OwnSignal
  <2>3. QED  BY <2>1, <2>2
<1>9. \A p \in Packets : SlotGoes(p) /\ (Kept(p)' => Covers(p, packet[p])')
  BY <1>2, <1>3, SignalTells
<1>10. QED  BY <1>6, <1>7, <1>8, <1>9 DEF LeaseStep, Leased, Covering

(* Holders of the mutex that settle what was deferred and change nothing else. *)

\* The receipt has queued nothing that it covers.
LEMMA MovesFrom ==
  ASSUME Typed, Typed', gpu' = gpu, fence' = fence, device'.last = device.last, NEW p, NEW k,
         tx.at \notin {"forwarded", "recorded", "signalled", "unsignalled"},
         tx'.at # "signalled", worker'.pending = worker.pending,
         worker.at # "idle" => worker'.at # "idle", worker'.at # "drawn" \/ worker' = worker
  PROVE  Moves(p, k)
<1>1. Longer /\ NoNew("write", p) /\ NoNew("read", p) /\ device.last <= device'.last
  BY SameLonger, Times
<1>2. \A q \in AllQueues : ~Here(q, p)  BY DEF Here
<1>3. \A value \in Nat : Enough(p, k, value) => Enough(p, k, value)'  BY DEF Enough
<1>4. QED  BY <1>1, <1>2, <1>3 DEF Moves

LEMMA HolderGoes ==
  ASSUME Sound, Typed', Leased, fence' = fence, SameTrust, SettleMarks,
         \A p \in Packets : \E c \in Packet :
            packet'[p] = c /\ Settles(p, c) /\ Stays(p, c) /\ Moves(p, c),
         device'.failed => \/ Failing
                           \/ \A p \in Packets : packet'[p].gpu # "idle" => packet'[p].quarantined,
         \A l \in Lists : list'[l].packets = list[l].packets,
         \A l \in Lists : list'[l].at = "unordered" =>
            \/ list[l].at = "unordered"
            \/ \A p \in list[l].packets : packet'[p].quarantined,
         tx'.tails \subseteq tx.tails,
         tx'.tails # {} =>
            tx'.by \in Lists /\ tx'.at \in {"recorded", "signalled", "unsignalled"},
         tx'.packets = IF tx'.by \in Lists THEN list[tx'.by].packets ELSE {},
         tx'.by = Private => worker'.at = "held",
         worker'.pending = worker.pending, worker'.pending \cap worker'.incoming = {},
         \A p \in worker'.incoming \ worker.incoming : p \in Packets /\ packet'[p].leased,
         tx'.at = "signalled" => tx.at = "signalled" /\ tx'.queue = tx.queue /\ tx'.value = tx.value,
         Longer
  PROVE  LeaseStep
<1>1. /\ Typed /\ Listed /\ Handled /\ Outcast /\ OwnSignal /\ Covering /\ worker \in WorkerTypes
      /\ \A l \in Lists : list[l].packets \subseteq Packets
  BY TypeParts DEF Sound, Leased, Typed, ListTypes
<1>2. \A p \in Packets : SlotGoes(p) /\ (Kept(p)' => Covers(p, packet[p])')
  <2>1. SUFFICES ASSUME NEW p \in Packets
                 PROVE  SlotGoes(p) /\ (Kept(p)' => Covers(p, packet[p])')
    OBVIOUS
  <2>2. PICK c \in Packet : packet'[p] = c /\ Settles(p, c) /\ Stays(p, c) /\ Moves(p, c)  OBVIOUS
  <2>3. QED  BY <1>1, <2>2, HolderStep DEF Settles
<1>3. ASSUME NEW p \in Packets
      PROVE  /\ Stays(p, packet'[p])
             /\ packet'[p].gpu = "idle" => packet'[p] = Idle
             /\ packet'[p].leased <=> packet'[p].gpu = "ready"
             /\ packet[p].leased => packet'[p].leased
             /\ Failing => packet'[p].gpu = "idle" \/ packet'[p].quarantined
  BY DEF Settles
<1>4. Listed'  BY <1>1, <1>3, ListedStays
<1>5. Handled'  BY <1>1, <1>3 DEF WorkerTypes, Handled
<1>6. Outcast'
  <2>1. device'.failed => \A p \in Packets : packet'[p].gpu # "idle" => packet'[p].quarantined
    BY <1>3
  <2>2. ASSUME NEW l \in Lists, list'[l].at = "unordered", NEW p \in list[l].packets
        PROVE  ~Kept(p)'
    <3>1. PICK c \in Packet : packet'[p] = c /\ Settles(p, c) /\ Stays(p, c)  BY <1>1, <2>2
    <3>2. CASE list[l].at = "unordered"  BY <1>1, <2>2, <3>1, <3>2, OutcastSettles
    <3>3. CASE packet'[p].quarantined  BY <3>3 DEF Kept, Doomed
    <3>4. QED  BY <2>2, <3>2, <3>3
  <2>3. QED  BY <1>3, <2>1, <2>2 DEF Outcast
<1>7. OwnSignal'  BY <1>1, OwnStays DEF SameTrust
<1>8. QED  BY <1>2, <1>4, <1>5, <1>6, <1>7 DEF LeaseStep, Leased, Covering

LEMMA HolderLeases ==
  ASSUME Sound, Typed', Leased, fence' = fence, SameTrust, SettleMarks,
         \A p \in Packets : \E c \in Packet :
            packet'[p] = c /\ Settles(p, c) /\ Stays(p, c) /\ Moves(p, c),
         device'.failed => \/ Failing
                           \/ \A p \in Packets : packet'[p].gpu # "idle" => packet'[p].quarantined,
         \A l \in Lists : list'[l].packets = list[l].packets,
         \A l \in Lists : list'[l].at = "unordered" =>
            \/ list[l].at = "unordered"
            \/ \A p \in list[l].packets : packet'[p].quarantined,
         tx'.tails \subseteq tx.tails,
         tx'.tails # {} =>
            tx'.by \in Lists /\ tx'.at \in {"recorded", "signalled", "unsignalled"},
         tx'.packets = IF tx'.by \in Lists THEN list[tx'.by].packets ELSE {},
         tx'.by = Private => worker'.at = "held",
         worker'.pending = worker.pending, worker'.incoming = worker.incoming,
         tx'.at = "signalled" => tx.at = "signalled" /\ tx'.queue = tx.queue /\ tx'.value = tx.value,
         Longer
  PROVE  LeaseStep
BY HolderGoes DEF Leased, Handled

LEMMA SettleDeviceIs ==
  ASSUME Typed, SettleDevice PROVE device'.last = device.last /\ (device'.failed <=> Failing)
<1>1. device \in DeviceTypes  BY TypeParts DEF Typed
<1>2. PICK b \in BOOLEAN : b = Failing  BY DEF Failing
<1>3. device' = [device EXCEPT !.failed = b]  BY <1>2 DEF SettleDevice
<1>4. QED  BY <1>1, <1>2, <1>3 DEF DeviceTypes

LEMMA TroubledTrust ==
  ASSUME Typed, NEW S, past' = past \/ Troubled(S, past) PROVE SameTrust
<1>1. past \in PastTypes  BY TypeParts DEF Typed
<1>2. QED  BY <1>1 DEF Troubled, SameTrust, PastTypes

LEMMA BeginTransactionIs ==
  ASSUME NEW by, NEW q, NEW S, begin_transaction(by, q, S)
  PROVE  tx'.at = "reserved" /\ tx'.by = by /\ tx'.tails = {} /\ tx'.packets = S
BY DEF begin_transaction

LEMMA ReserveLeases ==
  ASSUME Sound, Typed', Ordered, Leased, NEW l \in Lists, Reserve(l) PROVE LeaseStep
<1>1. /\ Typed /\ Listed /\ tx.by = Null /\ packet' = Settled /\ SettleMarks /\ SettleDevice
      /\ UNCHANGED <<worker, gate, fence, gpu>>
  BY DEF Sound, Leased, Reserve
<1>2. tx.at = "none" /\ tx.tails = {} /\ tx.packets = {} /\ Private \notin Lists
  BY <1>1, NoneOpen, SubmissionAssumption
<1>3. device'.last = device.last /\ (device'.failed <=> Failing)  BY <1>1, SettleDeviceIs
<1>4. SameTrust  BY <1>1, TroubledTrust DEF Reserve
<1>5. \/ /\ tx' = tx /\ Stage(l, "unordered")
         /\ Failing \/ list[l].packets = {}
      \/ Stage(l, "held") /\ begin_transaction(l, list[l].queue, list[l].packets)
  BY DEF Reserve
<1>6. \A m \in Lists : list'[m].packets = list[m].packets /\
                       (list'[m].at = "unordered" =>
                          \/ list[m].at = "unordered"
                          \/ m = l /\ Failing
                          \/ list[m].packets = {})
  BY <1>1, <1>5, StageLists
<1>7. /\ tx'.at \in {"none", "reserved"} /\ tx'.tails = {} /\ tx'.by # Private
      /\ tx'.packets = IF tx'.by \in Lists THEN list[tx'.by].packets ELSE {}
  <2>1. CASE tx' = tx  BY <1>1, <1>2, <2>1, SubmissionAssumption
  <2>2. CASE begin_transaction(l, list[l].queue, list[l].packets)  BY <1>2, <2>2, BeginTransactionIs
  <2>3. QED  BY <1>5, <2>1, <2>2
<1>8. ASSUME NEW p \in Packets
      PROVE  \E c \in Packet : packet'[p] = c /\ Settles(p, c) /\ Stays(p, c) /\ Moves(p, c)
  <2>1. PICK c \in Packet : c = Settled[p] /\ Settles(p, c) /\ Stays(p, c)  BY <1>1, SettleSettles
  <2>2. Moves(p, c)  BY <1>1, <1>2, <1>3, <1>7, MovesFrom
  <2>3. QED  BY <1>1, <2>1, <2>2
<1>9. ASSUME NEW m \in Lists, list'[m].at = "unordered", list[m].at # "unordered",
             NEW p \in list[m].packets
      PROVE  packet'[p].quarantined
  <2>1. p \in Packets /\ packet[p].gpu = "recorded" /\ ~packet[p].retired /\ Failing
    BY <1>1, <1>6, <1>9, TypeParts DEF Typed, ListTypes, Listed
  <2>2. PICK c \in Packet : packet'[p] = c /\ Settles(p, c) /\ Stays(p, c)  BY <1>8, <2>1
  <2>3. QED  BY <2>1, <2>2 DEF Settles, Stays
<1>10. Longer  BY <1>1, NothingNew
<1>11. QED  BY <1>1, <1>3, <1>4, <1>6, <1>7, <1>8, <1>9, <1>10, HolderLeases

LEMMA FailWaitLeases == ASSUME Sound, Typed', Ordered, Leased, FailWait PROVE LeaseStep
<1>1. /\ Typed /\ Listed /\ tx.at = "reserved" /\ packet' = fail_device(Settled) /\ SettleMarks
      /\ tx' = NoReceipt /\ UNCHANGED <<gate, fence, gpu>> /\ past \in PastTypes
      /\ device' = [device EXCEPT !.failed = TRUE] /\ device \in DeviceTypes
      /\ worker \in WorkerTypes
  BY TypeParts DEF Sound, Leased, FailWait, Typed
<1>2. device'.last = device.last  BY <1>1 DEF DeviceTypes
<1>3. SameTrust  BY <1>1 DEF FailWait, SameTrust, PastTypes
<1>4. /\ tx'.at = "none" /\ tx'.tails = {} /\ tx'.by = Null /\ tx'.packets = {}
      /\ Null \notin Lists /\ Null # Private
  BY <1>1, SubmissionAssumption DEF NoReceipt
<1>5. /\ worker'.pending = worker.pending /\ worker'.incoming = worker.incoming
      /\ worker' = worker \/ worker'.at = "failed"
  BY <1>1 DEF FailWait, WorkerTypes
<1>6. \A m \in Lists : list'[m].packets = list[m].packets
  <2>1. CASE tx.by = Private  BY <2>1 DEF FailWait
  <2>2. CASE tx.by # Private  BY <1>1, <2>2, StageLists DEF FailWait, Typed, Placed
  <2>3. QED  BY <2>1, <2>2
<1>7. ASSUME NEW p \in Packets
      PROVE  \E c \in Packet : /\ packet'[p] = c /\ Settles(p, c) /\ Stays(p, c) /\ Moves(p, c)
                               /\ c.gpu = "idle" \/ c.quarantined
  <2>1. PICK c \in Packet : /\ c = Quarantine(Settled, Packets)[p] /\ Settles(p, c) /\ Stays(p, c)
                            /\ p \in Packets => c.gpu = "idle" \/ c.quarantined
    BY <1>1, QuarantineSettles
  <2>2. Moves(p, c)  BY <1>1, <1>2, <1>4, <1>5, MovesFrom
  <2>3. QED  BY <1>1, <2>1, <2>2 DEF fail_device
<1>8. ASSUME NEW m \in Lists, NEW p \in list[m].packets PROVE packet'[p].quarantined
  <2>1. p \in Packets /\ packet[p].gpu = "recorded" /\ ~packet[p].retired
    BY <1>1, TypeParts DEF Typed, ListTypes, Listed
  <2>2. PICK c \in Packet : packet'[p] = c /\ Stays(p, c) /\ (c.gpu = "idle" \/ c.quarantined)
    BY <1>7, <2>1
  <2>3. QED  BY <2>1, <2>2 DEF Stays
<1>9. \A p \in Packets : packet'[p].gpu # "idle" => packet'[p].quarantined  BY <1>7
<1>10. Longer  BY <1>1, NothingNew
<1>11. QED  BY <1>1, <1>3, <1>4, <1>5, <1>6, <1>7, <1>8, <1>9, <1>10, HolderLeases

LEMMA DrawLeases == ASSUME Sound, Typed', Ordered, Leased, Draw PROVE LeaseStep
<1>1. /\ Typed /\ Listed /\ tx.by = Null /\ packet' = Settled /\ SettleMarks /\ SettleDevice
      /\ UNCHANGED <<list, gate, fence, gpu, past>> /\ worker.at = "idle"
      /\ worker \in WorkerTypes
  BY TypeParts DEF Sound, Leased, Draw, Typed
<1>2. /\ tx.at = "none" /\ tx.tails = {} /\ tx.packets = {}
      /\ Private \notin Lists /\ Null \notin Lists /\ Null # Private
  BY <1>1, NoneOpen, SubmissionAssumption
<1>3. device'.last = device.last /\ (device'.failed <=> Failing)  BY <1>1, SettleDeviceIs
<1>4. SameTrust  BY <1>1 DEF SameTrust
<1>5. /\ worker'.pending = worker.pending /\ worker'.incoming = worker.incoming
      /\ \/ worker'.at = "failed" /\ tx' = tx
         \/ worker'.at = "held" /\ begin_transaction(Private, Private, {})
  BY <1>1 DEF Draw, WorkerTypes
<1>6. /\ tx'.at \in {"none", "reserved"} /\ tx'.tails = {} /\ tx'.packets = {}
      /\ tx'.by \notin Lists /\ (tx'.by = Private => worker'.at = "held")
  <2>1. CASE worker'.at = "failed" /\ tx' = tx  BY <1>1, <1>2, <2>1
  <2>2. CASE worker'.at = "held" /\ begin_transaction(Private, Private, {})
    BY <2>2, BeginTransactionIs, <1>2
  <2>3. QED  BY <1>5, <2>1, <2>2
<1>7. ASSUME NEW p \in Packets
      PROVE  \E c \in Packet : packet'[p] = c /\ Settles(p, c) /\ Stays(p, c) /\ Moves(p, c)
  <2>1. PICK c \in Packet : c = Settled[p] /\ Settles(p, c) /\ Stays(p, c)  BY <1>1, SettleSettles
  <2>2. Moves(p, c)  BY <1>1, <1>2, <1>3, <1>5, <1>6, MovesFrom
  <2>3. QED  BY <1>1, <2>1, <2>2
<1>8. Longer  BY <1>1, NothingNew
<1>9. QED  BY <1>1, <1>3, <1>4, <1>5, <1>6, <1>7, <1>8, HolderLeases

(* The worker's own steps. *)

LEMMA HandedUnwritten ==
  ASSUME Typed, Safe, NEW p \in Packets, Trusted(p), FrameOf(packet[p]) = "handed"
  PROVE  NoWrites(p)
<1>1. PICK s : s = SlotOf(p) /\ SlotIs(p, s)  BY SlotHas
<1>2. Undisturbed(s) /\ s.frame = "handed" /\ s.trusted  BY <1>1 DEF Safe, SlotIs
<1>3. QED  BY <1>1, <1>2 DEF Undisturbed, SlotIs

\* A packet that changes, or the worker does, without the manager's mutex.
LEMMA WorkerCovers ==
  ASSUME Typed, Typed', NEW p \in Packets, NEW k \in Packet, packet'[p] = k,
         UNCHANGED <<tx, device, deferred, fence, gpu>>, SameTrust,
         FrameGoes(p, FrameOf(packet[p]), FrameOf(k)),
         Kept(p)' => /\ WritesCovered(p, k) /\ LastSignalled(k) /\ Retiring(p, k)
                     /\ ReadsCovered(p, k)'
  PROVE  SlotGoes(p) /\ (Kept(p)' => Covers(p, packet[p])')
<1>1. SlotGoes(p)
  <2>1. PICK f : f = FrameOf(packet[p])  OBVIOUS
  <2>2. PICK g : g = FrameOf(k)  OBVIOUS
  <2>3. FrameGoes(p, f, g) /\ g = FrameOf(packet[p])'  BY <2>1, <2>2 DEF FrameOf
  <2>4. (NoWrites(p)' <=> NoWrites(p)) /\ (NoReads(p)' <=> NoReads(p))
    BY SameLonger, WritesHold, ReadsHold
  <2>5. Trusted(p)' <=> Trusted(p)  BY Trusts
  <2>6. QED  BY <2>1, <2>3, <2>4, <2>5, FrameSlot
<1>2. ASSUME Kept(p)' PROVE Covers(p, packet[p])'
  <2>1. /\ WritesCovered(p, k) /\ LastSignalled(k) /\ Retiring(p, k) /\ ReadsCovered(p, k)'  BY <1>2
  <2>2. WritesCovered(p, k)'
    BY <2>1 DEF WritesCovered, Writing, Carries, Here, Enough, InReceipt, Signalling
  <2>3. LastSignalled(k)'  BY <2>1 DEF LastSignalled, Signalling, OfOrder
  <2>4. Retiring(p, k)'
    BY <2>1 DEF Retiring, AllRan, FenceBehind, Writing, Finishing, Carries, Signalling, OfOrder
  <2>5. Covers(p, k)'  BY <2>1, <2>2, <2>3, <2>4 DEF Covers
  <2>6. QED
    BY <2>5 DEF Covers, WritesCovered, Enough, LastSignalled, OfOrder, Retiring, AllRan,
                FenceBehind, ReadsCovered, ReadCovered
<1>3. QED  BY <1>1, <1>2

\* A frame goes back: what is covered of it, and the frame.
LEMMA SpendCovers ==
  ASSUME Typed, Handled, Safe, NEW p \in Packets, packet[p].leased, ~packet[p].quarantined,
         NEW value \in Receipts
  PROVE  \E k \in Packet :
            /\ k = Spent(packet[p], value) /\ k.gpu = "consuming" /\ ~k.leased /\ k.until = value
            /\ ~k.quarantined /\ FrameGoes(p, FrameOf(packet[p]), FrameOf(k))
            /\ Covers(p, packet[p]) => WritesCovered(p, k) /\ LastSignalled(k) /\ Retiring(p, k)
<1>1. packet[p] \in Packet /\ packet[p].gpu = "ready"  BY PacketOf DEF Handled
<1>2. PICK k \in Packet : k = Spent(packet[p], value)  BY <1>1, SpentTypes
<1>3. /\ k.gpu = "consuming" /\ ~k.leased /\ k.until = value /\ ~k.quarantined
      /\ k.submitted = packet[p].submitted /\ k.producer = packet[p].producer
      /\ k.order = packet[p].order
  BY <1>1, <1>2 DEF Spent, Packet
<1>4. FrameGoes(p, FrameOf(packet[p]), FrameOf(k))
  BY <1>1, <1>3, FrameIs, HandedUnwritten DEF FrameGoes
<1>5. ASSUME Covers(p, packet[p]) PROVE WritesCovered(p, k) /\ LastSignalled(k) /\ Retiring(p, k)
  <2>1. WritesCovered(p, k)  BY <1>1, <1>5, NoCopies DEF WritesCovered
  <2>2. LastSignalled(k)  BY <1>3, <1>5 DEF Covers, LastSignalled, OfOrder
  <2>3. QED  BY <1>3, <2>1, <2>2 DEF Retiring
<1>6. QED  BY <1>2, <1>3, <1>4, <1>5

\* The worker holds no receipt: no reader of what it has is queued.
LEMMA IdleReads ==
  ASSUME Typed, Handled, worker.at = "idle", NEW p \in Packets, ReadsCovered(p, packet[p]),
         NEW k, k = packet[p] \/ packet[p].leased, gpu' = gpu,
         p \in worker'.pending => packet[p].leased
  PROVE  ReadsCovered(p, k)'
<1> SUFFICES ASSUME NEW q \in AllQueues, NEW i \in Nat, Reading(q, i, p)'
             PROVE  q = Private /\ ReadCovered(i, p, k)'
  BY DEF ReadsCovered
<1>1. Reading(q, i, p)  BY DEF Reading, Carries
<1>2. q = Private /\ packet[p].gpu = "consuming" /\ SignalBehind(Private, i, packet[p].until)
  BY <1>1 DEF ReadsCovered, ReadCovered
<1>3. ~packet[p].leased /\ k = packet[p]  BY <1>2 DEF Handled
<1>4. SignalBehind(Private, i, k.until)'  BY <1>2, <1>3 DEF SignalBehind, Signalling
<1>5. QED  BY <1>2, <1>3, <1>4 DEF ReadCovered

LEMMA SpendParts ==
  ASSUME Typed, Handled, Safe, NEW p \in Packets, NEW S, NEW value \in Receipts,
         Spends(p, S, value)
  PROVE  \E k \in Packet :
            /\ k = packet'[p] /\ FrameGoes(p, FrameOf(packet[p]), FrameOf(k))
            /\ k.quarantined = packet[p].quarantined
            /\ Covers(p, packet[p]) => WritesCovered(p, k) /\ LastSignalled(k) /\ Retiring(p, k)
            /\ \/ k = packet[p] /\ (p \notin S \/ ~packet[p].leased \/ packet[p].quarantined)
               \/ /\ packet[p].leased /\ p \in S
                  /\ k.gpu = "consuming" /\ ~k.leased /\ k.until = value
<1>1. packet[p] \in Packet  BY PacketOf
<1>2. CASE p \in S /\ packet[p].leased /\ ~packet[p].quarantined
  <2>1. PICK k \in Packet :
            /\ k = Spent(packet[p], value) /\ k.gpu = "consuming" /\ ~k.leased /\ k.until = value
            /\ ~k.quarantined /\ FrameGoes(p, FrameOf(packet[p]), FrameOf(k))
            /\ Covers(p, packet[p]) => WritesCovered(p, k) /\ LastSignalled(k) /\ Retiring(p, k)
    BY <1>2, SpendCovers
  <2>2. k.quarantined = packet[p].quarantined  BY <1>1, <1>2, <2>1 DEF Packet
  <2>3. k = packet'[p]  BY <1>2, <2>1 DEF Spends
  <2>4. QED  BY <1>2, <2>1, <2>2, <2>3
<1>3. CASE ~(p \in S /\ packet[p].leased /\ ~packet[p].quarantined)
  <2>1. PICK k \in Packet : k = packet[p]  BY <1>1
  <2>2. packet'[p] = k  BY <1>3, <2>1 DEF Spends
  <2>3. FrameGoes(p, FrameOf(packet[p]), FrameOf(k))  BY <2>1 DEF FrameGoes
  <2>4. QED  BY <1>3, <2>1, <2>2, <2>3 DEF Covers
<1>4. QED  BY <1>2, <1>3

\* The rest of the invariant, when the worker spends frames.
LEMMA SpendsLease ==
  ASSUME Sound, Typed', Leased, Safe, NEW S, NEW value \in Receipts,
         \A p \in Packets : Spends(p, S, value),
         UNCHANGED <<list, tx, device, deferred, gate, fence, gpu>>, SameTrust,
         worker'.pending \cup worker'.incoming \subseteq (worker.pending \cup worker.incoming) \ S,
         worker'.pending \cap worker'.incoming = {}, tx.by # Private,
         \A p \in Packets, k \in Packet :
            /\ ReadsCovered(p, packet[p])
            /\ \/ k = packet[p] /\ (p \notin S \/ ~packet[p].leased)
               \/ packet[p].leased /\ p \in S /\ k.gpu = "consuming" /\ k.until = value
            => ReadsCovered(p, k)'
  PROVE  LeaseStep
<1>1. /\ Typed /\ Listed /\ Handled /\ Outcast /\ OwnSignal /\ Covering
      /\ worker \in WorkerTypes
      /\ \A l \in Lists : list[l].packets \subseteq Packets
  BY TypeParts DEF Sound, Leased, Typed, ListTypes
<1>2. ASSUME NEW p \in Packets
      PROVE  /\ SlotGoes(p) /\ (Kept(p)' => Covers(p, packet[p])')
             /\ packet'[p].quarantined = packet[p].quarantined
             /\ \/ packet'[p] = packet[p]
                   /\ (p \notin S \/ ~packet[p].leased \/ packet[p].quarantined)
                \/ /\ packet[p].leased /\ p \in S
                   /\ packet'[p].gpu = "consuming" /\ ~packet'[p].leased
  <2>1. PICK k \in Packet :
            /\ k = packet'[p] /\ FrameGoes(p, FrameOf(packet[p]), FrameOf(k))
            /\ k.quarantined = packet[p].quarantined
            /\ Covers(p, packet[p]) => WritesCovered(p, k) /\ LastSignalled(k) /\ Retiring(p, k)
            /\ \/ k = packet[p] /\ (p \notin S \/ ~packet[p].leased \/ packet[p].quarantined)
               \/ /\ packet[p].leased /\ p \in S
                  /\ k.gpu = "consuming" /\ ~k.leased /\ k.until = value
    BY <1>1, <1>2, SpendParts
  <2>2. ASSUME Kept(p)'
        PROVE  /\ WritesCovered(p, k) /\ LastSignalled(k) /\ Retiring(p, k)
               /\ ReadsCovered(p, k)'
    <3>1. packet[p].leased => packet[p].gpu = "ready"  BY <1>1 DEF Handled
    <3>2. Kept(p) /\ ~packet[p].quarantined  BY <2>1, <2>2, Trusts, <3>1 DEF Kept, Doomed
    <3>3. Covers(p, packet[p])  BY <1>1, <3>2 DEF Covering
    <3>4. ReadsCovered(p, packet[p])  BY <3>3 DEF Covers
    <3>5. ReadsCovered(p, k)'  BY <2>1, <3>2, <3>4
    <3>6. QED  BY <2>1, <3>3, <3>5
  <2>3. SlotGoes(p) /\ (Kept(p)' => Covers(p, packet[p])')  BY <1>1, <2>1, <2>2, WorkerCovers
  <2>4. QED  BY <2>1, <2>3
<1>3. Listed'  BY <1>1, <1>2, ListedStays DEF Stays, Handled, Listed
<1>4. Handled'
  <2>1. \A p \in Packets : packet'[p].leased <=> packet'[p].gpu = "ready"  BY <1>1, <1>2 DEF Handled
  <2>2. ASSUME NEW p \in worker'.pending \cup worker'.incoming PROVE packet'[p].leased
    BY <2>2, <1>1, <1>2 DEF Handled, WorkerTypes
  <2>3. QED  BY <2>1, <2>2 DEF Handled
<1>5. Outcast'
  <2>1. \A p \in Packets : packet'[p].gpu = "idle" => packet'[p] = Idle  BY <1>1, <1>2 DEF Outcast
  <2>2. device'.failed => \A p \in Packets : packet'[p].gpu # "idle" => packet'[p].quarantined
    BY <1>1, <1>2 DEF Outcast, Handled
  <2>3. ASSUME NEW l \in Lists, list'[l].at = "unordered", NEW p \in list'[l].packets
        PROVE  ~Kept(p)'
    <3>1. p \in Packets /\ ~Kept(p) /\ packet[p].gpu = "recorded"  BY <1>1, <2>3 DEF Outcast, Listed
    <3>2. packet'[p] = packet[p]  BY <1>1, <1>2, <3>1 DEF Handled
    <3>3. QED  BY <3>1, <3>2, Trusts DEF Kept, Doomed
  <2>4. QED  BY <2>1, <2>2, <2>3 DEF Outcast
<1>6. OwnSignal'  BY <1>1, SameLonger, OwnStays DEF SameTrust
<1>7. QED  BY <1>2, <1>3, <1>4, <1>5, <1>6 DEF LeaseStep, Leased, Covering

LEMMA DiscardLeases ==
  ASSUME Sound, Typed', Leased, Safe, worker.at = "idle", NEW S, packet' = Discarded(S),
         UNCHANGED <<list, tx, device, deferred, gate, fence, gpu>>, SameTrust,
         worker'.pending \cup worker'.incoming \subseteq (worker.pending \cup worker.incoming) \ S,
         worker'.pending \cap worker'.incoming = {}
  PROVE  LeaseStep
<1>1. Typed /\ Handled /\ device \in DeviceTypes /\ tx.by # Private
  BY TypeParts DEF Sound, Leased, Typed, Handled
<1>2. PICK value \in Receipts : value = device.last  BY <1>1 DEF DeviceTypes
<1>3. ASSUME NEW p \in Packets PROVE Spends(p, S, value)  BY <1>2 DEF Spends, Discarded
<1>4. ASSUME NEW p \in Packets, NEW k \in Packet, ReadsCovered(p, packet[p]),
             k = packet[p] \/ packet[p].leased
      PROVE  ReadsCovered(p, k)'
  BY <1>1, <1>4, IdleReads DEF Handled
<1>5. QED  BY <1>1, <1>3, <1>4, SpendsLease

LEMMA TakeLeases ==
  ASSUME Sound, Typed', Leased, Safe, NEW p \in Packets, Take(p) PROVE LeaseStep
<1>1. /\ Typed /\ Handled /\ worker \in WorkerTypes /\ past \in PastTypes
      /\ worker.at = "idle" /\ p \in worker.incoming
      /\ UNCHANGED <<list, tx, device, deferred, gate, fence, gpu>>
      /\ worker.pending \cap worker.incoming = {}
  BY TypeParts DEF Sound, Leased, Typed, Handled, Take
<1>2. CASE packet' = Discarded({p}) /\ worker' = [worker EXCEPT !.incoming = @ \ {p}]
           /\ UNCHANGED past
  <2>1. worker'.pending = worker.pending /\ worker'.incoming = worker.incoming \ {p}
    BY <1>1, <1>2 DEF WorkerTypes
  <2>2. worker'.pending \cup worker'.incoming \subseteq (worker.pending \cup worker.incoming) \ {p}
    BY <1>1, <2>1
  <2>3. SameTrust  BY <1>2 DEF SameTrust
  <2>4. QED  BY <1>1, <1>2, <2>1, <2>2, <2>3, DiscardLeases
<1>3. CASE /\ packet' = Discarded(worker.pending)
           /\ worker' = [worker EXCEPT !.incoming = @ \ {p}, !.pending = {p},
                                       !.newest = packet[p].order]
           /\ past' = [past EXCEPT !.outdated = @ \cup
                                        IF Trusted(p) THEN Outdated(p) ELSE {}]
  <2>1. worker'.pending = {p} /\ worker'.incoming = worker.incoming \ {p}
    BY <1>1, <1>3 DEF WorkerTypes
  <2>2. worker'.pending \cup worker'.incoming
           \subseteq (worker.pending \cup worker.incoming) \ worker.pending
    BY <1>1, <2>1
  <2>3. SameTrust  BY <1>1, <1>3 DEF SameTrust, PastTypes
  <2>4. QED  BY <1>1, <1>3, <2>1, <2>2, <2>3, DiscardLeases
<1>4. QED  BY <1>2, <1>3 DEF Take

LEMMA DropPendingLeases ==
  ASSUME Sound, Typed', Leased, Safe, DropPending PROVE LeaseStep
<1>1. /\ Typed /\ Handled /\ worker \in WorkerTypes /\ worker.at = "idle"
      /\ packet' = Discarded(worker.pending)
      /\ worker' = [worker EXCEPT !.pending = {}]
      /\ UNCHANGED <<list, tx, device, deferred, gate, fence, gpu, past>>
      /\ worker.pending \cap worker.incoming = {}
  BY TypeParts DEF Sound, Leased, Typed, Handled, DropPending
<1>2. worker'.pending = {} /\ worker'.incoming = worker.incoming  BY <1>1 DEF WorkerTypes
<1>3. /\ worker'.pending \cup worker'.incoming
            \subseteq (worker.pending \cup worker.incoming) \ worker.pending
      /\ SameTrust
  BY <1>1, <1>2 DEF SameTrust
<1>4. QED  BY <1>1, <1>2, <1>3, DiscardLeases

\* What was drawn is covered by the Signal of the reader's receipt.
LEMMA FinishConsumptionLeases ==
  ASSUME Sound, Typed', Leased, Safe, FinishConsumption PROVE LeaseStep
<1>1. /\ Typed /\ Handled /\ worker \in WorkerTypes /\ worker.at = "drawn"
      /\ worker' = [worker EXCEPT !.at = "idle", !.pending = {}, !.value = 0,
                                  !.page = @ \/ worker.pending = {}]
      /\ UNCHANGED <<list, tx, device, deferred, gate, fence, gpu, past>>
      /\ worker.pending \cap worker.incoming = {} /\ tx.by # Private
  BY TypeParts DEF Sound, Leased, Typed, Handled, FinishConsumption
<1>2. worker'.pending = {} /\ worker'.incoming = worker.incoming
  <2>1. PICK b \in BOOLEAN : b = (worker.page \/ worker.pending = {})  OBVIOUS
  <2>2. worker' = [worker EXCEPT !.at = "idle", !.pending = {}, !.value = 0, !.page = b]
    BY <1>1, <2>1
  <2>3. QED  BY <1>1, <2>2 DEF WorkerTypes
<1>3. PICK value \in Receipts : value = worker.value  BY <1>1 DEF WorkerTypes
<1>4. ASSUME NEW p \in Packets PROVE Spends(p, worker.pending, value)
  BY <1>3 DEF Spends, FinishConsumption, CoveredBy
<1>5. ASSUME NEW p \in Packets, NEW k \in Packet, ReadsCovered(p, packet[p]),
             \/ k = packet[p] /\ (p \notin worker.pending \/ ~packet[p].leased)
             \/ packet[p].leased /\ p \in worker.pending /\ k.gpu = "consuming" /\ k.until = value
      PROVE  ReadsCovered(p, k)'
  <2>1. SUFFICES ASSUME NEW q \in AllQueues, NEW i \in Nat, Reading(q, i, p)'
                 PROVE  q = Private /\ ReadCovered(i, p, k)'
    BY DEF ReadsCovered
  <2>2. Reading(q, i, p)  BY <1>1, <2>1 DEF Reading, Carries
  <2>3. q = Private /\ ReadCovered(i, p, packet[p])  BY <1>5, <2>2 DEF ReadsCovered
  <2>4. \A v : SignalBehind(Private, i, v)' <=> SignalBehind(Private, i, v)
    BY <1>1 DEF SignalBehind, Signalling
  <2>5. CASE p \in worker.pending
    <3>1. packet[p].leased /\ k.gpu = "consuming" /\ k.until = value
      BY <1>1, <1>5, <2>5 DEF Handled
    <3>2. SignalBehind(Private, i, worker.value)  BY <1>1, <2>3, <2>5 DEF ReadCovered
    <3>3. SignalBehind(Private, i, k.until)  BY <1>3, <3>1, <3>2
    <3>4. SignalBehind(Private, i, k.until)'  BY <2>4, <3>3
    <3>5. QED  BY <1>2, <2>3, <3>1, <3>4 DEF ReadCovered
  <2>6. CASE p \notin worker.pending  BY <1>5, <2>3, <2>6, <2>4, <1>2 DEF ReadCovered
  <2>7. QED  BY <2>5, <2>6
<1>6. /\ worker'.pending \cup worker'.incoming
            \subseteq (worker.pending \cup worker.incoming) \ worker.pending
      /\ worker'.pending \cap worker'.incoming = {} /\ SameTrust
  BY <1>1, <1>2 DEF SameTrust
<1>7. QED  BY <1>1, <1>4, <1>5, <1>6, SpendsLease

(* Holders of the mutex that record a copy into a packet that is free again. *)

LEMMA RecordParts ==
  ASSUME Sound, Typed', Ordered, Leased, gpu' = ProducerSignals(Settled, tx, gpu),
         fence' = fence, SameTrust, NEW p \in Packets, NEW k \in Packet, Records(p, k), Moves(p, k)
  PROVE  /\ SlotGoes(p) /\ (Kept(p)' => Covers(p, packet[p])')
         /\ ~packet[p].leased /\ p \notin tx.tails /\ \A l \in Lists : ~Holds(l, p)
<1>1. Typed /\ Listed /\ packet[p] \in Packet  BY LeasedParts DEF Sound
<1>2. PICK c \in Packet : c = Collected(Settled, tx, fence)[p] /\ Settles(p, c) /\ Stays(p, c)
  BY CollectSettles
<1>3. c.gpu = "idle"  BY <1>2 DEF Records, Available
<1>4. c = Idle /\ ~Idle.leased /\ (Trusted(p) => Untouched(p))  BY <1>2, <1>3 DEF Settles, Idle
<1>5. FrameGoes(p, FrameOf(packet[p]), FrameOf(k))
  BY <1>3, FrameIs, <1>2, <1>4 DEF Records, Settles, FrameGoes
<1>6. Trusted(p) => CoversAfter(p, k)  BY <1>4, FreshCoversAfter DEF Records
<1>7. SlotGoes(p) /\ (Kept(p)' => Covers(p, packet[p])')
  BY <1>1, <1>5, <1>6, HolderStep DEF Records
<1>8. ~packet[p].leased  BY <1>2, <1>4 DEF Settles
<1>9. p \notin tx.tails /\ \A l \in Lists : ~Holds(l, p)
  BY <1>1, <1>2, <1>3 DEF Stays, Listed, Holds
<1>10. QED  BY <1>7, <1>8, <1>9

\* Everything but the places of what is recorded.
LEMMA RecordLeases ==
  ASSUME Sound, Typed', Ordered, Leased, gpu' = ProducerSignals(Settled, tx, gpu),
         UNCHANGED <<worker, fence>>, SameTrust, SettleMarks, ~device'.failed,
         NEW p \in Packets, NEW k \in Packet, Records(p, k),
         \A o \in Packets, c \in Packet : Moves(o, c),
         \A l \in Lists : list'[l].at = "unordered" =>
            list[l].at = "unordered" /\ list'[l].packets = list[l].packets,
         tx'.by = tx.by, tx'.queue = tx.queue, tx'.value = tx.value,
         tx'.at = "signalled" => tx.at = "signalled", Listed'
  PROVE  LeaseStep
<1>1. /\ Typed /\ Listed /\ Handled /\ Outcast /\ OwnSignal /\ Covering /\ worker \in WorkerTypes
      /\ \A l \in Lists : list[l].packets \subseteq Packets
  BY TypeParts DEF Sound, Leased, Typed, ListTypes
<1>2. /\ SlotGoes(p) /\ (Kept(p)' => Covers(p, packet[p])')
      /\ ~packet[p].leased /\ p \notin tx.tails /\ \A l \in Lists : ~Holds(l, p)
  BY RecordParts
<1>3. ASSUME NEW o \in Packets, o # p
      PROVE  \E c \in Packet : packet'[o] = c /\ Settles(o, c) /\ Stays(o, c)
  BY CollectSettles, <1>3 DEF Records
<1>4. ASSUME NEW o \in Packets PROVE SlotGoes(o) /\ (Kept(o)' => Covers(o, packet[o])')
  <2>1. CASE o = p  BY <1>2, <2>1
  <2>2. CASE o # p  BY <1>3, <2>2, <1>1, HolderStep DEF Settles
  <2>3. QED  BY <2>1, <2>2
<1>5. ASSUME NEW o \in Packets
      PROVE  /\ packet'[o].gpu = "idle" => packet'[o] = Idle
             /\ packet'[o].leased <=> packet'[o].gpu = "ready"
             /\ packet[o].leased => packet'[o].leased
  <2>1. CASE o = p  BY <1>2, <2>1 DEF Records
  <2>2. CASE o # p  BY <1>3, <2>2 DEF Settles
  <2>3. QED  BY <2>1, <2>2
<1>6. Handled'  BY <1>1, <1>5 DEF WorkerTypes, Handled
<1>7. Outcast'
  <2>1. ASSUME NEW l \in Lists, list'[l].at = "unordered", NEW o \in list'[l].packets
        PROVE  ~Kept(o)'
    <3>1. list[l].at = "unordered" /\ o \in list[l].packets /\ o \in Packets  BY <1>1, <2>1
    <3>2. o # p  BY <1>2, <3>1 DEF Holds
    <3>3. PICK c \in Packet : packet'[o] = c /\ Settles(o, c) /\ Stays(o, c)  BY <1>3, <3>1, <3>2
    <3>4. QED  BY <1>1, <3>1, <3>3, OutcastSettles
  <2>2. QED  BY <1>5, <2>1 DEF Outcast
<1>8. OwnSignal'  BY <1>1, CollectSignals, OwnStays DEF SameTrust
<1>9. QED  BY <1>4, <1>6, <1>7, <1>8 DEF LeaseStep, Leased, Covering

LEMMA PacketsAre ==
  ASSUME Typed, NEW l \in Lists, NEW S, list' = [list EXCEPT ![l].packets = S]
  PROVE  Repacked(l, S)
<1>1. list \in [Lists -> ListTypes]  BY TypeParts DEF Typed
<1>2. list' = [list EXCEPT ![l] = [list[l] EXCEPT !.packets = S]]  BY Zenon
<1>3. [list[l] EXCEPT !.packets = S].packets = S /\ [list[l] EXCEPT !.packets = S].at = list[l].at
  BY <1>1 DEF ListTypes
<1>4. QED  BY <1>1, <1>2, <1>3 DEF Repacked

\* A list that no submission has is in no receipt.
LEMMA FreeList ==
  ASSUME Typed, NEW l \in Lists, list[l].at = "free" PROVE tx.by # l
BY SubmissionAssumption DEF Typed, Placed

LEMMA RecordingIs ==
  /\ Recording.gpu = "recorded" /\ ~Recording.retired /\ ~Recording.quarantined
  /\ ~Recording.leased /\ ~Recording.submitted
  /\ \E k \in Packet : /\ k = [Recording EXCEPT !.retired = TRUE]
                       /\ k.gpu = "recorded" /\ k.retired /\ ~k.quarantined
                       /\ ~k.leased /\ ~k.submitted
<1>1. /\ Recording \in Packet
      /\ Recording.gpu = "recorded" /\ ~Recording.retired /\ ~Recording.quarantined
      /\ ~Recording.leased /\ ~Recording.submitted
  BY IdleType DEF Recording, Idle
<1>2. [Recording EXCEPT !.retired = TRUE] \in Packet  BY <1>1 DEF Packet
<1>3. QED  BY <1>1, <1>2 DEF Packet

LEMMA CaptureLeases ==
  ASSUME Sound, Typed', Ordered, Leased, NEW l \in Lists, Capture(l) PROVE LeaseStep
<1> DEFINE ready == Collected(Settled, tx, fence)
<1>1. /\ Typed /\ Listed /\ list[l].at = "free" /\ ~Failing /\ SettleMarks
      /\ gpu' = ProducerSignals(Settled, tx, gpu)
      /\ UNCHANGED <<tx, device, worker, gate, fence, past>>
  BY DEF Sound, Leased, Capture
<1>2. PICK p \in Available(ready) : /\ packet' = [ready EXCEPT ![p] = Recording]
                                    /\ list' = [list EXCEPT ![l].packets = {p}]
  BY DEF Capture
<1>3. /\ p \in Packets /\ ready \in PacketTypes /\ Recording \in Packet
      /\ Longer /\ NoNew("write", p) /\ \A o : NoNew("write", o) /\ NoNew("read", o)
  <2>1. p \in Packets  BY DEF Available
  <2>2. Settled \in PacketTypes  BY <1>1, TypeParts, SettledTypes DEF Typed
  <2>3. ready \in PacketTypes  BY <2>2, CollectedTypes
  <2>4. Longer /\ \A o : NoNew("write", o) /\ NoNew("read", o)  BY <1>1, CollectSignals
  <2>5. QED  BY <2>1, <2>3, <2>4, IdleType
<1>4. Records(p, Recording)  BY <1>2, <1>3, RecordingIs DEF Records, PacketTypes
<1>5. \A m \in Lists : /\ list'[m].at = list[m].at
                       /\ list'[m].packets = IF m = l THEN {p} ELSE list[m].packets
  <2>1. PICK S : S = {p} /\ list' = [list EXCEPT ![l].packets = S]  BY <1>2
  <2>2. Repacked(l, S)  BY <1>1, <2>1, PacketsAre, Zenon
  <2>3. QED  BY <2>1, <2>2 DEF Repacked
<1>6. ASSUME NEW o \in Packets, NEW c \in Packet PROVE Moves(o, c)
  BY <1>1, <1>3, MovesAlong DEF InReceipt
<1>7. SameTrust  BY <1>1 DEF SameTrust
<1>8. p \notin tx.tails /\ \A m \in Lists : ~Holds(m, p)
  BY <1>1, <1>3, <1>4, <1>6, <1>7, RecordParts
<1>9. ASSUME NEW o \in Packets, o # p PROVE Stays(o, packet'[o])
  BY <1>1, CollectSettles, <1>4, <1>9 DEF Records
<1>10. Listed'
  <2>1. /\ \A m \in Lists : list[m].packets \subseteq Packets
        /\ tx.tails \subseteq Packets
    BY <1>1, TypeParts DEF Typed, ListTypes, TxTypes
  <2>2. ASSUME NEW m \in Lists, NEW o \in list'[m].packets
        PROVE  packet'[o].gpu = "recorded" /\ ~packet'[o].retired
    <3>1. CASE m = l  BY <1>4, <1>5, <2>2, <3>1, RecordingIs DEF Records
    <3>2. CASE m # l  BY <1>1, <1>5, <1>8, <1>9, <2>1, <2>2, <3>2 DEF Listed, Holds, Stays
    <3>3. QED  BY <3>1, <3>2
  <2>3. ASSUME NEW m \in Lists, NEW n \in Lists, list'[m].packets \cap list'[n].packets # {}
        PROVE  m = n
    BY <1>1, <1>5, <1>8, <2>3 DEF Listed, Holds
  <2>4. tx.packets = IF tx.by \in Lists THEN list'[tx.by].packets ELSE {}
    BY <1>1, <1>5, FreeList DEF Listed
  <2>5. \A o \in tx.tails : packet'[o].gpu = "recorded" /\ packet'[o].retired
    BY <1>1, <1>8, <1>9, <2>1 DEF Listed, Stays
  <2>6. QED  BY <1>1, <2>2, <2>3, <2>4, <2>5 DEF Listed
<1>11. ~device'.failed  BY <1>1 DEF Failing
<1>12. \A m \in Lists : list'[m].at = "unordered" =>
          list[m].at = "unordered" /\ list'[m].packets = list[m].packets
  BY <1>1, <1>5
<1>13. QED  BY <1>1, <1>3, <1>4, <1>6, <1>7, <1>10, <1>11, <1>12, RecordLeases

\* The receipt's own packets stay where they are, and its tails are new.
LEMMA RecordTailsIs ==
  ASSUME Typed, RecordTails
  PROVE  \E tails \in SUBSET Packets :
            /\ tx'.at = "recorded" /\ tx'.by = tx.by /\ tx'.queue = tx.queue
            /\ tx'.value = tx.value /\ tx'.packets = tx.packets /\ tx'.tails = tails
            /\ SameTrust /\ past'.older = past.older /\ past'.outdated = past.outdated
            /\ \/ tails = {} /\ gpu' = gpu /\ packet' = Settled
               \/ /\ ~Failing /\ tx.by # Private /\ gpu' = ProducerSignals(Settled, tx, gpu)
                  /\ \/ tails = {} /\ packet' = Collected(Settled, tx, fence)
                     \/ \E p \in Packets, k \in Packet : tails = {p} /\ Records(p, k) /\ k.retired
<1>1. /\ tx \in TxTypes /\ past \in PastTypes /\ Failing \in BOOLEAN
      /\ Settled \in PacketTypes /\ Collected(Settled, tx, fence) \in PacketTypes
  BY TypeParts, SettledTypes, CollectedTypes DEF Typed, Failing
<1> DEFINE ready(c) == IF c THEN Collected(Settled, tx, fence) ELSE Settled
       Recorded(refused, collects, nested, tails) ==
         /\ tails # {} => collects
         /\ past' = [past EXCEPT !.troubles = IF nested THEN @ + 1 ELSE @]
         /\ packet' = [p \in Packets |->
               IF p \in tails THEN [Recording EXCEPT !.retired = TRUE] ELSE ready(collects)[p]]
         /\ gpu' = IF collects THEN ProducerSignals(Settled, tx, gpu) ELSE gpu
         /\ tx' = [tx EXCEPT !.at = "recorded", !.refused = refused, !.tails = tails]
<1>2. PICK refused \in BOOLEAN, collects \in BOOLEAN, nested \in BOOLEAN :
        /\ collects => ~Failing /\ tx.by # Private
        /\ \E tails \in {{}} \cup {{p} : p \in Available(ready(collects))} :
              Recorded(refused, collects, nested, tails)
  <2>1. PICK refused \in {Failing, Failing \/ tx.by # Private} :
          LET nested == refused /\ ~Failing
              collects == ~refused /\ tx.by # Private
          IN \E tails \in {{}} \cup {{p} : p \in Available(ready(collects))} :
                Recorded(refused, collects, nested, tails)
    BY Zenon DEF RecordTails
  <2> HIDE DEF ready, Recorded
  <2>2. PICK collects \in BOOLEAN, nested \in BOOLEAN :
             collects = (~refused /\ tx.by # Private) /\ nested = (refused /\ ~Failing)
    OBVIOUS
  <2>3. refused \in BOOLEAN /\ (collects => ~Failing /\ tx.by # Private)  BY <1>1, <2>2
  <2>4. \E tails \in {{}} \cup {{p} : p \in Available(ready(collects))} :
                Recorded(refused, collects, nested, tails)
    BY <2>1, <2>2, Zenon
  <2>5. QED  BY <2>3, <2>4, Zenon
<1>3. PICK tails \in {{}} \cup {{p} : p \in Available(ready(collects))} :
              Recorded(refused, collects, nested, tails)
  BY <1>2, Zenon
<1>4. tails \in SUBSET Packets  BY DEF Available
<1>5. /\ tx'.at = "recorded" /\ tx'.by = tx.by /\ tx'.queue = tx.queue
      /\ tx'.value = tx.value /\ tx'.packets = tx.packets /\ tx'.tails = tails
  BY <1>1, <1>3 DEF TxTypes
<1>6. SameTrust /\ past'.older = past.older /\ past'.outdated = past.outdated
  <2>1. PICK n : n = IF nested THEN past.troubles + 1 ELSE past.troubles  OBVIOUS
  <2>2. past' = [past EXCEPT !.troubles = n]  BY <1>3, <2>1
  <2>3. QED  BY <1>1, <2>2 DEF PastTypes, SameTrust
<1>7. CASE tails = {}
  <2>1. packet' = ready(collects)
    <3>1. ready(collects) \in PacketTypes  BY <1>1
    <3> HIDE DEF ready
    <3>2. packet' = [p \in Packets |-> ready(collects)[p]]  BY <1>3, <1>7
    <3>3. QED  BY <3>1, <3>2 DEF PacketTypes
  <2>2. CASE collects  BY <1>2, <1>3, <1>4, <1>5, <1>6, <1>7, <2>1, <2>2
  <2>3. CASE ~collects  BY <1>3, <1>4, <1>5, <1>6, <1>7, <2>1, <2>3
  <2>4. QED  BY <2>2, <2>3
<1>8. CASE tails # {}
  <2>1. collects /\ ready(collects) = Collected(Settled, tx, fence)  BY <1>3, <1>8
  <2>2. PICK p \in Available(ready(collects)) : tails = {p}  BY <1>8
  <2>3. p \in Packets  BY <2>2 DEF Available
  <2>4. PICK k \in Packet : /\ k = [Recording EXCEPT !.retired = TRUE]
                            /\ k.gpu = "recorded" /\ k.retired /\ ~k.quarantined
                            /\ ~k.leased /\ ~k.submitted
    BY RecordingIs
  <2>5. packet'[p] = k /\ \A o \in Packets \ {p} : packet'[o] = Collected(Settled, tx, fence)[o]
    BY <1>3, <2>1, <2>2, <2>3, <2>4
  <2>6. Records(p, k)  BY <2>1, <2>2, <2>4, <2>5 DEF Records
  <2>7. QED  BY <1>2, <1>3, <1>4, <1>5, <1>6, <2>1, <2>2, <2>3, <2>4, <2>6
<1>9. QED  BY <1>7, <1>8

LEMMA RecordTailsLeases == ASSUME Sound, Typed', Ordered, Leased, RecordTails PROVE LeaseStep
<1>1. /\ Typed /\ Listed /\ Handled /\ tx.at = "forwarded" /\ SettleMarks /\ SettleDevice
      /\ UNCHANGED <<list, worker, gate, fence>> /\ tx.tails = {}
      /\ Settled \in PacketTypes /\ Collected(Settled, tx, fence) \in PacketTypes
  BY LeasedParts, TypeParts, SettledTypes, CollectedTypes
     DEF Sound, Leased, RecordTails, Typed, Listed
<1>2. device'.last = device.last /\ (device'.failed <=> Failing)  BY <1>1, SettleDeviceIs
<1>3. PICK tails \in SUBSET Packets :
            /\ tx'.at = "recorded" /\ tx'.by = tx.by /\ tx'.queue = tx.queue
            /\ tx'.value = tx.value /\ tx'.packets = tx.packets /\ tx'.tails = tails
            /\ SameTrust /\ past'.older = past.older /\ past'.outdated = past.outdated
            /\ \/ tails = {} /\ gpu' = gpu /\ packet' = Settled
               \/ /\ ~Failing /\ tx.by # Private /\ gpu' = ProducerSignals(Settled, tx, gpu)
                  /\ \/ tails = {} /\ packet' = Collected(Settled, tx, fence)
                     \/ \E p \in Packets, k \in Packet : tails = {p} /\ Records(p, k) /\ k.retired
  BY <1>1, RecordTailsIs
<1>4. Longer /\ \A o : NoNew("write", o) /\ NoNew("read", o)
  <2>1. CASE gpu' = gpu  BY <1>1, <2>1, SameLonger
  <2>2. CASE gpu' = ProducerSignals(Settled, tx, gpu)  BY <1>1, <2>2, CollectSignals
  <2>3. QED  BY <1>3, <2>1, <2>2
<1>5. ASSUME NEW o \in Packets, NEW c \in Packet PROVE Moves(o, c)
  BY <1>1, <1>3, <1>2, <1>4, MovesAlong DEF InReceipt
<1>6. tx'.packets = IF tx'.by \in Lists THEN list[tx'.by].packets ELSE {}  BY <1>1, <1>3 DEF Listed
<1>7. tx'.by = Private => worker'.at = "held"  BY <1>1, <1>3 DEF Handled
<1>8. ASSUME tails = {} PROVE LeaseStep
  <2>1. ASSUME NEW p \in Packets
        PROVE  \E c \in Packet : packet'[p] = c /\ Settles(p, c) /\ Stays(p, c) /\ Moves(p, c)
    <3>1. CASE gpu' = gpu /\ packet' = Settled  BY <1>1, <3>1, SettleSettles, <1>5
    <3>2. CASE gpu' = ProducerSignals(Settled, tx, gpu) /\ packet' = Collected(Settled, tx, fence)
      BY <1>1, <3>2, CollectSettles, <1>5
    <3>3. QED  BY <1>3, <1>8, <3>1, <3>2
  <2>2. QED  BY <1>1, <1>2, <1>3, <1>4, <1>6, <1>7, <1>8, <2>1, HolderLeases
<1>9. ASSUME NEW p \in Packets, NEW k \in Packet, tails = {p}, Records(p, k), k.retired
      PROVE  LeaseStep
  <2>1. ~Failing /\ tx.by # Private /\ gpu' = ProducerSignals(Settled, tx, gpu)  BY <1>3, <1>9
  <2>2. tx.by \in Lists  BY <1>1, <2>1 DEF Typed, Placed
  <2>3. \A l \in Lists : ~Holds(l, p)  BY <1>1, <1>3, <1>5, <1>9, <2>1, RecordParts
  <2>4. ASSUME NEW o \in Packets, o # p PROVE Stays(o, packet'[o])
    BY <1>1, <2>1, CollectSettles, <1>9, <2>4 DEF Records
  <2>5. Listed'
    <3>1. \A l \in Lists : list[l].packets \subseteq Packets
      BY <1>1, TypeParts DEF Typed, ListTypes
    <3>2. ASSUME NEW l \in Lists, NEW o \in list'[l].packets
          PROVE  packet'[o].gpu = "recorded" /\ ~packet'[o].retired
      BY <1>1, <2>3, <2>4, <3>1, <3>2 DEF Listed, Holds, Stays
    <3>3. packet'[p].gpu = "recorded" /\ packet'[p].retired  BY <1>9 DEF Records
    <3>4. \A l, m \in Lists : list'[l].packets \cap list'[m].packets # {} => l = m
      BY <1>1 DEF Listed
    <3>5. QED  BY <1>1, <1>3, <1>6, <1>9, <2>2, <3>2, <3>3, <3>4 DEF Listed
  <2>6. QED  BY <1>1, <1>2, <1>3, <1>5, <1>9, <2>1, <2>5, RecordLeases
<1>10. QED  BY <1>3, <1>8, <1>9

(* The worker's poll. *)

\* It is handed frames, and nothing else of it changes.
LEMMA MovesIncoming ==
  ASSUME Typed, Typed', Longer, NEW p, NEW k, NoNew("write", p), NoNew("read", p),
         UNCHANGED <<tx, fence>>, device'.last = device.last,
         worker'.pending = worker.pending, worker'.at = worker.at, worker'.value = worker.value
  PROVE  Moves(p, k)
<1>1. device.last <= device'.last  BY Times
<1>2. \A q \in AllQueues : Here(q, p) => Here(q, p)'  BY DEF Here, InReceipt
<1>3. \A value \in Nat : Enough(p, k, value) => Enough(p, k, value)'  BY DEF Enough, InReceipt
<1>4. QED  BY <1>1, <1>2, <1>3 DEF Moves

LEMMA ProducedIs ==
  ASSUME Typed, NEW p, Produced(p)
  PROVE  \A q \in AllQueues : \A i \in Nat : ~Finishing(q, i, p)
<1>1. \A q \in AllQueues : DOMAIN gpu[q] = 1..Len(gpu[q])  BY OpOf
<1>2. QED  BY <1>1 DEF Produced, Finishing, Carries

LEMMA PolledIs ==
  ASSUME Sound, Typed', Ordered, Leased, gpu' = ProducerSignals(Settled, tx, gpu),
         fence' = fence, NEW p \in Packets, NEW c, c = Collected(Settled, tx, fence)[p],
         c.gpu # "idle", ~c.quarantined, ~c.leased,
         c.gpu = "ready" \/ (c.gpu = "retiring" /\ Produced(p)),
         p \notin Collectable(Settled, tx)
  PROVE  Polled(p, c)
<1>1. /\ Typed /\ Listed /\ Outcast /\ Covering /\ packet[p] \in Packet
      /\ packet[p].leased <=> packet[p].gpu = "ready"
      /\ p \in worker.pending => packet[p].leased
  BY LeasedParts
<1>2. PICK k \in Packet :
            /\ k = Settled[p] /\ SameButLost(packet[p], k)
            /\ k.gpu = "idle" => k = Idle
            /\ Failing /\ k.gpu # "idle" => k.quarantined
            /\ packet[p].quarantined \/ p \in deferred.marked => k.gpu = "idle" \/ k.quarantined
            /\ Trusted(p) /\ ~k.quarantined => Covers(p, k)
  BY <1>1, SettledOf
<1>3. c = k
  <2>1. PICK m \in Packet, d \in Packet : m = Settled[p] /\ Gathers(Settled, tx, p, d)
    BY SettledCollecting
  <2>2. d = c /\ (c = k \/ c = Idle)  BY <1>2, <2>1 DEF Gathers
  <2>3. QED  BY <2>2 DEF Idle
<1>4. c = packet[p] /\ c.gpu = "retiring" /\ Produced(p) /\ ~Failing /\ p \notin deferred.marked
  BY <1>1, <1>2, <1>3 DEF SameButLost
<1>5. ASSUME Trusted(p) PROVE Covers(p, c) /\ NoWrites(p) /\ NoReads(p)
  <2>1. Covers(p, k)  BY <1>2, <1>3, <1>5
  <2>2. Chained /\ ~InReceipt(p)  BY <1>1, <1>4, <1>5, TrustedOrder, ReceiptRecorded
  <2>3. \A q \in AllQueues : \A i \in Nat : ~Finishing(q, i, p)  BY <1>1, <1>4, ProducedIs
  <2>4. NoWrites(p)  BY <1>3, <1>4, <2>1, <2>2, <2>3, CopiesRan DEF NoWrites
  <2>5. NoReads(p)  BY <1>1, <1>3, <1>4, <2>1 DEF Covers, ReadsCovered, ReadCovered, NoReads
  <2>6. QED  BY <1>3, <2>1, <2>4, <2>5
<1>6. QED  BY <1>3, <1>4, <1>5 DEF Polled

\* What becomes of it.
LEMMA PolledGoes ==
  ASSUME Sound, Leased, NEW p \in Packets, NEW c \in Packet, Polled(p, c), NEW m \in Packet,
         m.submitted = c.submitted, m.producer = c.producer, m.order = c.order,
         \/ m.quarantined /\ m.gpu = "retiring" /\ ~m.leased
         \/ ~m.quarantined /\ m.gpu = "ready" /\ m.leased
         \/ ~m.quarantined /\ m.gpu = "consuming" /\ ~m.leased
  PROVE  Settles(p, m) /\ Stays(p, m)
<1>1. Trusted(p) /\ ~m.quarantined => CoversAfter(p, m)
  <2>1. SUFFICES ASSUME Trusted(p), ~m.quarantined PROVE CoversAfter(p, m)  OBVIOUS
  <2>2. Covers(p, c) /\ NoWrites(p) /\ NoReads(p)  BY <2>1 DEF Polled
  <2>3. LastSignalled(m)  BY <2>2 DEF Covers, LastSignalled, OfOrder
  <2>4. QED
    BY <2>1, <2>2, <2>3
       DEF CoversAfter, WritesCovered, ReadsCovered, NoWrites, NoReads, Retiring
<1>2. FrameGoes(p, FrameOf(packet[p]), FrameOf(m))  BY FrameIs DEF Polled, FrameGoes
<1>3. QED  BY <1>1, <1>2 DEF Settles, Stays, Polled

LEMMA PollIs ==
  ASSUME Sound, Typed', Ordered, Leased, Poll
  PROVE  \E current \in SUBSET Packets :
            /\ worker' = [worker EXCEPT !.incoming = IF Failing THEN {} ELSE current]
            /\ \A p \in Packets : \E c \in Packet, m \in Packet : PollMakes(p, c, m, current)
<1> DEFINE pk == Collected(Settled, tx, fence)
           done == {p \in Assigned(pk) :
                       /\ ~pk[p].quarantined /\ ~pk[p].leased
                       /\ pk[p].gpu = "ready" \/ (pk[p].gpu = "retiring" /\ Produced(p))
                       /\ p \notin Collectable(Settled, tx)}
           F(current, p) ==
              CASE p \in done /\ Failing -> [pk[p] EXCEPT !.quarantined = TRUE]
                [] p \in current /\ ~Failing -> [pk[p] EXCEPT !.gpu = "ready", !.leased = TRUE]
                [] p \in done \ current /\ ~Failing ->
                      IF device.last = 0 THEN [pk[p] EXCEPT !.quarantined = TRUE]
                      ELSE Spent(pk[p], device.last)
                [] OTHER -> pk[p]
<1>1. /\ Typed /\ Listed /\ Handled /\ worker.at = "idle" /\ worker.incoming = {}
      /\ UNCHANGED <<list, tx, gate, fence, past>> /\ SettleMarks /\ SettleDevice
      /\ gpu' = ProducerSignals(Settled, tx, gpu) /\ worker \in WorkerTypes
      /\ device.last \in Receipts
  BY TypeParts, Zenon DEF Sound, Leased, Poll, Typed, DeviceTypes
<1>2. PICK current \in SUBSET done :
        /\ packet' = [p \in Packets |-> F(current, p)]
        /\ worker' = [worker EXCEPT !.incoming = IF Failing THEN {} ELSE current]
  BY Zenon DEF Poll
<1>3. ASSUME NEW p \in done, NEW c \in Packet, c = pk[p] PROVE p \in Packets /\ Polled(p, c)
  BY <1>3, <1>1, PolledIs DEF Assigned
<1>4. done \subseteq Packets  BY DEF Assigned
<1>5. \A p \in Packets : \E c \in Packet : c = pk[p] /\ Settles(p, c) /\ Stays(p, c)
  BY <1>1, CollectSettles
<1> HIDE DEF pk, done
<1>6. ASSUME NEW p \in Packets, NEW c \in Packet, c = pk[p], ~Failing
       PROVE  /\ p \notin done => packet'[p] = c
              /\ p \in current => packet'[p] = [c EXCEPT !.gpu = "ready", !.leased = TRUE]
              /\ p \in done \ current =>
                    packet'[p] = IF device.last = 0 THEN [c EXCEPT !.quarantined = TRUE]
                                 ELSE Spent(c, device.last)
  <2>1. packet'[p] = F(current, p)  BY <1>2, Zenon
  <2>2. QED  BY <1>6, <2>1
<1>7. ASSUME NEW p \in Packets, p \notin done PROVE packet'[p] = pk[p]
  <2>1. packet'[p] = F(current, p)  BY <1>2, Zenon
  <2>2. QED  BY <1>7, <2>1
<1>8. worker' = [worker EXCEPT !.incoming = IF Failing THEN {} ELSE current]  BY <1>2, Zenon
<1> HIDE DEF F
<1>9. ASSUME NEW p \in Packets
      PROVE  \E c \in Packet, m \in Packet : PollMakes(p, c, m, current)
  <2>1. PICK c \in Packet : c = pk[p] /\ Settles(p, c) /\ Stays(p, c)  BY <1>5
  <2>2. CASE p \notin done  BY <1>7, <2>1, <2>2 DEF PollMakes, pk
  <2>3. CASE p \in done
    <3>1. Polled(p, c) /\ ~Failing  BY <1>3, <2>1, <2>3 DEF Polled
    <3>2. PICK m \in Packet :
            /\ packet'[p] = m
            /\ m.submitted = c.submitted /\ m.producer = c.producer /\ m.order = c.order
            /\ \/ m.quarantined /\ m.gpu = "retiring" /\ ~m.leased
               \/ ~m.quarantined /\ m.gpu = "ready" /\ m.leased
               \/ ~m.quarantined /\ m.gpu = "consuming" /\ ~m.leased
            /\ p \in current => m.leased
      <4>1. c.gpu = "retiring" /\ ~c.quarantined /\ ~c.leased  BY <3>1 DEF Polled
      <4>2. /\ p \in current => packet'[p] = [c EXCEPT !.gpu = "ready", !.leased = TRUE]
            /\ p \in done \ current =>
                  packet'[p] = IF device.last = 0 THEN [c EXCEPT !.quarantined = TRUE]
                               ELSE Spent(c, device.last)
        BY <1>6, <2>1, <3>1, Zenon
      <4>3. CASE p \in current  BY <4>3, <4>2, <4>1 DEF Packet, GpuStates
      <4>4. CASE p \notin current /\ device.last = 0
        <5>1. packet'[p] = [c EXCEPT !.quarantined = TRUE]  BY <2>3, <4>4, <4>2
        <5>2. QED  BY <4>1, <4>4, <5>1 DEF Packet, GpuStates
      <4>5. CASE p \notin current /\ device.last # 0
        <5>1. packet'[p] = Spent(c, device.last)  BY <2>3, <4>5, <4>2
        <5>2. PICK n \in Receipts : n = device.last  BY <1>1 DEF DeviceTypes
        <5>3. packet'[p] = Spent(c, n)  BY <5>1, <5>2
        <5>4. packet'[p] = [c EXCEPT !.gpu = "consuming", !.leased = FALSE, !.until = n]
          BY <5>3, Zenon DEF Spent
        <5>5. packet'[p] \in Packet  BY <5>3, SpentTypes
        <5>6. QED  BY <4>1, <4>5, <5>4, <5>5 DEF Packet
      <4>6. QED  BY <4>3, <4>4, <4>5
    <3>3. QED  BY <2>1, <3>1, <3>2 DEF PollMakes, pk
  <2>4. QED  BY <2>2, <2>3
<1>10. current \in SUBSET Packets  BY <1>4
<1>11. QED  BY <1>8, <1>9, <1>10

\* Whatever it makes of them, the contract's steps are kept to.
LEMMA PollSettles ==
  ASSUME Sound, Leased, NEW current, NEW p \in Packets, NEW c \in Packet, NEW m \in Packet,
         PollMakes(p, c, m, current)
  PROVE  /\ packet'[p] = m /\ Settles(p, m) /\ Stays(p, m)
         /\ p \in current => m.leased /\ ~packet[p].leased
<1>1. CASE m = c /\ p \notin current /\ Settles(p, c) /\ Stays(p, c)  BY <1>1 DEF PollMakes
<1>2. CASE /\ Polled(p, c)
           /\ m.submitted = c.submitted /\ m.producer = c.producer /\ m.order = c.order
           /\ \/ m.quarantined /\ m.gpu = "retiring" /\ ~m.leased
              \/ ~m.quarantined /\ m.gpu = "ready" /\ m.leased
              \/ ~m.quarantined /\ m.gpu = "consuming" /\ ~m.leased
           /\ p \in current => m.leased
  BY <1>2, PolledGoes DEF Polled, PollMakes
<1>3. QED  BY <1>1, <1>2 DEF PollMakes

LEMMA PollLeases == ASSUME Sound, Typed', Ordered, Leased, Poll PROVE LeaseStep
<1>1. /\ Typed /\ Listed /\ Handled /\ worker.incoming = {}
      /\ UNCHANGED <<list, tx, gate, fence, past>> /\ SettleMarks /\ SettleDevice
      /\ gpu' = ProducerSignals(Settled, tx, gpu) /\ worker \in WorkerTypes
  BY TypeParts, Zenon DEF Sound, Leased, Poll, Typed
<1>2. PICK current \in SUBSET Packets :
            /\ worker' = [worker EXCEPT !.incoming = IF Failing THEN {} ELSE current]
            /\ \A p \in Packets : \E c \in Packet, m \in Packet : PollMakes(p, c, m, current)
  BY PollIs
<1>3. device'.last = device.last /\ (device'.failed <=> Failing) /\ SameTrust
  BY <1>1, SettleDeviceIs DEF SameTrust
<1>4. Longer /\ \A o : NoNew("write", o) /\ NoNew("read", o)  BY <1>1, CollectSignals
<1>5. /\ worker'.pending = worker.pending /\ worker'.at = worker.at
      /\ worker'.value = worker.value /\ worker'.incoming \subseteq current
  BY <1>1, <1>2 DEF WorkerTypes
<1>6. ASSUME NEW o \in Packets, NEW c \in Packet PROVE Moves(o, c)
  BY <1>1, <1>3, <1>4, <1>5, MovesIncoming
<1>7. ASSUME NEW p \in Packets
      PROVE  \E m \in Packet : /\ packet'[p] = m /\ Settles(p, m) /\ Stays(p, m) /\ Moves(p, m)
                               /\ p \in current => m.leased /\ ~packet[p].leased
  <2>1. PICK c \in Packet, m \in Packet : PollMakes(p, c, m, current)  BY <1>2
  <2>2. /\ packet'[p] = m /\ Settles(p, m) /\ Stays(p, m)
        /\ p \in current => m.leased /\ ~packet[p].leased
    BY <2>1, PollSettles
  <2>3. QED  BY <1>6, <2>2
<1>8. \A p \in worker'.incoming \ worker.incoming : p \in Packets /\ packet'[p].leased
  BY <1>5, <1>7
<1>9. worker'.pending \cap worker'.incoming = {}  BY <1>1, <1>5, <1>7 DEF Handled
<1>10. /\ tx'.tails \subseteq tx.tails
       /\ tx'.tails # {} =>
             tx'.by \in Lists /\ tx'.at \in {"recorded", "signalled", "unsignalled"}
       /\ tx'.packets = IF tx'.by \in Lists THEN list[tx'.by].packets ELSE {}
       /\ tx'.by = Private => worker'.at = "held"
  BY <1>1, <1>5 DEF Listed, Handled
<1>11. QED  BY <1>1, <1>3, <1>4, <1>5, <1>7, <1>8, <1>9, <1>10, HolderGoes

(* Holders of the mutex that let packets of a list, or of the receipt, go. *)

LEMMA HolderRests ==
  ASSUME Sound, Typed', Leased, fence' = fence, SameTrust, SettleMarks, Longer,
         \A p \in Packets : SlotGoes(p) /\ (Kept(p)' => Covers(p, packet[p])'),
         \A p \in Packets : \E c \in Packet :
            packet'[p] = c /\ Rests(p, c) /\ (Remains(p)' => Stays(p, c)),
         device'.failed => \/ Failing
                           \/ \A p \in Packets : packet'[p].gpu # "idle" => packet'[p].quarantined,
         \A l \in Lists : list'[l].packets \subseteq list[l].packets,
         \A l \in Lists : list'[l].at = "unordered" => list[l].at = "unordered",
         tx'.tails \subseteq tx.tails,
         tx'.tails # {} =>
            tx'.by \in Lists /\ tx'.at \in {"recorded", "signalled", "unsignalled"},
         tx'.packets = IF tx'.by \in Lists THEN list'[tx'.by].packets ELSE {},
         tx'.by = Private => worker'.at = "held",
         worker'.pending = worker.pending, worker'.incoming = worker.incoming,
         tx'.at = "signalled" => tx.at = "signalled" /\ tx'.queue = tx.queue /\ tx'.value = tx.value
  PROVE  LeaseStep
<1>1. /\ Typed /\ Listed /\ Handled /\ Outcast /\ OwnSignal /\ Covering /\ worker \in WorkerTypes
      /\ \A l \in Lists : list[l].packets \subseteq Packets
  BY TypeParts DEF Sound, Leased, Typed, ListTypes
<1>3. ASSUME NEW p \in Packets
      PROVE  /\ Remains(p)' => Stays(p, packet'[p])
             /\ packet'[p].gpu = "idle" => packet'[p] = Idle
             /\ packet'[p].leased <=> packet'[p].gpu = "ready"
             /\ packet[p].leased => packet'[p].leased
             /\ Failing => packet'[p].gpu = "idle" \/ packet'[p].quarantined
  BY DEF Rests
<1>4. Listed'  BY <1>1, <1>3, ListedShrinks
<1>5. Handled'  BY <1>1, <1>3 DEF WorkerTypes, Handled
<1>6. Outcast'
  <2>1. device'.failed => \A p \in Packets : packet'[p].gpu # "idle" => packet'[p].quarantined
    BY <1>3
  <2>2. ASSUME NEW l \in Lists, list'[l].at = "unordered", NEW p \in list'[l].packets
        PROVE  ~Kept(p)'
    <3>1. list[l].at = "unordered" /\ p \in list[l].packets /\ p \in Packets /\ Remains(p)'
      BY <1>1, <2>2 DEF Remains
    <3>2. PICK c \in Packet : packet'[p] = c /\ Rests(p, c) /\ Stays(p, c)  BY <3>1
    <3>3. QED  BY <1>1, <3>1, <3>2, OutcastRests
  <2>3. QED  BY <1>3, <2>1, <2>2 DEF Outcast
<1>7. OwnSignal'  BY <1>1, OwnStays DEF SameTrust
<1>8. QED  BY <1>4, <1>5, <1>6, <1>7 DEF LeaseStep, Leased, Covering

LEMMA HolderEnds ==
  ASSUME Sound, Typed', Leased, fence' = fence, SameTrust, SettleMarks, Longer,
         \A p : NoNew("write", p) /\ NoNew("read", p),
         \A p \in Packets : \E c \in Packet : packet'[p] = c /\ Leaves(p, c),
         device'.failed => \/ Failing
                           \/ \A p \in Packets : packet'[p].gpu # "idle" => packet'[p].quarantined,
         \A l \in Lists : list'[l].packets \subseteq list[l].packets,
         \A l \in Lists : list'[l].at = "unordered" => list[l].at = "unordered",
         tx'.tails \subseteq tx.tails,
         tx'.tails # {} =>
            tx'.by \in Lists /\ tx'.at \in {"recorded", "signalled", "unsignalled"},
         tx'.packets = IF tx'.by \in Lists THEN list'[tx'.by].packets ELSE {},
         tx'.by = Private => worker'.at = "held",
         worker'.pending = worker.pending, worker'.incoming = worker.incoming,
         tx'.at = "signalled" => tx.at = "signalled" /\ tx'.queue = tx.queue /\ tx'.value = tx.value
  PROVE  LeaseStep
<1>1. Typed  BY DEF Sound
<1>2. ASSUME NEW p \in Packets PROVE SlotGoes(p) /\ (Kept(p)' => Covers(p, packet[p])')
  <2>1. PICK c \in Packet : packet'[p] = c /\ Leaves(p, c)  OBVIOUS
  <2>2. /\ ~c.quarantined => Moves(p, c)
        /\ Trusted(p) /\ ~c.quarantined => CoversAfter(p, c)
        /\ FrameGoes(p, FrameOf(packet[p]), FrameOf(c))
    BY <2>1 DEF Leaves, Settles
  <2>3. QED  BY <1>1, <2>1, <2>2, HolderMoves
<1>3. ASSUME NEW p \in Packets
      PROVE  \E c \in Packet : packet'[p] = c /\ Rests(p, c) /\ (Remains(p)' => Stays(p, c))
  BY DEF Leaves, Settles, Rests
<1>4. QED  BY <1>2, <1>3, HolderRests

\* A recording is retired: its packets are collected at once, or by their receipts.
LEMMA RetireTypes ==
  ASSUME Settled \in PacketTypes, NEW S PROVE retire_list(S) \in PacketTypes
BY DEF retire_list, PacketTypes, Packet

LEMMA RetireSettles ==
  ASSUME Sound, Typed', Ordered, Leased, NEW S \in SUBSET Packets,
         \A o \in S : packet[o].gpu = "recorded",
         gpu' = ProducerSignals(retire_list(S), tx, gpu), fence' = fence, NEW p \in Packets
  PROVE  \E c \in Packet : /\ c = Collected(retire_list(S), tx, fence)[p] /\ Settles(p, c)
                           /\ p \notin S => Stays(p, c)
<1>1. /\ Typed /\ Outcast /\ Covering /\ packet[p] \in Packet /\ Settled \in PacketTypes
      /\ packet[p].leased <=> packet[p].gpu = "ready"
      /\ p \in worker.pending => packet[p].leased
  BY LeasedParts
<1>2. PICK k \in Packet :
            /\ k = Settled[p] /\ SameButLost(packet[p], k)
            /\ k.gpu = "idle" => k = Idle
            /\ Failing /\ k.gpu # "idle" => k.quarantined
            /\ packet[p].quarantined \/ p \in deferred.marked => k.gpu = "idle" \/ k.quarantined
            /\ Trusted(p) /\ ~k.quarantined => Covers(p, k)
  BY <1>1, SettledOf
<1>3. PICK pk \in PacketTypes : pk = retire_list(S)  BY <1>1, RetireTypes
<1>4. PICK m \in Packet :
        /\ m = pk[p] /\ m.gpu = k.gpu /\ m.quarantined = k.quarantined /\ m.leased = k.leased
        /\ m.submitted = k.submitted /\ m.producer = k.producer /\ m.order = k.order
        /\ m.until = k.until /\ (p \notin S => m = k)
  <2>1. PICK m \in Packet : m = pk[p]  BY DEF PacketTypes
  <2>2. m = IF p \in S THEN [k EXCEPT !.retired = TRUE] ELSE k  BY <1>2, <1>3, <2>1 DEF retire_list
  <2>3. QED  BY <2>1, <2>2 DEF Packet
<1>5. m.gpu = "idle" => p \notin S /\ m = Idle  BY <1>2, <1>4 DEF SameButLost
<1>6. Trusted(p) /\ ~m.quarantined => Covers(p, m)
  BY <1>2, <1>4 DEF Covers, WritesCovered, Enough, LastSignalled, OfOrder, Retiring, AllRan,
                    FenceBehind, ReadsCovered, ReadCovered
<1>7. /\ m.leased => m.gpu = "ready"
      /\ p \in worker.pending => m.gpu = "ready"
      /\ p \in Collectable(pk, tx) => ~InReceipt(p)
  BY <1>1, <1>2, <1>4 DEF SameButLost, Collectable, InReceipt
<1>8. PICK c \in Packet : Gathers(pk, tx, p, c)  BY <1>1, <1>3, <1>4, <1>5, <1>6, <1>7, Collecting
<1>9. /\ \/ c = m
         \/ ~m.quarantined /\ m.gpu = "consuming" /\ c = Idle
         \/ /\ ~m.quarantined /\ p \in Collectable(pk, tx)
            /\ c = Idle \/ c = [m EXCEPT !.gpu = "retiring"]
      /\ Trusted(p) /\ ~c.quarantined => CoversAfter(p, c)
      /\ c.gpu = "idle" => c = Idle /\ (Trusted(p) => Untouched(p))
      /\ c = Collected(pk, tx, fence)[p]
      /\ FrameGoes(p, FrameOf(m), FrameOf(c))
      /\ p \in Collectable(pk, tx) => m.gpu = "recorded" /\ m.retired /\ p \notin tx.tails
  BY <1>4, <1>8 DEF Gathers, Collectable
<1>10. FrameGoes(p, FrameOf(packet[p]), FrameOf(c))
  <2>1. FrameOf(m) = FrameOf(k)  BY <1>4 DEF FrameOf
  <2>2. CASE k = packet[p]  BY <1>9, <2>1, <2>2
  <2>3. CASE k # packet[p]  BY <1>2, <2>3, <1>1, <1>4, <1>9, FrameIs DEF SameButLost, FrameGoes
  <2>4. QED  BY <2>2, <2>3
<1>11. /\ Idle.gpu = "idle" /\ Idle.leased = FALSE
       /\ [m EXCEPT !.gpu = "retiring"].gpu = "retiring"
       /\ [m EXCEPT !.gpu = "retiring"].leased = m.leased
  BY DEF Idle, Packet
<1>12. (c.leased <=> c.gpu = "ready") /\ (packet[p].leased => c.leased)
  <2>1. (m.leased <=> m.gpu = "ready") /\ m.leased = packet[p].leased
    BY <1>1, <1>2, <1>4 DEF SameButLost
  <2>2. CASE c = m  BY <2>1, <2>2
  <2>3. CASE c # m  BY <1>9, <2>1, <2>3, <1>11
  <2>4. QED  BY <2>2, <2>3
<1>13. p \notin S => Stays(p, c)  BY <1>2, <1>4, <1>9 DEF Stays, SameButLost
<1>14. ASSUME Failing \/ packet[p].quarantined \/ p \in deferred.marked
       PROVE  c.gpu = "idle" \/ c.quarantined
  BY <1>2, <1>4, <1>14, <1>9
<1>15. Settles(p, c)  BY <1>9, <1>10, <1>12, <1>14 DEF Settles
<1>16. QED  BY <1>3, <1>9, <1>13, <1>15

LEMMA ResetLeases ==
  ASSUME Sound, Typed', Ordered, Leased, NEW l \in Lists, Reset(l) PROVE LeaseStep
<1>1. PICK S : S = list[l].packets  OBVIOUS
<1>2. /\ Typed /\ Listed /\ Handled /\ list[l].at = "free" /\ SettleMarks /\ SettleDevice
      /\ list' = [list EXCEPT ![l].packets = {}]
      /\ packet' = Collected(retire_list(S), tx, fence)
      /\ gpu' = ProducerSignals(retire_list(S), tx, gpu)
      /\ UNCHANGED <<tx, worker, gate, fence, past>>
  BY <1>1 DEF Sound, Leased, Reset, CollectInto
<1>3. S \in SUBSET Packets /\ \A o \in S : packet[o].gpu = "recorded"
  BY <1>1, <1>2, TypeParts DEF Typed, ListTypes, Listed
<1>4. device'.last = device.last /\ (device'.failed <=> Failing) /\ SameTrust
  BY <1>2, SettleDeviceIs DEF SameTrust
<1>5. Longer /\ \A p : NoNew("write", p) /\ NoNew("read", p)  BY <1>2, CollectSignals
<1>6. \A m \in Lists : /\ list'[m].at = list[m].at
                       /\ list'[m].packets = IF m = l THEN {} ELSE list[m].packets
  <2>1. PICK none : none = {} /\ list' = [list EXCEPT ![l].packets = none]  BY <1>2
  <2>2. Repacked(l, none)  BY <1>2, <2>1, PacketsAre, Zenon
  <2>3. QED  BY <2>1, <2>2 DEF Repacked
<1>7. tx.by # l /\ \A p \in S : p \notin tx.tails  BY <1>1, <1>2, FreeList DEF Listed
<1>8. ASSUME NEW p \in Packets PROVE \E c \in Packet : packet'[p] = c /\ Leaves(p, c)
  <2>1. PICK c \in Packet : /\ c = Collected(retire_list(S), tx, fence)[p] /\ Settles(p, c)
                            /\ p \notin S => Stays(p, c)
    BY <1>2, <1>3, RetireSettles
  <2>2. Moves(p, c)  BY <1>2, <1>4, <1>5, MovesAlong DEF InReceipt
  <2>3. Remains(p)' => p \notin S  BY <1>1, <1>2, <1>6, <1>7 DEF Remains, Listed
  <2>4. QED  BY <1>2, <2>1, <2>2, <2>3 DEF Leaves
<1>9. /\ \A m \in Lists : list'[m].packets \subseteq list[m].packets
      /\ \A m \in Lists : list'[m].at = "unordered" => list[m].at = "unordered"
      /\ tx'.packets = IF tx'.by \in Lists THEN list'[tx'.by].packets ELSE {}
      /\ tx'.tails # {} =>
            tx'.by \in Lists /\ tx'.at \in {"recorded", "signalled", "unsignalled"}
      /\ tx'.by = Private => worker'.at = "held"
  BY <1>2, <1>6, <1>7 DEF Listed, Handled
<1>10. QED  BY <1>2, <1>4, <1>5, <1>8, <1>9, HolderEnds

(* finish_receipt. *)

LEMMA FinalOf ==
  ASSUME Typed, tx.at # "none", NEW success \in BOOLEAN, NEW refused \in BOOLEAN, NEW p \in Packets
  PROVE  /\ Final(success, refused) \in PacketTypes
         /\ \E m \in Packet :
              /\ m = Final(success, refused)[p]
              /\ \/ success /\ ~refused /\ InReceipt(p) /\ Counts(Settled[p], m)
                    /\ m.order = OwnOrder(p)
                 \/ /\ SameButLost(Settled[p], m)
                    /\ success /\ ~InReceipt(p) => m = Settled[p]
                    /\ ~success => m.gpu = "idle" \/ m.quarantined
                    /\ InReceipt(p) => /\ m.gpu = "idle" \/ m.quarantined
                                       /\ ~success \/ refused
<1> DEFINE F(pk, o) ==
              IF o \notin tx.packets \cup tx.tails THEN pk[o]
              ELSE [pk[o] EXCEPT !.submitted = TRUE, !.producer = tx.queue,
                                 !.order = 2 * tx.value + IF o \in tx.tails THEN 1 ELSE 0]
<1>1. /\ Settled \in PacketTypes /\ tx \in TxTypes /\ tx.queue \in AllQueues
      /\ tx.value \in Receipts
  BY TypeParts, SettledTypes, Held DEF Typed
<1>2. PICK pk \in PacketTypes : pk = IF success THEN Settled ELSE fail_device(Settled)
  BY <1>1, QuarantineTypes DEF fail_device
<1>3. PICK k \in Packet : /\ k = pk[p] /\ SameButLost(Settled[p], k)
                          /\ success => k = Settled[p]
                          /\ ~success => k.gpu = "idle" \/ k.quarantined
  <2>1. CASE success  BY <1>1, <1>2, <2>1 DEF PacketTypes, SameButLost
  <2>2. CASE ~success  BY <1>2, <2>2, <1>1, QuarantineOf DEF fail_device
  <2>3. QED  BY <2>1, <2>2
<1>4. Final(success, refused) = Accounted(pk, success, refused)  BY <1>2, Zenon DEF Final
<1>5. Final(success, refused) \in PacketTypes  BY <1>1, <1>2, <1>4, AccountedTypes
<1>6. Accounted(pk, success, refused) =
         IF ~success \/ refused THEN Quarantine(pk, tx.packets \cup tx.tails)
         ELSE [o \in Packets |-> F(pk, o)]
  BY Zenon DEF Accounted
<1>7. p \notin tx.packets \cup tx.tails => F(pk, p) = pk[p]  BY Zenon
<1>8. PICK n : n = 2 * tx.value + IF p \in tx.tails THEN 1 ELSE 0  OBVIOUS
<1>9. p \in tx.packets \cup tx.tails =>
         F(pk, p) = [pk[p] EXCEPT !.submitted = TRUE, !.producer = tx.queue, !.order = n]
  BY <1>8, Zenon
<1> HIDE DEF F
<1>10. CASE ~success \/ refused
  <2>1. Final(success, refused) = Quarantine(pk, tx.packets \cup tx.tails)  BY <1>4, <1>10, <1>6
  <2>2. PICK m \in Packet : /\ m = Quarantine(pk, tx.packets \cup tx.tails)[p] /\ SameButLost(k, m)
                            /\ InReceipt(p) /\ m.gpu # "idle" => m.quarantined
    BY <1>3, QuarantineOf DEF InReceipt
  <2>3. SameButLost(Settled[p], m) /\ (~success => m.gpu = "idle" \/ m.quarantined)
    BY <1>3, <2>2 DEF SameButLost
  <2>4. ASSUME success, ~InReceipt(p) PROVE m = Settled[p]
    BY <1>3, <2>2, <2>4 DEF Quarantine, InReceipt
  <2>5. QED  BY <1>5, <1>10, <2>1, <2>2, <2>3, <2>4
<1>11. CASE success /\ ~refused
  <2>1. PICK m \in Packet : m = Final(success, refused)[p]  BY <1>5 DEF PacketTypes
  <2>2. m = F(pk, p)  BY <1>4, <1>11, <1>6, <2>1
  <2>3. CASE ~InReceipt(p)
    <3>1. m = k  BY <1>3, <1>7, <2>2, <2>3 DEF InReceipt
    <3>2. QED  BY <1>3, <1>5, <1>11, <2>1, <2>3, <3>1 DEF SameButLost
  <2>4. CASE InReceipt(p)
    <3>1. n = 2 * tx.value \/ n = 2 * tx.value + 1
      <4>1. PICK v \in Nat : v = tx.value  BY <1>1, Numbers
      <4>2. n = 2 * v + IF p \in tx.tails THEN 1 ELSE 0  BY <1>8, <4>1
      <4>3. n = 2 * v \/ n = 2 * v + 1  BY <4>2
      <4>4. QED  BY <4>1, <4>3
    <3>2. m = [k EXCEPT !.submitted = TRUE, !.producer = tx.queue, !.order = n]
      BY <1>3, <1>9, <2>2, <2>4 DEF InReceipt
    <3>3. Counts(k, m) /\ m.order = n  BY <3>1, <3>2 DEF Counts, OfOrder, Packet
    <3>4. n = OwnOrder(p)
      <4>1. PICK v \in Nat : v = tx.value  BY <1>1, Numbers
      <4>2. n = 2 * v + IF p \in tx.tails THEN 1 ELSE 0  BY <1>8, <4>1
      <4>3. n = IF p \in tx.tails THEN 2 * v + 1 ELSE 2 * v  BY <4>2
      <4>4. QED  BY <4>1, <4>3 DEF OwnOrder
    <3>5. QED  BY <1>3, <1>5, <1>11, <2>1, <2>4, <3>3, <3>4
  <2>5. QED  BY <2>3, <2>4
<1>12. QED  BY <1>10, <1>11

\* The packet of a receipt whose Signal is queued, when that receipt has returned.
LEMMA CountedCovers ==
  ASSUME Sound, Typed', OwnSignal, NEW p \in Packets, Trusted(p), tx.at = "signalled", InReceipt(p),
         NEW k \in Packet, Covers(p, k), k.gpu = "recorded",
         NEW m \in Packet, Counts(k, m), NEW pk \in PacketTypes, pk[p] = m,
         gpu' = ProducerSignals(pk, NoReceipt, gpu), fence' = fence, device'.last = tx.value,
         NEW c \in Packet,
         \/ p \in Collectable(pk, NoReceipt) /\ c = [m EXCEPT !.gpu = "retiring"]
         \/ c = m,
         p \notin worker.pending
  PROVE  Covers(p, c)'
<1>1. /\ Typed /\ tx.queue \in AllQueues /\ tx.value \in Nat /\ fence \in Nat
      /\ tx.value = device.last + 1 /\ Newest = tx.value
  BY Times, Held DEF Sound, Bounded, Newest
<1>2. /\ c.gpu \in {"recorded", "retiring"} /\ c.submitted /\ c.producer = tx.queue
      /\ c.order \in Nat /\ OfOrder(c, tx.value) /\ m.submitted /\ m.producer = tx.queue
      /\ c.gpu = "retiring" => p \in Collectable(pk, NoReceipt)
  BY Numbers DEF Counts, OfOrder, Packet
<1>3. Longer /\ NoNew("write", p) /\ NoNew("read", p)  BY <1>1, CollectSignals
<1>4. WritesCovered(p, c)'
  <2>1. SUFFICES ASSUME NEW q \in AllQueues, NEW i \in Nat, Writing(q, i, p)'
                 PROVE  \E j \in Nat : /\ Signalling(q, j)' /\ j > i
                                       /\ 2 * gpu'[q][j].value <= c.order
    BY <1>2 DEF WritesCovered, Enough
  <2>2. Writing(q, i, p)  BY <1>3, <2>1 DEF NoNew, Writing
  <2>3. PICK j \in Nat : Signalling(q, j) /\ j > i  BY <2>2 DEF Covers, WritesCovered, Here
  <2>4. Signalling(q, j)' /\ gpu'[q][j] = gpu[q][j] /\ gpu[q][j].value \in Nat
    BY <1>1, <1>3, <2>3, LongerSignals
  <2>5. gpu[q][j].value <= tx.value  BY <1>1, <2>3 DEF Sound, Bounded
  <2>6. 2 * gpu[q][j].value <= c.order  BY <1>1, <1>2, <2>4, <2>5 DEF OfOrder
  <2>7. QED  BY <2>3, <2>4, <2>6
<1>5. LastSignalled(c)'
  <2>1. c.order < 2 * (device'.last + 1)  BY <1>1, <1>2 DEF OfOrder
  <2>2. ASSUME c.order >= 2 * (fence + 1)
        PROVE  \E j \in Nat : /\ Signalling(c.producer, j)'
                              /\ OfOrder(c, gpu[c.producer][j].value)'
    <3>1. fence < tx.value  BY <1>1, <1>2, <2>2 DEF OfOrder
    <3>2. PICK q \in AllQueues : q = tx.queue  BY <1>1
    <3>3. PICK j \in Nat : Signalling(q, j) /\ gpu[q][j].value = tx.value
      BY <3>1, <3>2 DEF OwnSignal, Trusted
    <3>4. Signalling(q, j)' /\ gpu'[q][j] = gpu[q][j]  BY <1>1, <1>3, <3>3, LongerSignals
    <3>5. OfOrder(c, gpu[q][j].value)'  BY <1>2, <3>3, <3>4 DEF OfOrder
    <3>6. QED  BY <1>2, <3>2, <3>4, <3>5
  <2>3. QED  BY <1>1, <1>2, <2>1, <2>2 DEF LastSignalled
<1>6. Retiring(p, c)'
  <2>1. CASE c.gpu = "retiring"  BY <1>1, <1>2, <2>1, CollectRetires
  <2>2. CASE c.gpu # "retiring"  BY <2>2 DEF Retiring
  <2>3. QED  BY <2>1, <2>2
<1>7. ReadsCovered(p, c)'
  <2>1. SUFFICES ASSUME NEW q \in AllQueues, NEW i \in Nat, Reading(q, i, p)' PROVE FALSE
    BY DEF ReadsCovered
  <2>2. Reading(q, i, p)  BY <1>3, <2>1 DEF NoNew, Reading
  <2>3. QED  BY <2>2 DEF Covers, ReadsCovered, ReadCovered
<1>8. QED  BY <1>4, <1>5, <1>6, <1>7 DEF Covers

\* Only the frame of the packet moves.
LEMMA SlotMoves ==
  ASSUME Typed, Typed', NEW p \in Packets, NEW c \in Packet, packet'[p] = c, SameTrust,
         Longer, NoNew("write", p), NoNew("read", p),
         FrameGoes(p, FrameOf(packet[p]), FrameOf(c))
  PROVE  SlotGoes(p)
<1>1. (NoWrites(p)' <=> NoWrites(p)) /\ (NoReads(p)' <=> NoReads(p)) /\ (Trusted(p)' <=> Trusted(p))
  BY Trusts, WritesHold, ReadsHold
<1>2. FrameOf(packet[p])' = FrameOf(c)  BY DEF FrameOf
<1>3. PICK f : f = FrameOf(packet[p])  OBVIOUS
<1>4. PICK g : g = FrameOf(c)  OBVIOUS
<1>5. FrameGoes(p, f, g) /\ g = FrameOf(packet[p])'  BY <1>2, <1>3, <1>4
<1>6. QED  BY <1>1, <1>3, <1>5, FrameSlot

LEMMA FinishParts ==
  ASSUME Sound, Leased, Finish
  PROVE  \E success \in BOOLEAN, refused \in BOOLEAN : Finished(success, refused)
<1>1. /\ tx \in TxTypes /\ device \in DeviceTypes /\ worker \in WorkerTypes /\ Failing \in BOOLEAN
      /\ list \in [Lists -> ListTypes] /\ tx.at \in {"signalled", "unsignalled"} /\ SettleMarks
      /\ tx' = NoReceipt /\ UNCHANGED <<gate, fence, past>> /\ tx.by \in Lists \cup {Private}
  BY TypeParts, SettleTypes, Held DEF Sound, Typed, Finish
<1>2. PICK b \in BOOLEAN, c \in BOOLEAN : b = (tx.at = "signalled") /\ c = (tx.refused \/ Failing)
  BY <1>1 DEF TxTypes
<1>3. PICK pk : /\ pk = IF b THEN Settled ELSE fail_device(Settled)
                /\ CollectInto(Accounted(pk, b, c), NoReceipt, gpu)
  <2> DEFINE success == tx.at = "signalled"
             refused == tx.refused \/ Failing
             qk == IF success THEN Settled ELSE fail_device(Settled)
  <2>1. CollectInto(Accounted(qk, success, refused), NoReceipt, gpu)  BY Zenon DEF Finish
  <2>2. qk = IF b THEN Settled ELSE fail_device(Settled)  BY <1>2
  <2>3. b = success /\ c = refused  BY <1>2
  <2> HIDE DEF success, refused, qk
  <2>4. CollectInto(Accounted(qk, b, c), NoReceipt, gpu)  BY <2>1, <2>3
  <2>5. QED  BY <2>2, <2>4
<1>4. /\ packet' = Collected(Final(b, c), NoReceipt, fence)
      /\ gpu' = ProducerSignals(Final(b, c), NoReceipt, gpu)
  <2>1. Final(b, c) = Accounted(pk, b, c)  BY <1>3, Zenon DEF Final
  <2>2. QED  BY <1>3, <2>1, Zenon DEF CollectInto
<1>5. device'.last = (IF b THEN tx.value ELSE device.last) /\ (device'.failed <=> Failing \/ ~b)
  <2>1. PICK f \in BOOLEAN : f = (Failing \/ ~(tx.at = "signalled"))  BY <1>1
  <2>2. device' = [last |-> IF tx.at = "signalled" THEN tx.value ELSE device.last,
                   simQueue |-> IF tx.at = "signalled" /\ tx.by # Private THEN tx.queue
                                ELSE device.simQueue,
                   simSignal |-> IF tx.at = "signalled" /\ tx.by # Private THEN tx.value
                                 ELSE device.simSignal,
                   failed |-> f]
    BY <2>1, Zenon DEF Finish
  <2>3. device'.last = (IF tx.at = "signalled" THEN tx.value ELSE device.last) /\ device'.failed = f
    BY <2>2
  <2>4. CASE tx.at = "signalled"  BY <1>2, <2>1, <2>3, <2>4
  <2>5. CASE tx.at # "signalled"  BY <1>2, <2>1, <2>3, <2>5
  <2>6. QED  BY <2>4, <2>5
<1>6. /\ worker'.pending = worker.pending /\ worker'.incoming = worker.incoming
      /\ worker'.newest = worker.newest
      /\ \/ worker' = worker
         \/ tx.by = Private /\ b /\ worker'.at = "drawn" /\ worker'.value = tx.value
         \/ tx.by = Private /\ worker'.at = "failed"
  BY <1>1, <1>2 DEF Finish, WorkerTypes
<1>7. \A l \in Lists : /\ list'[l].packets = list[l].packets
                       /\ list'[l].at = "unordered" => list[l].at = "unordered"
  <2>1. CASE list' = list  BY <2>1
  <2>2. CASE tx.by \in Lists /\ list' = [list EXCEPT ![tx.by].at = "free", ![tx.by].queue = Null]
    <3>1. PICK b1 \in Lists : b1 = tx.by  BY <2>2
    <3>2. list' = [list EXCEPT ![b1] = [list[b1] EXCEPT !.at = "free", !.queue = Null]]
      BY <1>1, <2>2, <3>1, Zenon
    <3>3. PICK k : k = [list[b1] EXCEPT !.at = "free", !.queue = Null]  OBVIOUS
    <3>4. k.packets = list[b1].packets /\ k.at = "free"  BY <1>1, <3>3 DEF ListTypes
    <3>5. QED  BY <1>1, <3>2, <3>3, <3>4
  <2>3. QED  BY <1>1, <2>1, <2>2 DEF Finish
<1>8. QED  BY <1>1, <1>2, <1>4, <1>5, <1>6, <1>7 DEF Finished

LEMMA FinishCounted ==
  ASSUME Sound, Typed', Ordered, Leased, NEW refused \in BOOLEAN, Finished(TRUE, refused),
         NEW p \in Packets, ~refused, InReceipt(p),
         NEW m \in Packet, m = Final(TRUE, refused)[p], Counts(Settled[p], m),
         Final(TRUE, refused) \in PacketTypes
  PROVE  /\ SlotGoes(p) /\ (Kept(p)' => Covers(p, packet[p])')
         /\ \E c \in Packet : packet'[p] = c /\ Rests(p, c) /\ (Remains(p)' => Stays(p, c))
<1>1. /\ Typed /\ Listed /\ Handled /\ Outcast /\ OwnSignal /\ Covering /\ packet[p] \in Packet
      /\ packet[p].leased <=> packet[p].gpu = "ready"
      /\ p \in worker.pending => packet[p].leased
  BY LeasedParts
<1>2. PICK pk \in PacketTypes : pk = Final(TRUE, refused) /\ pk[p] = m  OBVIOUS
<1>3. /\ packet' = Collected(pk, NoReceipt, fence) /\ gpu' = ProducerSignals(pk, NoReceipt, gpu)
      /\ tx.at = "signalled" /\ fence' = fence /\ device'.last = tx.value /\ ~Failing
      /\ SameTrust /\ SettleMarks /\ tx' = NoReceipt
      /\ \A l \in Lists : list'[l].packets = list[l].packets
  BY <1>2 DEF Finished, SameTrust
<1>4. PICK k \in Packet :
            /\ k = Settled[p] /\ SameButLost(packet[p], k)
            /\ k.gpu = "idle" => k = Idle
            /\ packet[p].quarantined \/ p \in deferred.marked => k.gpu = "idle" \/ k.quarantined
            /\ Trusted(p) /\ ~k.quarantined => Covers(p, k)
  BY <1>1, SettledOf
<1>5. k.gpu = "recorded" /\ packet[p].gpu = "recorded" /\ p \notin worker.pending /\ Counts(k, m)
  BY <1>1, <1>4, ReceiptRecorded DEF SameButLost
<1>6. m.gpu = "recorded" /\ ~m.leased /\ m.submitted /\ m.quarantined = k.quarantined
      /\ m.retired = packet[p].retired
  BY <1>1, <1>4, <1>5 DEF Counts, SameButLost
<1>7. PICK c \in Packet :
        /\ c = packet'[p]
        /\ \/ p \in Collectable(pk, NoReceipt) /\ c = [m EXCEPT !.gpu = "retiring"]
           \/ c = m
  <2>1. p \notin Recyclable(pk, fence)  BY <1>2, <1>6 DEF Recyclable
  <2>2. PICK c \in Packet :
            /\ c = Collected(pk, NoReceipt, fence)[p]
            /\ \/ p \in Recyclable(pk, fence) /\ c = Idle
               \/ /\ p \in Collectable(pk, NoReceipt) /\ pk[p].submitted
                  /\ c = [pk[p] EXCEPT !.gpu = "retiring"]
               \/ p \in Collectable(pk, NoReceipt) /\ ~pk[p].submitted /\ c = Idle
               \/ c = pk[p]
    BY CollectCases
  <2>3. QED  BY <1>2, <1>3, <1>6, <2>1, <2>2
<1>8. /\ c.gpu \in {"recorded", "retiring"} /\ ~c.leased /\ c.quarantined = k.quarantined
      /\ c.retired = packet[p].retired
      /\ c.gpu = "retiring" => p \in Collectable(pk, NoReceipt) /\ ~m.quarantined /\ m.retired
  <2>1. /\ c.leased = m.leased /\ c.quarantined = m.quarantined /\ c.retired = m.retired
        /\ c = m \/ (c.gpu = "retiring" /\ p \in Collectable(pk, NoReceipt))
    BY <1>7 DEF Packet
  <2>2. QED  BY <1>2, <1>6, <2>1 DEF Collectable
<1>9. Longer /\ NoNew("write", p) /\ NoNew("read", p)  BY <1>1, <1>3, CollectSignals
<1>10. SlotGoes(p)
  <2>1. FrameOf(c) = FrameOf(k)  BY <1>1, <1>4, <1>5, <1>8 DEF SameButLost, FrameOf
  <2>2. FrameGoes(p, FrameOf(packet[p]), FrameOf(c))  BY <1>1, <1>4, <2>1, LostFrame DEF FrameGoes
  <2>3. QED  BY <1>1, <1>3, <1>7, <1>9, <2>2, SlotMoves
<1>11. ASSUME Kept(p)' PROVE Covers(p, packet[p])'
  <2>1. Trusted(p) /\ ~k.quarantined  BY <1>3, <1>7, <1>8, <1>11, Trusts DEF Kept, Doomed
  <2>2. /\ OwnSignal /\ tx.at = "signalled" /\ Covers(p, k) /\ k.gpu = "recorded"
        /\ Counts(k, m) /\ pk[p] = m /\ p \notin worker.pending
        /\ gpu' = ProducerSignals(pk, NoReceipt, gpu) /\ fence' = fence /\ device'.last = tx.value
        /\ \/ p \in Collectable(pk, NoReceipt) /\ c = [m EXCEPT !.gpu = "retiring"]
           \/ c = m
    BY <1>1, <1>2, <1>3, <1>4, <1>5, <1>7, <2>1
  <2>3. Covers(p, c)'  BY <2>1, <2>2, CountedCovers
  <2>4. QED
    BY <1>7, <2>3 DEF Covers, WritesCovered, Enough, LastSignalled, OfOrder, Retiring, AllRan,
                      FenceBehind, ReadsCovered, ReadCovered
<1>12. Rests(p, c)  BY <1>1, <1>3, <1>4, <1>5, <1>8 DEF Rests
<1>13. Remains(p)' => Stays(p, c)  BY <1>1, <1>3, <1>6, <1>8 DEF Remains, NoReceipt, Listed, Stays
<1>14. QED  BY <1>7, <1>10, <1>11, <1>12, <1>13

LEMMA FinishOthers ==
  ASSUME Sound, Typed', Ordered, Leased, NEW success \in BOOLEAN, NEW refused \in BOOLEAN,
         Finished(success, refused), NEW p \in Packets,
         NEW m \in Packet, m = Final(success, refused)[p], SameButLost(Settled[p], m),
         success /\ ~InReceipt(p) => m = Settled[p],
         ~success => m.gpu = "idle" \/ m.quarantined,
         InReceipt(p) => m.gpu = "idle" \/ m.quarantined,
         Final(success, refused) \in PacketTypes
  PROVE  /\ SlotGoes(p) /\ (Kept(p)' => Covers(p, packet[p])')
         /\ \E c \in Packet : /\ packet'[p] = c /\ Rests(p, c) /\ (Remains(p)' => Stays(p, c))
                              /\ ~success => c.gpu = "idle" \/ c.quarantined
<1>1. /\ Typed /\ Listed /\ Handled /\ Outcast /\ OwnSignal /\ Covering /\ packet[p] \in Packet
      /\ packet[p].leased <=> packet[p].gpu = "ready"
      /\ p \in worker.pending => packet[p].leased
  BY LeasedParts
<1>2. PICK pk \in PacketTypes : pk = Final(success, refused) /\ pk[p] = m  OBVIOUS
<1>3. /\ packet' = Collected(pk, NoReceipt, fence) /\ gpu' = ProducerSignals(pk, NoReceipt, gpu)
      /\ fence' = fence /\ SameTrust /\ SettleMarks /\ tx' = NoReceipt
      /\ tx.at \in {"signalled", "unsignalled"}
      /\ \A l \in Lists : list'[l].packets = list[l].packets
  BY <1>2 DEF Finished, SameTrust
<1>4. PICK k \in Packet :
            /\ k = Settled[p] /\ SameButLost(packet[p], k)
            /\ k.gpu = "idle" => k = Idle
            /\ Failing /\ k.gpu # "idle" => k.quarantined
            /\ packet[p].quarantined \/ p \in deferred.marked => k.gpu = "idle" \/ k.quarantined
            /\ Trusted(p) /\ ~k.quarantined => Covers(p, k)
  BY <1>1, SettledOf
<1>5. /\ SameButLost(packet[p], m) /\ (m.gpu = "idle" => m = Idle)
      /\ k.quarantined => m.quarantined
      /\ ~m.quarantined => m = k
      /\ InReceipt(p) => packet[p].gpu = "recorded"
      /\ Idle.gpu = "idle" /\ ~Idle.quarantined /\ ~Idle.leased
  BY <1>1, <1>4, ReceiptRecorded DEF SameButLost, Idle
<1>6. /\ Trusted(p) /\ ~m.quarantined => Covers(p, m)
      /\ m.leased => m.gpu = "ready"
      /\ p \in worker.pending => m.gpu = "ready"
      /\ p \in Collectable(pk, NoReceipt) => ~InReceipt(p)
  BY <1>1, <1>2, <1>4, <1>5 DEF SameButLost, Collectable
<1>7. PICK c \in Packet : Gathers(pk, NoReceipt, p, c)  BY <1>1, <1>2, <1>3, <1>5, <1>6, Collecting
<1>8. /\ packet'[p] = c
      /\ \/ c = m
         \/ ~m.quarantined /\ m.gpu = "consuming" /\ c = Idle
         \/ /\ ~m.quarantined /\ m.gpu = "recorded" /\ m.retired
            /\ c = Idle \/ c = [m EXCEPT !.gpu = "retiring"]
      /\ Trusted(p) /\ ~c.quarantined => CoversAfter(p, c)
      /\ c.gpu = "idle" => c = Idle
      /\ FrameGoes(p, FrameOf(m), FrameOf(c))
  BY <1>2, <1>3, <1>7 DEF Gathers, Collectable
<1>9. FrameGoes(p, FrameOf(packet[p]), FrameOf(c))  BY <1>1, <1>5, <1>8, FrameThrough
<1>10. /\ [m EXCEPT !.gpu = "retiring"].gpu = "retiring"
       /\ [m EXCEPT !.gpu = "retiring"].leased = m.leased
  BY DEF Packet
<1>11. (c.leased <=> c.gpu = "ready") /\ (packet[p].leased => c.leased)
  <2>1. (m.leased <=> m.gpu = "ready") /\ m.leased = packet[p].leased  BY <1>1, <1>5 DEF SameButLost
  <2>2. CASE c = m  BY <2>1, <2>2
  <2>3. CASE c # m  BY <1>8, <2>1, <2>3, <1>5, <1>10
  <2>4. QED  BY <2>2, <2>3
<1>12. m.gpu = "idle" \/ m.quarantined => c.gpu = "idle" \/ c.quarantined  BY <1>8
<1>13. Rests(p, c)
  <2>1. ASSUME Failing \/ packet[p].quarantined \/ p \in deferred.marked
        PROVE  m.gpu = "idle" \/ m.quarantined
    BY <1>4, <1>5, <2>1 DEF SameButLost
  <2>2. QED  BY <1>8, <1>11, <1>12, <2>1 DEF Rests
<1>14. Remains(p)' => Stays(p, c)
  <2>1. Remains(p)' => ~packet[p].retired /\ packet[p].gpu = "recorded"
    BY <1>1, <1>3 DEF Remains, NoReceipt, Listed
  <2>2. ~packet[p].retired /\ packet[p].gpu = "recorded" => c = m  BY <1>5, <1>8 DEF SameButLost
  <2>3. QED  BY <1>5, <2>1, <2>2 DEF Stays, SameButLost
<1>15. Longer /\ NoNew("write", p) /\ NoNew("read", p)  BY <1>1, <1>3, CollectSignals
<1>16. SlotGoes(p)  BY <1>1, <1>3, <1>8, <1>9, <1>15, SlotMoves
<1>17. ASSUME Kept(p)' PROVE Covers(p, packet[p])'
  <2>1. Trusted(p) /\ ~c.quarantined  BY <1>3, <1>8, <1>17, Trusts DEF Kept, Doomed
  <2>2. ~InReceipt(p)  BY <1>5, <1>8, <2>1 DEF SameButLost
  <2>3. Moves(p, c)
    <3>1. device.last <= device'.last  BY <1>1, Times DEF Sound, Bounded, Finished
    <3>2. \A q \in AllQueues : ~Here(q, p)  BY <2>2 DEF Here
    <3>3. \A value \in Nat : Enough(p, c, value) => Enough(p, c, value)'  BY <2>2 DEF Enough
    <3>4. tx'.at = "none"  BY <1>3 DEF NoReceipt
    <3>5. worker'.at # "idle" \/ worker' = worker  BY DEF Finished
    <3>6. worker'.pending = worker.pending  BY DEF Finished
    <3>7. worker'.at = "drawn" =>
             \/ worker.at = "drawn" /\ worker'.value = worker.value
             \/ tx.by = Private /\ tx.at = "signalled" /\ worker'.value = tx.value
      BY DEF Finished
    <3>8. QED  BY <1>3, <1>15, <3>1, <3>2, <3>3, <3>4, <3>5, <3>6, <3>7 DEF Moves
  <2>4. QED  BY <1>1, <1>8, <2>1, <2>3, MovesCover
<1>18. QED  BY <1>8, <1>12, <1>13, <1>14, <1>16, <1>17

LEMMA FinishLeases == ASSUME Sound, Typed', Ordered, Leased, Finish PROVE LeaseStep
<1>1. PICK success \in BOOLEAN, refused \in BOOLEAN : Finished(success, refused)  BY FinishParts
<1>2. /\ Typed /\ tx.at # "none" /\ SameTrust /\ SettleMarks /\ fence' = fence
      /\ device'.failed <=> Failing \/ ~success
      /\ tx'.at = "none" /\ tx'.by = Null /\ tx'.packets = {} /\ tx'.tails = {}
      /\ worker'.pending = worker.pending /\ worker'.incoming = worker.incoming
      /\ \A l \in Lists : /\ list'[l].packets = list[l].packets
                          /\ list'[l].at = "unordered" => list[l].at = "unordered"
  BY <1>1 DEF Finished, Sound, SameTrust, NoReceipt
<1>3. Longer  BY <1>1, <1>2, CollectSignals DEF Finished
<1>4. ASSUME NEW p \in Packets
      PROVE  /\ SlotGoes(p) /\ (Kept(p)' => Covers(p, packet[p])')
             /\ \E c \in Packet : /\ packet'[p] = c /\ Rests(p, c) /\ (Remains(p)' => Stays(p, c))
                                  /\ ~success => c.gpu = "idle" \/ c.quarantined
  <2>1. /\ Final(success, refused) \in PacketTypes
        /\ \E m \in Packet :
              /\ m = Final(success, refused)[p]
              /\ \/ success /\ ~refused /\ InReceipt(p) /\ Counts(Settled[p], m)
                    /\ m.order = OwnOrder(p)
                 \/ /\ SameButLost(Settled[p], m)
                    /\ success /\ ~InReceipt(p) => m = Settled[p]
                    /\ ~success => m.gpu = "idle" \/ m.quarantined
                    /\ InReceipt(p) => /\ m.gpu = "idle" \/ m.quarantined
                                       /\ ~success \/ refused
    BY <1>2, FinalOf
  <2>2. PICK m \in Packet :
              /\ m = Final(success, refused)[p]
              /\ \/ success /\ ~refused /\ InReceipt(p) /\ Counts(Settled[p], m)
                 \/ /\ SameButLost(Settled[p], m)
                    /\ success /\ ~InReceipt(p) => m = Settled[p]
                    /\ ~success => m.gpu = "idle" \/ m.quarantined
                    /\ InReceipt(p) => m.gpu = "idle" \/ m.quarantined
    BY <2>1
  <2>3. CASE success /\ ~refused /\ InReceipt(p) /\ Counts(Settled[p], m)
    BY <2>3, <1>1, <2>1, <2>2, FinishCounted
  <2>4. CASE /\ SameButLost(Settled[p], m)
             /\ success /\ ~InReceipt(p) => m = Settled[p]
             /\ ~success => m.gpu = "idle" \/ m.quarantined
             /\ InReceipt(p) => m.gpu = "idle" \/ m.quarantined
    BY <1>1, <2>1, <2>2, <2>4, FinishOthers
  <2>5. QED  BY <2>2, <2>3, <2>4
<1>5. device'.failed => \/ Failing
                        \/ \A p \in Packets : packet'[p].gpu # "idle" => packet'[p].quarantined
  BY <1>2, <1>4
<1>6. \A p \in Packets : SlotGoes(p) /\ (Kept(p)' => Covers(p, packet[p])')  BY <1>4
<1>7. \A p \in Packets : \E c \in Packet :
         packet'[p] = c /\ Rests(p, c) /\ (Remains(p)' => Stays(p, c))
  BY <1>4
<1>8. tx'.by \notin Lists /\ tx'.by # Private  BY <1>2, SubmissionAssumption
<1>9. \A l \in Lists : list'[l].packets \subseteq list[l].packets  BY <1>2
<1>10. QED  BY <1>2, <1>3, <1>5, <1>6, <1>7, <1>8, <1>9, HolderRests

(* The GPU runs an operation. *)

\* The oldest operation goes; the others with the packet are those that were.
LEMMA RunFewer ==
  ASSUME Typed, NEW q \in AllQueues, Runs(q), NEW kind, NEW p
  PROVE  /\ (\A r \in AllQueues : \A i \in Nat : ~Carries(kind, r, i, p)) =>
               \A r \in AllQueues : \A i \in Nat : ~Carries(kind, r, i, p)'
         /\ gpu[q][1].kind # kind =>
               ((\A r \in AllQueues : \A i \in Nat : ~Carries(kind, r, i, p)') =>
                   \A r \in AllQueues : \A i \in Nat : ~Carries(kind, r, i, p))
<1>1. ASSUME NEW r \in AllQueues, NEW i \in Nat, Carries(kind, r, i, p)'
      PROVE  \E s \in AllQueues : \E j \in Nat : Carries(kind, s, j, p)
  BY <1>1, RunCarries DEF OldPlace
<1>2. ASSUME gpu[q][1].kind # kind, NEW r \in AllQueues, NEW j \in Nat, Carries(kind, r, j, p)
      PROVE  \E s \in AllQueues : \E i \in Nat : Carries(kind, s, i, p)'
  <2>1. r # q \/ j # 1  BY <1>2 DEF Carries
  <2>2. Carries(kind, r, NewPlace(q, r, j), p)' /\ NewPlace(q, r, j) > 0  BY <1>2, <2>1, RunCarries
  <2>3. NewPlace(q, r, j) \in Nat  BY <2>2 DEF NewPlace
  <2>4. QED  BY <2>2, <2>3
<1>3. QED  BY <1>1, <1>2

LEMMA RunLeases ==
  ASSUME Sound, Typed', Ordered, Leased, NEW q \in AllQueues, Run(q) PROVE LeaseStep
<1>1. /\ Typed /\ Listed /\ Handled /\ Outcast /\ OwnSignal /\ Covering /\ Runs(q)
      /\ past \in PastTypes
      /\ UNCHANGED <<packet, list, tx, device, deferred, worker, gate>>
  <2>1. UNCHANGED <<packet, list, tx, device, deferred, worker, gate>>  BY Zenon DEF Run
  <2>2. QED  BY <2>1, RunKeeps, TypeParts DEF Sound, Leased, Typed
<1>2. SameTrust
  <2> DEFINE op == Head(gpu[q])
  <2>1. past' = CASE op.kind = "signal" -> [past EXCEPT !.setBack = @ \/ op.value < fence]
                  [] op.kind = "write" ->
                        [past EXCEPT !.written = @ \cup op.packets,
                                     !.older = Rewritten(op.packets),
                                     !.outdated = @ \ op.packets]
                  [] OTHER -> past
    BY Zenon DEF Run
  <2> HIDE DEF op
  <2>2. CASE op.kind = "signal"
    <3>1. PICK b : b = (past.setBack \/ op.value < fence)  OBVIOUS
    <3>2. past' = [past EXCEPT !.setBack = b]  BY <2>1, <2>2, <3>1, Zenon
    <3>3. QED  BY <1>1, <3>2 DEF PastTypes, SameTrust
  <2>3. CASE op.kind # "signal"  BY <1>1, <2>1, <2>3 DEF PastTypes, SameTrust
  <2>4. QED  BY <2>2, <2>3
<1>3. \A p : (Trusted(p)' <=> Trusted(p)) /\ (Kept(p)' <=> Kept(p))
  BY <1>1, <1>2, Trusts DEF Kept, Doomed
<1>4. Listed' /\ Handled' /\ Outcast'  BY <1>1, <1>3 DEF Listed, Handled, Outcast
<1>5. OwnSignal'
  <2>1. SUFFICES ASSUME ~past'.overtaken, tx.at = "signalled", fence' < tx.value
                 PROVE  \E j \in Nat : Signalling(tx.queue, j)' /\ gpu'[tx.queue][j].value = tx.value
    BY <1>1 DEF OwnSignal
  <2>2. Chained /\ ~past.overtaken  BY <1>2, <2>1 DEF SameTrust, Ordered
  <2>3. fence' >= fence /\ fence' \in Nat /\ fence \in Nat /\ tx.value \in Nat
    BY <1>1, <2>2, RunHead, Times
  <2>4. PICK r \in AllQueues : r = tx.queue  BY <1>1, <2>1, Held
  <2>5. PICK j \in Nat : Signalling(r, j) /\ gpu[r][j].value = tx.value
    BY <1>1, <2>1, <2>2, <2>3, <2>4 DEF OwnSignal
  <2>6. r # q \/ j # 1
    <3>1. SUFFICES ASSUME r = q, j = 1 PROVE FALSE  OBVIOUS
    <3>2. fence' = tx.value  BY <1>1, <2>5, <3>1 DEF Signalling, Runs
    <3>3. QED  BY <2>1, <2>3, <3>2
  <2>7. /\ NewPlace(q, r, j) \in Nat /\ Signalling(r, NewPlace(q, r, j))'
        /\ gpu'[r][NewPlace(q, r, j)] = gpu[r][j]
    BY <1>1, <2>5, <2>6, RunSignalTo
  <2>8. PICK m \in Nat : Signalling(r, m)' /\ gpu'[r][m] = gpu[r][j]  BY <2>7 DEF Signalling
  <2>9. QED  BY <1>1, <2>4, <2>5, <2>8 DEF Signalling
<1>6. ASSUME NEW p \in Packets PROVE SlotGoes(p)
  <2>1. PICK f : f = FrameOf(packet[p])  OBVIOUS
  <2>2. f = FrameOf(packet[p])'  BY <1>1, <2>1 DEF FrameOf
  <2>3. (NoWrites(p) => NoWrites(p)') /\ (NoReads(p) => NoReads(p)')
    BY <1>1, RunFewer DEF NoWrites, NoReads, Writing, Reading
  <2>4. \/ NoWrites(p)' => NoWrites(p)
        \/ NoReads(p)' => NoReads(p)
    BY <1>1, RunFewer DEF NoWrites, NoReads, Writing, Reading
  <2>5. QED  BY <1>1, <1>3, <2>1, <2>2, <2>3, <2>4, QueueSlot
<1>7. ASSUME NEW p \in Packets, Kept(p)' PROVE Covers(p, packet[p])'
  <2>1. PICK k \in Packet : k = packet[p] /\ k = packet'[p]  BY <1>1, PacketOf
  <2>2. Covers(p, k) /\ Chained  BY <1>3, <1>7, <2>1, <1>1, TrustedOrder DEF Covering, Kept
  <2>3. WritesCovered(p, k)'  BY <1>1, <2>2, RunWrites DEF Covers
  <2>4. ReadsCovered(p, k)'  BY <1>1, <2>2, RunReads DEF Covers
  <2>5. LastSignalled(k)'  BY <1>1, <2>2, RunLast DEF Covers
  <2>6. Retiring(p, k)'  BY <1>1, <2>2, RunRetiring DEF Covers
  <2>7. Covers(p, k)'  BY <2>3, <2>4, <2>5, <2>6 DEF Covers
  <2>8. QED
    BY <2>1, <2>7 DEF Covers, WritesCovered, Enough, LastSignalled, OfOrder, Retiring, AllRan,
                      FenceBehind, ReadsCovered, ReadCovered
<1>8. QED  BY <1>4, <1>5, <1>6, <1>7 DEF LeaseStep, Leased, Covering

(* Every step keeps the invariant, and is one of the contract's. *)

LEMMA NextLeases ==
  ASSUME Sound, Typed', Ordered, Leased, Safe, [Next]_vars PROVE LeaseStep
<1>1. CASE UNCHANGED vars  BY <1>1, GateLeases DEF vars
<1>2. ASSUME NEW l \in Lists, ListStep(l) PROVE LeaseStep
  BY <1>2, CaptureLeases, ResetLeases, EnterLeases, RefuseLeases, EscapeLeases,
     ForwardUnorderedLeases, ReserveLeases DEF ListStep
<1>3. CASE ReceiptStep
  BY <1>3, QueueWaitLeases, FailWaitLeases, PublishWaitLeases, ForwardLeases,
     RecordTailsLeases, SignalLeases, FinishLeases DEF ReceiptStep
<1>4. CASE WorkerStep
  BY <1>4, PollLeases, DropPendingLeases, DrawLeases, FinishConsumptionLeases, TakeLeases
  DEF WorkerStep
<1>5. CASE WatchdogStep  BY <1>5, WatchdogLeases
<1>6. ASSUME NEW q \in AllQueues, Run(q) PROVE LeaseStep  BY <1>6, RunLeases
<1>7. QED  BY <1>1, <1>2, <1>3, <1>4, <1>5, <1>6 DEF Next

LEMMA InitSlots == ASSUME Init, NEW p \in Packets PROVE SlotOf(p) = Lease!Fresh
<1>1. packet[p] = Idle /\ ~Idle.quarantined /\ Idle.gpu = "idle"  BY DEF Init, Idle
<1>2. Frame(p) = "free"  BY <1>1 DEF Frame
<1>3. \A q \in AllQueues : gpu[q] = << >> /\ DOMAIN gpu[q] = {}  BY DEF Init
<1>4. QueuedFor("write", p) = FALSE /\ QueuedFor("read", p) = FALSE  BY <1>3 DEF QueuedFor
<1>5. Trusted(p) = TRUE  BY DEF Init, Trusted
<1>6. QED  BY <1>2, <1>4, <1>5 DEF SlotOf, Lease!Fresh

LEMMA InitLeased == ASSUME Init PROVE Leased /\ Safe
<1>1. /\ tx.by = Null /\ tx.at = "none" /\ tx.packets = {} /\ tx.tails = {}
      /\ Null \notin Lists /\ Null # Private
  BY SubmissionAssumption DEF Init, NoReceipt
<1>2. \A l \in Lists : list[l].at = "free" /\ list[l].packets = {}  BY DEF Init
<1>3. \A p \in Packets : /\ packet[p] = Idle /\ ~packet[p].leased /\ packet[p].gpu = "idle"
                         /\ ~packet[p].submitted
  BY DEF Init, Idle
<1>4. \A q \in AllQueues : gpu[q] = << >>  BY DEF Init
<1>5. Listed  BY <1>1, <1>2 DEF Listed
<1>6. Handled  BY <1>1, <1>3 DEF Handled, Init
<1>7. Outcast  BY <1>2, <1>3 DEF Outcast, Init
<1>8. OwnSignal  BY <1>1 DEF OwnSignal
<1>9. Covering  BY <1>4, <1>3, FreshCovers DEF Untouched, Writing, Reading, Carries, Covering
<1>10. Safe  BY InitSlots DEF Lease!Fresh, Undisturbed, Safe
<1>11. QED  BY <1>5, <1>6, <1>7, <1>8, <1>9, <1>10 DEF Leased

LEMMA SafeStays ==
  ASSUME Typed, Safe, LeaseStep PROVE Safe'
<1>1. ASSUME NEW p \in Packets PROVE Undisturbed(SlotOf(p))'
  <2>1. PICK s : s = SlotOf(p) /\ SlotIs(p, s)  BY SlotHas
  <2>2. PICK n : n = SlotOf(p)'  OBVIOUS
  <2>3. s \in Lease!Slot /\ Undisturbed(s) /\ (n = s \/ Lease!Step(s, n))
    BY <2>1, <2>2 DEF SlotIs, Safe, LeaseStep, SlotGoes
  <2>4. Undisturbed(n)  BY <2>3, StepKeeps
  <2>5. QED  BY <2>2, <2>4
<1>2. QED  BY <1>1 DEF Safe

\* A frame is leased once, after every queued copy into it has run, and its texture is
\* not used again under its readers: every step of the capture manager is a step of the
\* contract for each packet (scene_capture_manager.hpp, the promise of the lease), until
\* the watchdog moves the timeline ahead of the GPU, and but for a packet whose escape
\* mark was lost.
THEOREM FramesAreLeased == Spec => FramesLeased
<1> DEFINE Inv == Sound /\ Released /\ Ordered /\ Leased /\ Safe
<1>1. Init => Inv /\ Lease!Init
  <2> SUFFICES ASSUME Init PROVE Inv /\ Lease!Init  OBVIOUS
  <2>1. Lease!Init  BY InitSlots DEF Lease!Init, SlotOf
  <2>2. QED  BY <2>1, Inductive, InitLeased
<1>2. Inv /\ [Next]_vars => Inv' /\ [Lease!Next]_([p \in Packets |-> SlotOf(p)])
  <2> SUFFICES ASSUME Inv, [Next]_vars
               PROVE  Inv' /\ [Lease!Next]_([p \in Packets |-> SlotOf(p)])
    OBVIOUS
  <2>1. (Sound /\ Released /\ Ordered)'  BY Inductive
  <2>2. LeaseStep  BY <2>1, NextLeases DEF Sound
  <2>3. Leased' /\ Safe'  BY <2>2, SafeStays DEF LeaseStep, Sound
  <2>4. Lease!Next  BY <2>2 DEF LeaseStep, SlotGoes, Lease!Next, SlotOf
  <2>5. QED  BY <2>1, <2>3, <2>4
<1>3. QED  BY <1>1, <1>2, PTL DEF Spec, FramesLeased, Lease!Spec, SlotOf

(***************************************************************************)
(* The newest frame.  Frames are handed to the worker in whatever order it   *)
(* polls them; their order is that of the receipts, which is the order in    *)
(* which the GPU wrote them.                                                 *)
(***************************************************************************)

LEMMA OrderIs ==
  ASSUME Typed, NEW p \in Packets
  PROVE  /\ packet[p].order \in Nat /\ Ordinal(p) \in Nat /\ worker.newest \in Nat
         /\ Sent(p) => /\ tx.at # "none" /\ tx.queue \in AllQueues
                       /\ Ordinal(p) >= 2 * tx.value /\ Ordinal(p) <= 2 * tx.value + 1
<1>1. packet[p].order \in Nat /\ tx.value \in Nat /\ worker.newest \in Nat
  BY PacketOf, Times, TypeParts, Numbers DEF Typed, Packet, WorkerTypes
<1>2. Sent(p) => tx.at # "none" /\ tx.queue \in AllQueues  BY Held DEF Sent
<1>3. Sent(p) => Ordinal(p) \in {2 * tx.value, 2 * tx.value + 1}  BY DEF Ordinal
<1>4. ~Sent(p) => Ordinal(p) = packet[p].order  BY DEF Ordinal
<1>5. QED  BY <1>1, <1>2, <1>3, <1>4

\* What is given and kept is signalled on its producer, at most at the open receipt.
LEMMA GivenIs ==
  ASSUME Sound, Leased, NEW p \in Packets, Kept(p), Given(p)
  PROVE  /\ Producer(p) \in AllQueues
         /\ ~Sent(p) => /\ packet[p].submitted /\ Ordinal(p) = packet[p].order
                        /\ Producer(p) = packet[p].producer
                        /\ LastSignalled(packet[p])
                        /\ Ordinal(p) < 2 * (device.last + 1)
         /\ WritesCovered(p, packet[p])
<1>1. Covers(p, packet[p]) /\ Typed  BY DEF Leased, Covering, Sound
<1>2. ~Sent(p) => /\ packet[p].submitted /\ Ordinal(p) = packet[p].order
                  /\ Producer(p) = packet[p].producer
  BY DEF Given, Ordinal, Producer
<1>3. QED  BY <1>1, <1>2, OrderIs DEF Covers, LastSignalled, Producer

\* A frame of a later order is queued behind a kept one that is.
LEMMA LaterQueued ==
  ASSUME Sound, Ordered, Leased, Sane, Queueing,
         NEW p \in Packets, Kept(p), Given(p), NEW q \in Packets, Kept(q), Given(q),
         Ordinal(q) < Ordinal(p), NEW s \in AllQueues, NEW n \in Nat, Writing(s, n, q)
  PROVE  ~NoWrites(p)
<1> SUFFICES ASSUME NoWrites(p) PROVE FALSE  OBVIOUS
<1>0. /\ Typed /\ Bounded /\ Listed /\ OwnSignal /\ Chained /\ InTurn /\ SignalledOnce
      /\ Awaited(p) /\ Behindhand(p) /\ ~past.overtaken
  BY TrustedOrder, ChainedParts DEF Sound, Leased, Kept, Queueing, Trusted
<1>1. /\ Producer(p) \in AllQueues
      /\ ~Sent(p) => /\ packet[p].submitted /\ Ordinal(p) = packet[p].order
                     /\ Producer(p) = packet[p].producer
                     /\ LastSignalled(packet[p])
                     /\ Ordinal(p) < 2 * (device.last + 1)
  BY GivenIs
<1>2. /\ Ordinal(p) \in Nat /\ Ordinal(q) \in Nat /\ device.last \in Nat /\ fence \in Nat
      /\ tx.value \in Nat /\ Newest \in Nat
      /\ Sent(p) => /\ tx.at # "none" /\ Ordinal(p) >= 2 * tx.value
                    /\ Ordinal(p) <= 2 * tx.value + 1
      /\ Sent(q) => tx.at # "none" /\ Ordinal(q) >= 2 * tx.value
  BY <1>0, OrderIs, Times
<1>3. tx.at # "none" => tx.value = device.last + 1  BY <1>0 DEF Bounded
<1>4. Ordinal(p) < 2 * (fence + 2)  BY <1>0, <1>1, <1>2 DEF Awaited, NoWrites
<1>5. s # Producer(p)  BY <1>0, <1>1 DEF Behindhand, NoWrites
<1>6. CASE Here(s, q)
  <2>1. s = tx.queue /\ InReceipt(q) /\ tx.at \in {"forwarded", "recorded", "unsignalled"}
    BY <1>6 DEF Here
  <2>2. Sent(q)  BY <2>1 DEF Sane, Given, Sent, InReceipt
  <2>3. ~Sent(p)  BY <1>5, <2>1 DEF Producer
  <2>4. QED  BY <1>1, <1>2, <1>3, <2>2, <2>3
<1>7. ASSUME NEW j \in Nat, Signalling(s, j), Enough(q, packet[q], gpu[s][j].value)
      PROVE  FALSE
  <2>1. PICK u \in Nat : u = gpu[s][j].value  BY <1>0, <1>7, OpOf
  <2>2. u > fence /\ u <= Newest  BY <1>0, <1>7, <2>1 DEF InTurn, Next1, Bounded
  <2>3. Newest = IF tx.at = "signalled" THEN tx.value ELSE device.last  BY DEF Newest
  <2>4. 2 * u <= Ordinal(q)
    <3>1. CASE Sent(q)  BY <1>2, <1>3, <2>1, <2>2, <2>3, <3>1
    <3>2. CASE ~Sent(q)  BY <1>7, <2>1, <3>2 DEF Enough, Sent, InReceipt, Ordinal
    <3>3. QED  BY <3>1, <3>2
  <2>5. u = fence + 1 /\ Ordinal(p) = 2 * u + 1  BY <1>2, <1>4, <2>1, <2>2, <2>4
  <2>6. CASE ~Sent(p)
    <3>1. packet[p].order >= 2 * (fence + 1)  BY <1>1, <1>2, <2>1, <2>5, <2>6
    <3>2. PICK i \in Nat : /\ Signalling(Producer(p), i)
                           /\ OfOrder(packet[p], gpu[Producer(p)][i].value)
      BY <1>1, <2>6, <3>1 DEF LastSignalled
    <3>3. PICK v \in Nat : v = gpu[Producer(p)][i].value  BY <1>0, <1>1, <3>2, OpOf
    <3>4. 2 * u + 1 = 2 * v \/ 2 * u + 1 = 2 * v + 1  BY <1>1, <2>5, <2>6, <3>2, <3>3 DEF OfOrder
    <3>5. v = u  BY <2>1, <3>3, <3>4
    <3>6. gpu[Producer(p)][i].value = gpu[s][j].value  BY <2>1, <3>3, <3>5
    <3>7. QED  BY <1>0, <1>1, <1>5, <1>7, <3>2, <3>6 DEF SignalledOnce
  <2>7. CASE Sent(p)
    <3>1. tx.value = u /\ Producer(p) = tx.queue  BY <1>2, <2>1, <2>5, <2>7 DEF Producer
    <3>2. tx.at = "signalled"  BY <1>2, <1>3, <2>1, <2>2, <2>3, <2>7, <3>1
    <3>3. PICK i \in Nat : Signalling(tx.queue, i) /\ gpu[tx.queue][i].value = tx.value
      BY <1>0, <1>2, <2>1, <2>2, <3>1, <3>2 DEF OwnSignal
    <3>4. QED  BY <1>0, <1>1, <1>5, <1>7, <2>1, <3>1, <3>3 DEF SignalledOnce
  <2>8. QED  BY <2>6, <2>7
<1>8. QED  BY <1>6, <1>7, GivenIs DEF WritesCovered

\* A frame that is sure and filled is kept.
LEMMA SureIs ==
  ASSUME Sound, Leased, Sane, NEW p \in Packets
  PROVE  /\ Kept(p) => Sure(p)
         /\ Sure(p) /\ ~packet[p].leased => Kept(p)
         /\ Sure(p) /\ ~deferred.uncertain => Kept(p)
<1>1. Kept(p) => Sure(p)  BY DEF Kept, Sure, Doomed
<1>2. Sure(p) /\ ~packet[p].leased => Kept(p)  BY DEF Kept, Sure
<1>3. ASSUME Sure(p), ~deferred.uncertain PROVE Kept(p)
  BY LeasedParts, <1>3 DEF Sane, Sure, Kept, Doomed
<1>4. QED  BY <1>1, <1>2, <1>3

(* A step after which a packet's order is what it was, if the packet is sure. *)

LEMMA WrittenBefore ==
  ASSUME Typed, Typed', Longer, NEW p, NoWrites(p)' PROVE NoWrites(p)
BY LongerCarries DEF NoWrites, Writing

LEMMA FilledPasses ==
  ASSUME Typed, Typed', Longer, NEW p \in Packets, Passes(p), Filled(p)'
  PROVE  Filled(p) /\ Ordinal(p)' = Ordinal(p)
BY WrittenBefore DEF Filled, Passes

\* Its copies are queued as they were.
LEMMA AwaitedPasses ==
  ASSUME Sound, Typed', Longer, fence' = fence, Leased, NEW p \in Packets, Passes(p),
         Kept(p), Given(p), Ordinal(p)' = Ordinal(p), Producer(p)' = Producer(p), Awaited(p)
  PROVE  Awaited(p)'
<1>1. PICK s \in AllQueues : s = Producer(p) /\ s = Producer(p)'  BY GivenIs
<1>2. SUFFICES ASSUME Ordinal(p) >= 2 * (fence + 2)
               PROVE  \E i \in Nat : /\ Writing(s, i, p)'
                                     /\ \E j \in Nat : /\ j < i /\ Waiting(s, j)'
                                                       /\ Ordinal(p) <= 2 * gpu'[s][j].value + 3
  BY <1>1 DEF Awaited
<1>3. PICK i \in Nat, j \in Nat : /\ Writing(s, i, p) /\ j < i /\ Waiting(s, j)
                                  /\ Ordinal(p) <= 2 * gpu[s][j].value + 3
  BY <1>1, <1>2 DEF Awaited
<1>4. Writing(s, i, p)'  BY <1>3, LongerCarries DEF Writing, Sound
<1>5. Waiting(s, j)' /\ gpu'[s][j] = gpu[s][j]  BY <1>3, LongerOps DEF Waiting, Sound
<1>6. QED  BY <1>3, <1>4, <1>5

LEMMA PlainNewest ==
  ASSUME Sound, Typed', Longer, fence' = fence, Leased, Queueing, Aged, Passe,
         past'.older = past.older, \A p \in Packets : Passes(p)
  PROVE  /\ Queueing' /\ Aged' /\ (SameAges => Passe')
         /\ \A p \in Packets : Filled(p)' => Filled(p) /\ Ordinal(p)' = Ordinal(p)
<1>0. Typed  BY DEF Sound
<1>1. ASSUME NEW p \in Packets, Filled(p)' PROVE Filled(p) /\ Ordinal(p)' = Ordinal(p)
  BY <1>0, <1>1, FilledPasses
<1>2. Aged' /\ (SameAges => Passe')  BY <1>1 DEF Aged, Passe, SameAges
<1>3. ASSUME NEW p \in Packets, Kept(p)', Given(p)'
      PROVE  /\ Kept(p) /\ Given(p) /\ NoNew("write", p)
             /\ Ordinal(p)' = Ordinal(p) /\ Producer(p)' = Producer(p)
  BY <1>3 DEF Kept, Sure, Doomed, Passes
<1>4. ASSUME NEW p \in Packets, Kept(p)', Given(p)' PROVE Awaited(p)' /\ Behindhand(p)'
  <2>1. /\ Kept(p) /\ Given(p) /\ Awaited(p) /\ Behindhand(p)
        /\ Ordinal(p)' = Ordinal(p) /\ Producer(p)' = Producer(p)
    BY <1>3, <1>4 DEF Queueing
  <2>2. Awaited(p)'  BY <2>1, AwaitedPasses
  <2>3. PICK s \in AllQueues : s = Producer(p) /\ s = Producer(p)'  BY <2>1, GivenIs
  <2>4. ASSUME NEW q \in Packets, NEW n \in Nat, Kept(q)', Given(q)', Ordinal(q)' < Ordinal(p)',
               Writing(s, n, q)'
        PROVE  \E i \in Nat : i > n /\ Writing(s, i, p)'
    <3>1. Kept(q) /\ Given(q) /\ NoNew("write", q) /\ Ordinal(q)' = Ordinal(q)  BY <1>3, <2>4
    <3>2. Writing(s, n, q)  BY <2>4, <3>1 DEF NoNew, Writing
    <3>3. PICK i \in Nat : i > n /\ Writing(s, i, p)  BY <2>1, <2>3, <2>4, <3>1, <3>2 DEF Behindhand
    <3>4. Writing(s, i, p)'  BY <1>0, <3>3, LongerCarries DEF Writing
    <3>5. QED  BY <3>3, <3>4
  <2>5. Behindhand(p)'  BY <2>3, <2>4 DEF Behindhand
  <2>6. QED  BY <2>2, <2>5
<1>5. QED  BY <1>1, <1>2, <1>4 DEF Queueing

(* The steps that leave the packets as they are. *)

\* The order and the producer of what keeps them in its record too.
LEMMA SameOrder ==
  ASSUME NEW p \in Packets, SameReceipt(p), packet'[p].submitted <=> packet[p].submitted,
         packet'[p].order = packet[p].order, packet'[p].producer = packet[p].producer
  PROVE  /\ Given(p)' <=> Given(p)
         /\ Ordinal(p)' = Ordinal(p) /\ Producer(p)' = Producer(p)
<1>1. Given(p)' <=> Given(p)  BY DEF SameReceipt, Given
<1>2. CASE Sent(p)  BY <1>1, <1>2 DEF SameReceipt, Ordinal, Producer
<1>3. CASE ~Sent(p)  BY <1>1, <1>3 DEF SameReceipt, Ordinal, Producer
<1>4. QED  BY <1>1, <1>2, <1>3

LEMMA PlainDated ==
  ASSUME Sound, Typed', Leased, Dated, Longer, fence' = fence, packet' = packet, SameAges,
         worker'.pending \subseteq worker.pending, \A p : Trusted(p)' => Trusted(p),
         deferred.marked \subseteq deferred'.marked, deferred.uncertain => deferred'.uncertain,
         \A p \in Packets :
            p \in deferred'.marked => p \in deferred.marked \/ packet[p].gpu = "recorded",
         device.failed => device'.failed, tx'.tails \subseteq tx.tails,
         \A p \in Packets : SameReceipt(p) /\ (Kept(p) => NoNew("write", p))
  PROVE  Dated'
<1>1. ASSUME NEW p \in Packets PROVE Passes(p)
  <2>1. Kept(p)' => Kept(p)  BY LessKept
  <2>2. Sure(p)' => Sure(p)  BY DEF Sure, Doomed
  <2>3. /\ Given(p)' <=> Given(p)
        /\ Ordinal(p)' = Ordinal(p) /\ Producer(p)' = Producer(p)
    BY SameOrder
  <2>4. QED  BY <2>1, <2>2, <2>3 DEF Passes
<1>2. Queueing' /\ Aged' /\ Passe'  BY <1>1, PlainNewest DEF Dated, SameAges
<1>3. Sane'  BY TypeParts DEF Dated, Sane, SameAges, Sound, Typed, TxTypes
<1>4. NewestFrameWins'  BY DEF Dated, NewestFrameWins, SameAges
<1>5. QED  BY <1>2, <1>3, <1>4 DEF Dated

\* Nothing is queued either, and the receipt stays as it is.
LEMMA MarksDated ==
  ASSUME Sound, Typed', Leased, Dated, UNCHANGED <<packet, tx, device, worker, fence, gpu>>,
         past'.older = past.older, past'.outdated = past.outdated,
         past'.overtaken = past.overtaken, past.unmarked \subseteq past'.unmarked,
         deferred.marked \subseteq deferred'.marked, deferred.uncertain => deferred'.uncertain,
         \A p \in Packets :
            p \in deferred'.marked => p \in deferred.marked \/ packet[p].gpu = "recorded"
  PROVE  Dated'
<1>1. Longer /\ \A p : NoNew("write", p)  BY NothingNew DEF Sound
<1>2. \A p \in Packets : SameReceipt(p)  BY DEF SameReceipt, Sent
<1>3. \A p : Trusted(p)' => Trusted(p)  BY DEF Trusted
<1>4. SameAges  BY DEF SameAges
<1>5. QED  BY <1>1, <1>2, <1>3, <1>4, PlainDated

LEMMA TroubledAges ==
  ASSUME Typed, NEW S, past' = past \/ Troubled(S, past)
  PROVE  SameTrust /\ past'.older = past.older /\ past'.outdated = past.outdated
<1>1. past \in PastTypes  BY TypeParts DEF Typed
<1>2. QED  BY <1>1 DEF Troubled, SameTrust, PastTypes

LEMMA MarkAges ==
  ASSUME Typed, NEW l \in Lists, NEW lost \in BOOLEAN, Mark(l, lost)
  PROVE  /\ past'.older = past.older /\ past'.outdated = past.outdated
         /\ deferred'.marked \subseteq deferred.marked \cup list[l].packets
<1>1. past \in PastTypes /\ deferred \in [marked : SUBSET Packets, uncertain : BOOLEAN]
  BY TypeParts DEF Typed
<1> DEFINE S == list[l].packets
<1>2. CASE lost
  <2>1. Troubled(S, [past EXCEPT !.unmarked = @ \cup S]) /\ deferred' = deferred  BY <1>2 DEF Mark
  <2> DEFINE h == [past EXCEPT !.unmarked = @ \cup S]
  <2>2. h.older = past.older /\ h.outdated = past.outdated  BY <1>1 DEF PastTypes
  <2>3. [h EXCEPT !.troubles = @ + 1].older = h.older
        /\ [h EXCEPT !.troubles = @ + 1].outdated = h.outdated
    BY <1>1 DEF PastTypes
  <2> HIDE DEF h
  <2>4. past' = h \/ past' = [h EXCEPT !.troubles = @ + 1]  BY <2>1 DEF Troubled, h
  <2>5. QED  BY <2>1, <2>2, <2>3, <2>4
<1>3. CASE ~lost  BY <1>3, <1>1, TroubledAges DEF Mark
<1>4. QED  BY <1>2, <1>3

LEMMA EnterDated ==
  ASSUME Sound, Typed', Leased, Dated, NEW l \in Lists, NEW q \in Queues, Enter(l, q) PROVE Dated'
BY MarksDated DEF Enter

LEMMA MarkDated ==
  ASSUME Sound, Typed', Leased, Dated, NEW l \in Lists, NEW lost \in BOOLEAN, Mark(l, lost),
         UNCHANGED <<packet, tx, device, worker, fence, gpu>>
  PROVE  Dated'
<1>1. Typed /\ \A p \in list[l].packets : packet[p].gpu = "recorded"  BY DEF Sound, Leased, Listed
<1>2. /\ past'.overtaken = past.overtaken /\ past.unmarked \subseteq past'.unmarked
      /\ deferred.marked \subseteq deferred'.marked
      /\ deferred.uncertain => deferred'.uncertain
  BY <1>1, MarkParts
<1>3. /\ past'.older = past.older /\ past'.outdated = past.outdated
      /\ deferred'.marked \subseteq deferred.marked \cup list[l].packets
  BY <1>1, MarkAges
<1>4. QED  BY <1>1, <1>2, <1>3, MarksDated

LEMMA EscapeDated ==
  ASSUME Sound, Typed', Leased, Dated, NEW l \in Lists, Escape(l) PROVE Dated'
<1>1. escape_unordered(l) /\ UNCHANGED <<packet, tx, device, worker, fence, gpu>>  BY DEF Escape
<1>2. PICK lost \in BOOLEAN : Mark(l, lost)  BY <1>1 DEF escape_unordered
<1>3. QED  BY <1>1, <1>2, MarkDated

LEMMA RefuseDated ==
  ASSUME Sound, Typed', Leased, Dated, NEW l \in Lists, NEW q \in Queues, Refuse(l, q)
  PROVE  Dated'
<1>1. Typed /\ UNCHANGED <<packet, tx, device, worker, fence, gpu>>  BY DEF Sound, Refuse
<1>2. CASE Mark(l, FALSE)  BY <1>1, <1>2, MarkDated
<1>3. CASE deferred' = [deferred EXCEPT !.uncertain = TRUE] /\ Troubled(list[l].packets, past)
  <2>1. deferred \in [marked : SUBSET Packets, uncertain : BOOLEAN]  BY <1>1, TypeParts DEF Typed
  <2>2. deferred'.marked = deferred.marked /\ deferred'.uncertain  BY <1>3, <2>1
  <2>3. SameTrust /\ past'.older = past.older /\ past'.outdated = past.outdated
    BY <1>1, <1>3, TroubledAges
  <2>4. QED  BY <1>1, <2>2, <2>3, MarksDated DEF SameTrust
<1>4. QED  BY <1>2, <1>3 DEF Refuse

LEMMA OneSends ==
  ASSUME Typed, Typed', NEW q \in AllQueues, NEW op \in Operation,
         gpu' = [gpu EXCEPT ![q] = Append(gpu[q], op)]
  PROVE  op.kind = "write" => Sends(q, op.packets)
<1>1. PICK n \in Nat :
            /\ Longer /\ gpu'[q][n] = op /\ n \in 1..Len(gpu'[q])
            /\ \A r \in AllQueues : \A i \in Nat :
                  i \in 1..Len(gpu'[r]) => (r = q /\ i = n) \/
                                           (i \in 1..Len(gpu[r]) /\ gpu'[r][i] = gpu[r][i])
            /\ \A i \in Nat : i \in 1..Len(gpu[q]) => i < n
  BY OneMore
<1>2. \A p : p \notin op.packets => NoNew("write", p)  BY <1>1 DEF NoNew, Carries
<1>3. op.kind = "write" => \A p \in op.packets : Writing(q, n, p)'  BY <1>1 DEF Writing, Carries
<1>4. QED  BY <1>1, <1>2, <1>3 DEF Sends

LEMMA SendsIs ==
  ASSUME Typed, Typed', NEW q \in AllQueues, NEW S, Queued(q, "write", S) PROVE Sends(q, S)
<1>1. CASE S = {} /\ gpu' = gpu  BY <1>1, NothingNew DEF Sends
<1>2. ASSUME NEW op \in Operation, op.kind = "write", op.packets = S,
             gpu' = [gpu EXCEPT ![q] = Append(gpu[q], op)]
      PROVE  Sends(q, S)
  BY <1>2, OneSends
<1>3. QED  BY <1>1, <1>2 DEF Queued

\* What goes without a receipt is not kept.
LEMMA ForwardUnorderedDated ==
  ASSUME Sound, Typed', Leased, Dated, NEW l \in Lists, ForwardUnordered(l) PROVE Dated'
<1> DEFINE S == list[l].packets
<1>1. /\ Typed /\ list[l].at = "unordered" /\ S \in SUBSET Packets
      /\ UNCHANGED <<packet, tx, device, deferred, worker, gate, fence, past>>
      /\ \A p \in S : ~Kept(p)
  BY TypeParts DEF Sound, Leased, Outcast, Typed, ListTypes, ForwardUnordered
<1>2. PICK q \in AllQueues : q = list[l].queue  BY <1>1 DEF Typed, Placed, AllQueues
<1>3. gpu' = [gpu EXCEPT ![q] = Executed(q, "write", S)]  BY <1>2 DEF ForwardUnordered
<1>4. Longer /\ \A p : p \notin S => NoNew("write", p)  BY <1>1, <1>3, ExecutedIs, SendsIs DEF Sends
<1> HIDE DEF S
<1>5. /\ \A p \in Packets : SameReceipt(p)
      /\ \A p : Trusted(p)' => Trusted(p)
      /\ SameAges
  BY <1>1 DEF SameReceipt, Sent, Trusted, SameAges
<1>6. QED  BY <1>1, <1>4, <1>5, PlainDated

LEMMA QueueWaitDated ==
  ASSUME Sound, Typed', Leased, Dated, QueueWait PROVE Dated'
<1>1. /\ Typed /\ tx.at = "reserved" /\ tx.queue \in AllQueues /\ tx \in TxTypes
      /\ device.last \in Receipts
      /\ UNCHANGED <<packet, list, device, deferred, worker, gate, fence, past>>
  BY TypeParts DEF Sound, QueueWait, Typed, Placed, AllQueues, DeviceTypes
<1>2. tx'.at \in {"waited", "ordered"} /\ tx'.tails = tx.tails  BY <1>1 DEF QueueWait, TxTypes
<1>3. /\ \A p \in Packets : SameReceipt(p)
      /\ \A p : Trusted(p)' => Trusted(p)
      /\ SameAges
  BY <1>1, <1>2 DEF SameReceipt, Sent, Trusted, SameAges
<1>4. Longer /\ \A p : NoNew("write", p)
  <2>1. CASE gpu' = gpu  BY <1>1, <2>1, NothingNew
  <2>2. CASE gpu' = [gpu EXCEPT ![tx.queue] = Append(@, Op("wait", tx.packets, device.last, tx.by))]
    <3>1. PICK q \in AllQueues : q = tx.queue  BY <1>1
    <3>2. PICK op \in Operation : op = WaitOp /\ op.kind = "wait"
      BY <1>1, OpTypes DEF WaitOp, TxTypes
    <3>3. gpu' = [gpu EXCEPT ![q] = Append(gpu[q], op)]  BY <2>2, <3>1, <3>2 DEF WaitOp
    <3>4. PICK n \in Nat : Added(q, n, op)  BY <1>1, <3>3, OneMoreIs
    <3>5. QED  BY <3>2, <3>4 DEF Added, NoNew
  <2>3. QED  BY <2>1, <2>2 DEF QueueWait
<1>5. QED  BY <1>1, <1>2, <1>3, <1>4, PlainDated

LEMMA PublishWaitDated ==
  ASSUME Sound, Typed', Leased, Dated, PublishWait PROVE Dated'
<1>1. /\ Typed /\ tx.at = "waited" /\ tx \in TxTypes /\ tx' = [tx EXCEPT !.at = "ordered"]
      /\ UNCHANGED <<packet, list, device, deferred, worker, fence, gpu, past>>
  BY TypeParts DEF Sound, PublishWait, Typed
<1>2. tx'.at = "ordered" /\ tx'.tails = tx.tails  BY <1>1 DEF TxTypes
<1>3. /\ \A p \in Packets : SameReceipt(p)
      /\ \A p : Trusted(p)' => Trusted(p)
      /\ SameAges
  BY <1>1, <1>2 DEF SameReceipt, Sent, Trusted, SameAges
<1>4. Longer /\ \A p : NoNew("write", p)  BY <1>1, NothingNew
<1>5. QED  BY <1>1, <1>2, <1>3, <1>4, PlainDated

LEMMA WatchdogDated ==
  ASSUME Sound, Typed', Leased, Dated, WatchdogStep PROVE Dated'
<1>1. past \in PastTypes  BY TypeParts DEF Sound, Typed
<1>2. CASE CloseGate  BY <1>2, MarksDated DEF CloseGate
<1>3. CASE OpenGate  BY <1>1, <1>3, MarksDated DEF OpenGate, PastTypes
<1>4. CASE release_queued_waits
  <2>1. /\ UNCHANGED <<packet, list, tx, device, deferred, worker, gpu>>
        /\ past' = [past EXCEPT !.late = PastGate,
                                !.overtaken = @ \/ (Unreleased /\ fence < gate.waited)]
        /\ fence' = IF Unreleased /\ fence < gate.waited THEN gate.waited ELSE fence
    BY <1>4 DEF release_queued_waits
  <2>2. /\ past'.older = past.older /\ past'.outdated = past.outdated
        /\ past'.unmarked = past.unmarked
    BY <1>1, <2>1 DEF PastTypes
  <2>3. CASE ~(Unreleased /\ fence < gate.waited)
    BY <1>1, <2>1, <2>3, <2>2, MarksDated DEF PastTypes
  <2>4. CASE Unreleased /\ fence < gate.waited
    <3>1. past'.overtaken  BY <1>1, <2>1, <2>4 DEF PastTypes
    <3>2. \A p : ~Trusted(p)' /\ ~Sure(p)' /\ ~Filled(p)' /\ ~Kept(p)'
      BY <3>1 DEF Trusted, Sure, Filled, Kept
    <3>3. Queueing' /\ Aged' /\ Passe' /\ NewestFrameWins'
      BY <3>2 DEF Queueing, Aged, Passe, NewestFrameWins
    <3>4. Sane'  BY <2>1, <2>2 DEF Dated, Sane
    <3>5. QED  BY <3>3, <3>4 DEF Dated
  <2>5. QED  BY <2>3, <2>4
<1>5. QED  BY <1>2, <1>3, <1>4 DEF WatchdogStep

(* The worker takes and spends frames. *)

\* A frame that the worker has is filled, with the order of its record.
LEMMA FrameFilled ==
  ASSUME Sound, Leased, Safe, Sane, NEW p \in Packets, Trusted(p), packet[p].leased,
         ~packet[p].quarantined
  PROVE  Filled(p) /\ Ordinal(p) = packet[p].order
<1>1. Typed /\ Listed /\ packet[p] \in Packet /\ packet[p].gpu = "ready"  BY LeasedParts
<1>2. FrameOf(packet[p]) = "handed"  BY <1>1, FrameIs
<1>3. NoWrites(p)  BY <1>1, <1>2, HandedUnwritten
<1>4. packet[p].submitted  BY <1>1 DEF Sane
<1>5. ~Sent(p)  BY <1>1, ReceiptRecorded DEF Sent, InReceipt
<1>6. QED  BY <1>3, <1>4, <1>5 DEF Filled, Sure, Given, Ordinal

LEMMA SpendFields ==
  ASSUME Sound, Leased, NEW p \in Packets, NEW S, NEW value \in Receipts, Spends(p, S, value)
  PROVE  \E k \in Packet :
            /\ packet'[p] = k
            /\ k.quarantined = packet[p].quarantined /\ k.submitted = packet[p].submitted
            /\ k.order = packet[p].order /\ k.producer = packet[p].producer
            /\ \/ k = packet[p]
               \/ packet[p].leased /\ k.gpu = "consuming" /\ ~k.leased /\ p \in S
<1>1. packet[p] \in Packet  BY LeasedParts
<1>2. CASE p \in S /\ packet[p].leased /\ ~packet[p].quarantined
  <2>1. PICK k : k = [packet[p] EXCEPT !.gpu = "consuming", !.until = value, !.leased = FALSE]
    OBVIOUS
  <2>2. packet'[p] = k  BY <1>2, <2>1 DEF Spends, Spent
  <2>3. /\ k \in Packet /\ k.gpu = "consuming" /\ ~k.leased
        /\ k.quarantined = packet[p].quarantined /\ k.submitted = packet[p].submitted
        /\ k.order = packet[p].order /\ k.producer = packet[p].producer
    BY <1>1, <2>1 DEF Packet, GpuStates
  <2>4. QED  BY <1>2, <2>2, <2>3
<1>3. CASE ~(p \in S /\ packet[p].leased /\ ~packet[p].quarantined)  BY <1>3, <1>1 DEF Spends
<1>4. QED  BY <1>2, <1>3

LEMMA SpendsDated ==
  ASSUME Sound, Typed', Leased, Dated, NEW S, NEW value \in Receipts,
         \A p \in Packets : Spends(p, S, value),
         UNCHANGED <<tx, device, deferred, fence, gpu>>, SameTrust, past'.older = past.older
  PROVE  /\ Sane' /\ Queueing' /\ Aged' /\ (SameAges => Passe')
         /\ \A p \in Packets :
               /\ Filled(p)' => Filled(p) /\ Ordinal(p)' = Ordinal(p)
               /\ packet'[p].quarantined = packet[p].quarantined
               /\ Trusted(p)' <=> Trusted(p)
<1>1. ASSUME NEW p \in Packets
      PROVE  \E k \in Packet :
            /\ packet'[p] = k
            /\ k.quarantined = packet[p].quarantined /\ k.submitted = packet[p].submitted
            /\ k.order = packet[p].order /\ k.producer = packet[p].producer
            /\ \/ k = packet[p]
               \/ packet[p].leased /\ k.gpu = "consuming" /\ ~k.leased /\ p \in S
  BY <1>1, SpendFields
<1>2. Longer /\ \A p : NoNew("write", p)  BY NothingNew DEF Sound
<1>3. ASSUME NEW p \in Packets PROVE Passes(p) /\ (Trusted(p)' <=> Trusted(p))
  <2>1. PICK k \in Packet :
            /\ packet'[p] = k
            /\ k.quarantined = packet[p].quarantined /\ k.submitted = packet[p].submitted
            /\ k.order = packet[p].order /\ k.producer = packet[p].producer
            /\ \/ k = packet[p]
               \/ packet[p].leased /\ k.gpu = "consuming" /\ ~k.leased /\ p \in S
    BY <1>1
  <2>2. SameReceipt(p)  BY DEF SameReceipt, Sent
  <2>3. Trusted(p)' <=> Trusted(p)  BY Trusts
  <2>4. (Sure(p)' => Sure(p)) /\ (Kept(p)' => Kept(p))  BY <2>1, <2>3 DEF Sure, Kept, Doomed
  <2>5. QED  BY <1>2, <2>1, <2>2, <2>3, <2>4, SameOrder DEF Passes
<1>4. /\ Queueing' /\ Aged' /\ (SameAges => Passe')
      /\ \A p \in Packets : Filled(p)' => Filled(p) /\ Ordinal(p)' = Ordinal(p)
  BY <1>2, <1>3, PlainNewest DEF Dated
<1>5. ASSUME NEW p \in Packets
      PROVE  /\ packet'[p].gpu \notin {"idle", "recorded"} => packet'[p].submitted
             /\ packet'[p].leased /\ packet'[p].quarantined => device'.failed
             /\ p \in deferred'.marked => packet'[p].gpu = "recorded"
             /\ packet'[p].submitted = packet[p].submitted
  <2>1. PICK k \in Packet :
            /\ packet'[p] = k
            /\ k.quarantined = packet[p].quarantined /\ k.submitted = packet[p].submitted
            /\ \/ k = packet[p]
               \/ packet[p].leased /\ k.gpu = "consuming" /\ ~k.leased /\ p \in S
    BY <1>1
  <2>2. packet[p].leased => packet[p].gpu = "ready"  BY LeasedParts
  <2>3. QED  BY <2>1, <2>2 DEF Dated, Sane
<1>6. Sane'  BY TypeParts, <1>5 DEF Sound, Typed, TxTypes, Dated, Sane
<1>7. QED  BY <1>1, <1>3, <1>4, <1>6

\* Nothing is accepted.
LEMMA SpentDated ==
  ASSUME Sound, Typed', Leased, Dated, NEW S, NEW value \in Receipts,
         \A p \in Packets : Spends(p, S, value),
         UNCHANGED <<tx, device, deferred, fence, gpu, past>>,
         worker'.newest = worker.newest, worker'.pending \subseteq worker.pending
  PROVE  Dated'
<1>1. SameTrust /\ SameAges /\ past'.older = past.older  BY DEF SameTrust, SameAges
<1>2. /\ Sane' /\ Queueing' /\ Aged' /\ Passe'
      /\ \A p \in Packets : /\ packet'[p].quarantined = packet[p].quarantined
                            /\ Trusted(p)' <=> Trusted(p)
  BY <1>1, SpendsDated
<1>3. worker.pending \subseteq Packets  BY TypeParts DEF Sound, Typed, WorkerTypes
<1>4. NewestFrameWins'  BY <1>2, <1>3 DEF Dated, NewestFrameWins
<1>5. QED  BY <1>2, <1>4 DEF Dated

\* The frame that replaces the pending one has a later order than what was taken
\* before it, and than what is older than its content.
LEMMA AcceptDated ==
  ASSUME Sound, Typed', Leased, Safe, Dated, NEW p \in Packets, p \in worker.incoming,
         newer_than(p), NEW value \in Receipts,
         \A o \in Packets : Spends(o, worker.pending, value),
         UNCHANGED <<tx, device, deferred, fence, gpu>>, SameTrust, past'.older = past.older,
         past'.outdated = past.outdated \cup IF Trusted(p) THEN past.older[p] ELSE {},
         worker'.newest = packet[p].order, worker'.pending = {p}
  PROVE  Dated'
<1>1. /\ Sane' /\ Queueing' /\ Aged'
      /\ \A o \in Packets :
            /\ Filled(o)' => Filled(o) /\ Ordinal(o)' = Ordinal(o)
            /\ packet'[o].quarantined = packet[o].quarantined
            /\ Trusted(o)' <=> Trusted(o)
  BY SpendsDated
<1>2. /\ Typed /\ Listed /\ Outcast /\ packet[p].leased
      /\ packet[p].order > worker.newest
      /\ Sane /\ Aged /\ Passe
  BY LeasedParts DEF newer_than, Dated
<1>3. Trusted(p) /\ ~packet[p].quarantined => Filled(p) /\ Ordinal(p) = packet[p].order
  BY <1>2, FrameFilled
<1>4. \A o \in Packets : Ordinal(o) \in Nat /\ packet[o].order \in Nat /\ worker.newest \in Nat
  BY <1>2, OrderIs
<1>5. NewestFrameWins'
  <2>1. SUFFICES ASSUME Trusted(p)', ~packet'[p].quarantined PROVE p \notin past'.outdated
    BY DEF NewestFrameWins
  <2>2. Filled(p) /\ Ordinal(p) = packet[p].order  BY <1>1, <1>3, <2>1
  <2>3. p \notin past.outdated  BY <1>2, <1>4, <2>2 DEF Passe
  <2>4. p \notin past.older[p]  BY <1>2 DEF Sane
  <2>5. QED  BY <2>3, <2>4
<1>6. Passe'
  <2>1. SUFFICES ASSUME NEW o \in Packets, Filled(o)', o \in past'.outdated
                 PROVE  Ordinal(o)' <= packet[p].order
    BY DEF Passe
  <2>2. Filled(o) /\ Ordinal(o)' = Ordinal(o)  BY <1>1, <2>1
  <2>3. CASE o \in past.outdated  BY <1>2, <2>2, <2>3, <1>4 DEF Passe
  <2>4. CASE Trusted(p) /\ o \in past.older[p]
    <3>1. ~packet[p].quarantined
      <4>1. SUFFICES ASSUME packet[p].quarantined PROVE FALSE  OBVIOUS
      <4>2. device.failed  BY <1>2, <4>1 DEF Sane
      <4>3. packet[o].gpu = "idle" /\ packet[o] = Idle
        BY <1>2, <2>2, <4>2 DEF Outcast, Filled, Sure
      <4>4. ~packet[o].submitted /\ packet[o].gpu # "recorded"  BY <4>3 DEF Idle
      <4>5. InReceipt(o)  BY <2>2, <4>4 DEF Filled, Given, Sent, InReceipt
      <4>6. QED  BY <1>2, <4>4, <4>5, ReceiptRecorded
    <3>2. Ordinal(o) <= Ordinal(p)  BY <1>2, <1>3, <2>2, <2>4, <3>1 DEF Aged
    <3>3. QED  BY <1>3, <2>2, <2>4, <3>1, <3>2
  <2>5. QED  BY <2>1, <2>3, <2>4
<1>7. QED  BY <1>1, <1>5, <1>6 DEF Dated

LEMMA DiscardSpends ==
  ASSUME Sound, NEW S, packet' = Discarded(S)
  PROVE  device.last \in Receipts /\ \A p \in Packets : Spends(p, S, device.last)
BY TypeParts DEF Sound, Typed, DeviceTypes, Spends, Discarded

LEMMA TakeDated ==
  ASSUME Sound, Typed', Leased, Safe, Dated, NEW p \in Packets, Take(p) PROVE Dated'
<1>1. /\ worker \in WorkerTypes /\ past \in PastTypes /\ p \in worker.incoming
      /\ UNCHANGED <<list, tx, device, deferred, gate, fence, gpu>>
  BY TypeParts DEF Sound, Typed, Take
<1>2. CASE packet' = Discarded({p}) /\ worker' = [worker EXCEPT !.incoming = @ \ {p}]
           /\ UNCHANGED past
  BY <1>1, <1>2, DiscardSpends, SpentDated DEF WorkerTypes
<1>3. CASE /\ newer_than(p) /\ packet' = Discarded(worker.pending)
           /\ worker' = [worker EXCEPT !.incoming = @ \ {p}, !.pending = {p},
                                       !.newest = packet[p].order]
           /\ past' = [past EXCEPT !.outdated = @ \cup
                                        IF Trusted(p) THEN Outdated(p) ELSE {}]
  <2>1. worker'.pending = {p} /\ worker'.newest = packet[p].order  BY <1>1, <1>3 DEF WorkerTypes
  <2>2. PICK X : X = IF Trusted(p) THEN past.older[p] ELSE {}  OBVIOUS
  <2>3. past' = [past EXCEPT !.outdated = @ \cup X]  BY <1>3, <2>2, Zenon DEF Outdated
  <2>4. past'.outdated = past.outdated \cup X /\ past'.older = past.older /\ SameTrust
    BY <1>1, <2>3 DEF PastTypes, SameTrust
  <2>5. QED  BY <1>1, <1>3, <2>1, <2>2, <2>4, DiscardSpends, AcceptDated
<1>4. QED  BY <1>2, <1>3 DEF Take

LEMMA DropPendingDated ==
  ASSUME Sound, Typed', Leased, Dated, DropPending PROVE Dated'
<1>1. /\ worker \in WorkerTypes /\ packet' = Discarded(worker.pending)
      /\ worker' = [worker EXCEPT !.pending = {}]
      /\ UNCHANGED <<list, tx, device, deferred, gate, fence, gpu, past>>
  BY TypeParts DEF Sound, Typed, DropPending
<1>2. worker'.pending = {} /\ worker'.newest = worker.newest  BY <1>1 DEF WorkerTypes
<1>3. QED  BY <1>1, <1>2, DiscardSpends, SpentDated

LEMMA FinishConsumptionDated ==
  ASSUME Sound, Typed', Leased, Dated, FinishConsumption PROVE Dated'
<1>1. /\ worker \in WorkerTypes
      /\ worker' = [worker EXCEPT !.at = "idle", !.pending = {}, !.value = 0,
                                  !.page = @ \/ worker.pending = {}]
      /\ UNCHANGED <<list, tx, device, deferred, gate, fence, gpu, past>>
  BY TypeParts DEF Sound, Typed, FinishConsumption
<1>2. worker'.pending = {} /\ worker'.newest = worker.newest
  <2>1. PICK b \in BOOLEAN : b = (worker.page \/ worker.pending = {})  OBVIOUS
  <2>2. worker' = [worker EXCEPT !.at = "idle", !.pending = {}, !.value = 0, !.page = b]
    BY <1>1, <2>1
  <2>3. QED  BY <1>1, <2>2 DEF WorkerTypes
<1>3. PICK value \in Receipts : value = worker.value  BY <1>1 DEF WorkerTypes
<1>4. ASSUME NEW p \in Packets PROVE Spends(p, worker.pending, value)
  BY <1>3 DEF Spends, FinishConsumption, CoveredBy
<1>5. QED  BY <1>1, <1>2, <1>4, SpentDated

(* The receipt queues lists, or tails: the last order that is handed out. *)

LEMMA SentDated ==
  ASSUME Sound, Typed', Ordered, Leased, Dated, fence' = fence,
         UNCHANGED <<packet, device, deferred, worker>>, SameTrust, SameAges,
         tx.at \notin {"none", "reserved"}, tx'.tails = tx.tails,
         NEW q \in AllQueues, q = tx.queue, NEW T \in SUBSET Packets, Sends(q, T),
         NEW v \in Nat, v <= 2 * device.last + 3,
         \A p \in Packets \ T : SameReceipt(p) /\ (Kept(p) /\ Given(p) => Ordinal(p) <= v),
         \A p \in T : Sent(p)' /\ Ordinal(p)' = v /\ Producer(p)' = q
  PROVE  Dated'
<1>1. Typed /\ Longer /\ Queueing /\ Aged /\ Passe  BY DEF Sound, Dated, Sends
<1>2. \A p : (Trusted(p)' <=> Trusted(p)) /\ (Kept(p)' <=> Kept(p)) /\ (Sure(p)' <=> Sure(p))
  BY Trusts DEF Kept, Sure, Doomed
<1>3. ASSUME NEW p \in Packets, p \notin T
      PROVE  /\ Passes(p) /\ NoNew("write", p) /\ (Given(p)' <=> Given(p))
             /\ Ordinal(p)' = Ordinal(p) /\ Producer(p)' = Producer(p)
  BY <1>3, SameOrder, <1>2 DEF Sends, Passes
<1>4. ASSUME NEW p \in Packets, Filled(p)'
      PROVE  Filled(p) /\ Ordinal(p)' = Ordinal(p)
  BY <1>4, <1>1, <1>3, FilledPasses DEF Sends, Filled, NoWrites
<1>5. Aged' /\ Passe'  BY <1>1, <1>4 DEF Aged, Passe, SameAges
<1>6. ASSUME NEW p \in Packets, Kept(p)', Given(p)' PROVE Awaited(p)'
  <2>1. CASE p \notin T  BY <1>1, <1>2, <1>3, <1>6, <2>1, AwaitedPasses DEF Queueing
  <2>2. CASE p \in T
    <3>1. SUFFICES ASSUME v >= 2 * (fence + 2)
                   PROVE  \E i \in Nat :
                             /\ Writing(q, i, p)'
                             /\ \E j \in Nat : /\ j < i /\ Waiting(q, j)'
                                               /\ v <= 2 * gpu'[q][j].value + 3
      BY <2>2 DEF Awaited
    <3>2. PICK n \in Nat : /\ Writing(q, n, p)'
                           /\ \A i \in Nat : i \in 1..Len(gpu[q]) => i < n
      BY <2>2 DEF Sends
    <3>3. Behind  BY <1>2, <1>6, TrustedOrder, ChainedParts DEF Kept
    <3>4. ~(fence >= device.last)  BY <1>1, <3>1, Times
    <3>5. PICK j \in Nat : Waiting(q, j) /\ gpu[q][j].value = device.last  BY <3>3, <3>4 DEF Behind
    <3>6. Waiting(q, j)' /\ gpu'[q][j] = gpu[q][j] /\ j \in 1..Len(gpu[q])
      BY <1>1, <3>5, LongerOps DEF Waiting
    <3>7. QED  BY <3>2, <3>5, <3>6
  <2>3. QED  BY <2>1, <2>2
<1>7. ASSUME NEW p \in Packets, Kept(p)', Given(p)' PROVE Behindhand(p)'
  <2>1. p \notin T => Kept(p) /\ Given(p) /\ Behindhand(p)  BY <1>1, <1>2, <1>3, <1>7 DEF Queueing
  <2>2. PICK s \in AllQueues : s = Producer(p)' /\ (p \notin T => s = Producer(p))
                               /\ (p \in T => s = q)
    BY <1>3, <2>1, GivenIs
  <2>3. SUFFICES ASSUME NEW o \in Packets, NEW n \in Nat, Kept(o)', Given(o)',
                        Ordinal(o)' < Ordinal(p)', Writing(s, n, o)'
                 PROVE  \E i \in Nat : i > n /\ Writing(s, i, p)'
    BY <2>2 DEF Behindhand
  <2>4. \A m \in Packets : Ordinal(m) \in Nat  BY <1>1, OrderIs
  <2>5. o \notin T
    <3>1. CASE p \in T  BY <2>3, <3>1
    <3>2. CASE p \notin T  BY <1>3, <2>1, <2>3, <2>4, <3>2
    <3>3. QED  BY <3>1, <3>2
  <2>6. Kept(o) /\ Given(o) /\ Writing(s, n, o) /\ Ordinal(o)' = Ordinal(o)
    BY <1>2, <1>3, <2>3, <2>5 DEF NoNew, Writing
  <2>7. CASE p \in T
    <3>1. PICK i \in Nat : /\ Writing(q, i, p)'
                           /\ \A j \in Nat : j \in 1..Len(gpu[q]) => j < i
      BY <2>7 DEF Sends
    <3>2. n \in 1..Len(gpu[q])  BY <2>2, <2>6, <2>7 DEF Writing, Carries
    <3>3. QED  BY <2>2, <2>7, <3>1, <3>2
  <2>8. CASE p \notin T
    <3>1. PICK i \in Nat : i > n /\ Writing(s, i, p)
      BY <1>3, <2>1, <2>2, <2>3, <2>6, <2>8 DEF Behindhand
    <3>2. Writing(s, i, p)'  BY <1>1, <3>1, LongerCarries DEF Writing
    <3>3. QED  BY <3>1, <3>2
  <2>9. QED  BY <2>7, <2>8
<1>8. Sane'  BY TypeParts DEF Dated, Sane, SameAges, Sound, Typed, TxTypes
<1>9. NewestFrameWins'  BY <1>2 DEF Dated, NewestFrameWins, SameAges
<1>10. QED  BY <1>5, <1>6, <1>7, <1>8, <1>9 DEF Dated, Queueing

LEMMA ForwardDated ==
  ASSUME Sound, Typed', Ordered, Leased, Dated, Forward PROVE Dated'
<1>1. /\ Typed /\ Bounded /\ Listed /\ tx.at = "ordered" /\ tx' = [tx EXCEPT !.at = "forwarded"]
      /\ tx \in TxTypes /\ worker \in WorkerTypes
      /\ UNCHANGED <<packet, list, device, deferred, worker, gate, fence, past>>
  BY TypeParts DEF Sound, Leased, Typed, Forward
<1>2. PICK q \in AllQueues : q = tx.queue  BY <1>1, Held
<1>3. /\ tx'.at = "forwarded" /\ tx'.queue = tx.queue /\ tx'.value = tx.value
      /\ tx'.packets = tx.packets /\ tx'.tails = tx.tails /\ tx.tails = {}
      /\ tx.packets \in SUBSET Packets /\ tx.value = device.last + 1
  BY <1>1 DEF TxTypes, Listed, Bounded
<1>4. SameTrust /\ SameAges  BY <1>1 DEF SameTrust, SameAges
<1>5. Sends(q, tx.packets)
  <2>1. CASE tx.by = Private
    <3>1. q = Private /\ worker.pending \in SUBSET Packets /\ tx.packets = {}
      BY <1>1, <1>2, <2>1, SubmissionAssumption DEF Typed, Placed, WorkerTypes, Listed
    <3>2. gpu' = [gpu EXCEPT ![q] = Executed(q, "read", worker.pending)]
      BY <1>2, <2>1, <3>1 DEF Forward
    <3>3. Queued(q, "read", worker.pending)  BY <1>1, <3>1, <3>2, ExecutedIs
    <3>4. CASE gpu' = gpu  BY <1>1, <3>1, <3>4, NothingNew DEF Sends
    <3>5. ASSUME NEW op \in Operation, op.kind = "read",
                 gpu' = [gpu EXCEPT ![q] = Append(gpu[q], op)]
          PROVE  Sends(q, tx.packets)
      <4>1. PICK n \in Nat : Added(q, n, op)  BY <1>1, <3>5, OneMoreIs
      <4>2. QED  BY <3>1, <3>5, <4>1 DEF Added, NoNew, Sends
    <3>6. QED  BY <3>3, <3>4, <3>5 DEF Queued
  <2>2. CASE tx.by # Private  BY <1>2, <2>2, <1>1, <1>3, ExecutedIs, SendsIs DEF Forward
  <2>3. QED  BY <2>1, <2>2
<1>6. PICK v \in Nat : v = 2 * tx.value  BY <1>1, Times
<1>7. v <= 2 * device.last + 3  BY <1>1, <1>3, <1>6, Times
<1>8. ASSUME NEW p \in Packets, p \notin tx.packets
      PROVE  SameReceipt(p) /\ (Kept(p) /\ Given(p) => Ordinal(p) <= v)
  <2>1. ~Sent(p) /\ ~Sent(p)'  BY <1>1, <1>3, <1>8 DEF Sent
  <2>2. Kept(p) /\ Given(p) => Ordinal(p) < 2 * (device.last + 1)  BY <2>1, GivenIs
  <2>3. Ordinal(p) \in Nat /\ device.last \in Nat  BY <1>1, OrderIs, Times
  <2>4. QED  BY <1>3, <1>6, <2>1, <2>2, <2>3 DEF SameReceipt
<1>9. ASSUME NEW p \in tx.packets PROVE Sent(p)' /\ Ordinal(p)' = v /\ Producer(p)' = q
  BY <1>2, <1>3, <1>6 DEF Sent, Ordinal, Producer
<1>10. QED  BY <1>1, <1>2, <1>3, <1>4, <1>5, <1>7, <1>8, <1>9, SentDated

\* The tails are queued before the Signal.
LEMMA TailsSend ==
  ASSUME Typed, Typed', NEW success \in BOOLEAN, Signal(success), NEW q \in AllQueues,
         q = tx.queue
  PROVE  Sends(q, tx.tails)
<1>1. gpu \in GpuTypes /\ tx.tails \in SUBSET Packets /\ gpu[q] \in Seq(Operation)
      /\ tx.value \in Receipts /\ tx.by \in Lists \cup {Private, Null}
  BY TypeParts DEF Typed, TxTypes, GpuTypes
<1>2. Longer /\ \A p : p \notin tx.tails => NoNew("write", p)  BY SignalAdds DEF SignalAdded, NoNew
<1>3. SUFFICES ASSUME NEW p \in tx.tails
               PROVE  \E n \in Nat : /\ Writing(q, n, p)'
                                     /\ \A i \in Nat : i \in 1..Len(gpu[q]) => i < n
  BY <1>2 DEF Sends
<1>4. PICK op \in Operation : op = Op("write", tx.tails, 0, Null) /\ op.kind = "write"
                              /\ op.packets = tx.tails
  BY <1>1, Numbers, OpTypes
<1>5. PICK sg \in Operation : sg = Op("signal", {}, tx.value, tx.by)  BY <1>1, OpTypes
<1>6. PICK s \in Seq(Operation) : s = Append(gpu[q], op)
  <2>1. Append(gpu[q], op) \in Seq(Operation)  BY <1>1
  <2>2. QED  BY <2>1, Zenon
<1>7. Executed(q, "write", tx.tails) = s  BY <1>3, <1>4, <1>6, Zenon DEF Executed
<1>8. gpu' = [gpu EXCEPT ![q] = s \o IF success THEN <<sg>> ELSE << >>]  BY <1>5, <1>7 DEF Signal
<1>9. PICK n \in Nat : n = Len(gpu[q]) + 1  BY <1>1
<1>10. Len(s) = n /\ s[n] = op  BY <1>1, <1>6, <1>9, AppendProperties
<1>11. n \in 1..Len(gpu'[q]) /\ gpu'[q][n] = op
  <2>1. CASE success  BY <1>1, <1>8, <2>1, <1>9, <1>10, AppendProperties DEF GpuTypes
  <2>2. CASE ~success  BY <1>1, <1>8, <2>2, <1>9, <1>10 DEF GpuTypes
  <2>3. QED  BY <2>1, <2>2
<1>12. Writing(q, n, p)'  BY <1>4, <1>11 DEF Writing, Carries
<1>13. \A i \in Nat : i \in 1..Len(gpu[q]) => i < n  BY <1>1, <1>9
<1>14. QED  BY <1>12, <1>13

LEMMA SignalDated ==
  ASSUME Sound, Typed', Ordered, Leased, Dated, NEW success \in BOOLEAN, Signal(success)
  PROVE  Dated'
<1>1. /\ Typed /\ Bounded /\ tx \in TxTypes /\ past \in PastTypes /\ tx.at = "recorded"
      /\ UNCHANGED <<packet, list, device, deferred, worker, gate, fence>>
  BY TypeParts DEF Sound, Typed, Signal
<1>2. PICK q \in AllQueues : q = tx.queue  BY <1>1, Held
<1>3. /\ tx'.at = IF success THEN "signalled" ELSE "unsignalled"
      /\ tx'.queue = tx.queue /\ tx'.value = tx.value
      /\ tx'.packets = tx.packets /\ tx'.tails = tx.tails
      /\ tx.tails \in SUBSET Packets /\ tx.value = device.last + 1
  BY <1>1 DEF Signal, TxTypes, Bounded
<1>4. SameTrust /\ SameAges  BY <1>1 DEF Signal, PastTypes, SameTrust, SameAges
<1>5. Sends(q, tx.tails)  BY <1>1, <1>2, TailsSend
<1>6. PICK v \in Nat : v = 2 * tx.value + 1  BY <1>1, Times
<1>7. v <= 2 * device.last + 3  BY <1>1, <1>3, <1>6, Times
<1>8. ASSUME NEW p \in Packets, p \notin tx.tails
      PROVE  SameReceipt(p) /\ (Kept(p) /\ Given(p) => Ordinal(p) <= v)
  <2>1. SameReceipt(p)  BY <1>1, <1>3, <1>8 DEF Sent, SameReceipt
  <2>2. Kept(p) /\ Given(p) /\ ~Sent(p) => Ordinal(p) < 2 * (device.last + 1)  BY GivenIs
  <2>3. Sent(p) => Ordinal(p) = 2 * tx.value  BY <1>8 DEF Ordinal
  <2>4. Ordinal(p) \in Nat /\ device.last \in Nat  BY <1>1, OrderIs, Times
  <2>5. QED  BY <1>3, <1>6, <2>1, <2>2, <2>3, <2>4
<1>9. ASSUME NEW p \in tx.tails PROVE Sent(p)' /\ Ordinal(p)' = v /\ Producer(p)' = q
  BY <1>2, <1>3, <1>6 DEF Sent, Ordinal, Producer
<1>10. QED  BY <1>1, <1>2, <1>3, <1>4, <1>5, <1>7, <1>8, <1>9, SentDated

(* The GPU's steps. *)

\* What was written is newer than everything else.
LEMMA RunPast ==
  ASSUME Typed, NEW q \in AllQueues, Run(q)
  PROVE  /\ SameTrust
         /\ gpu[q][1].kind # "write" =>
               past'.older = past.older /\ past'.outdated = past.outdated
         /\ gpu[q][1].kind = "write" =>
               /\ past'.older = Rewritten(gpu[q][1].packets)
               /\ past'.outdated = past.outdated \ gpu[q][1].packets
<1> DEFINE op == Head(gpu[q])
<1>1. past' = CASE op.kind = "signal" -> [past EXCEPT !.setBack = @ \/ op.value < fence]
                [] op.kind = "write" ->
                      [past EXCEPT !.written = @ \cup op.packets,
                                   !.older = Rewritten(op.packets),
                                   !.outdated = @ \ op.packets]
                [] OTHER -> past
  BY Zenon DEF Run
<1>2. op = gpu[q][1] /\ past \in PastTypes  BY OpOf, TypeParts DEF Run, Typed
<1> HIDE DEF op
<1>3. CASE op.kind = "signal"
  <2>1. PICK b : b = (past.setBack \/ op.value < fence)  OBVIOUS
  <2>2. past' = [past EXCEPT !.setBack = b]  BY <1>1, <1>3, <2>1, Zenon
  <2>3. QED  BY <1>2, <1>3, <2>2 DEF PastTypes, SameTrust
<1>4. CASE op.kind = "write"
  <2>1. PICK S, O : S = op.packets /\ O = Rewritten(op.packets)  OBVIOUS
  <2>2. past' = [past EXCEPT !.written = @ \cup S, !.older = O, !.outdated = @ \ S]
    BY <1>1, <1>4, <2>1, Zenon
  <2>3. past'.older = O /\ past'.outdated = past.outdated \ S /\ SameTrust
    BY <1>2, <2>2 DEF PastTypes, SameTrust
  <2>4. QED  BY <1>2, <1>4, <2>1, <2>3
<1>5. CASE op.kind \notin {"signal", "write"}  BY <1>1, <1>2, <1>5 DEF SameTrust
<1>6. QED  BY <1>3, <1>4, <1>5

LEMMA RunSame ==
  ASSUME SameTrust, UNCHANGED <<packet, tx, deferred>>, NEW p
  PROVE  /\ (Trusted(p)' <=> Trusted(p)) /\ (Kept(p)' <=> Kept(p)) /\ (Sure(p)' <=> Sure(p))
         /\ Given(p)' <=> Given(p)
         /\ Ordinal(p)' = Ordinal(p) /\ Producer(p)' = Producer(p)
<1>1. Trusted(p)' <=> Trusted(p)  BY Trusts
<1>2. Sent(p)' <=> Sent(p)  BY DEF Sent
<1>3. Ordinal(p)' = Ordinal(p) /\ Producer(p)' = Producer(p)
  <2>1. CASE Sent(p)  BY <1>2, <2>1 DEF Ordinal, Producer
  <2>2. CASE ~Sent(p)  BY <1>2, <2>2 DEF Ordinal, Producer
  <2>3. QED  BY <2>1, <2>2
<1>4. QED  BY <1>1, <1>2, <1>3 DEF Kept, Sure, Doomed, Given

\* A Wait that has not been passed stays in front of the copy.
LEMMA RunAwaited ==
  ASSUME Sound, Ordered, Leased, NEW q \in AllQueues, Runs(q), NEW p \in Packets, Kept(p),
         Given(p), Awaited(p), Ordinal(p)' = Ordinal(p), Producer(p)' = Producer(p)
  PROVE  Awaited(p)'
<1>0. Typed /\ Chained  BY TrustedOrder DEF Sound, Kept
<1>1. PICK s \in AllQueues : s = Producer(p) /\ s = Producer(p)'  BY GivenIs
<1>2. SUFFICES ASSUME Ordinal(p) >= 2 * (fence' + 2)
               PROVE  \E i \in Nat : /\ Writing(s, i, p)'
                                     /\ \E j \in Nat : /\ j < i /\ Waiting(s, j)'
                                                       /\ Ordinal(p) <= 2 * gpu'[s][j].value + 3
  BY <1>1 DEF Awaited
<1>3. fence' >= fence /\ fence' \in Nat /\ fence \in Nat /\ Ordinal(p) \in Nat
  BY <1>0, RunHead, Times, OrderIs
<1>4. PICK i \in Nat, j \in Nat : /\ Writing(s, i, p) /\ j < i /\ Waiting(s, j)
                                  /\ Ordinal(p) <= 2 * gpu[s][j].value + 3
  BY <1>1, <1>2, <1>3 DEF Awaited
<1>5. gpu[s][j].value \in Nat /\ j > 0  BY <1>0, <1>4, OpOf
<1>6. s # q \/ j # 1
  <2>1. SUFFICES ASSUME s = q, j = 1 PROVE FALSE  OBVIOUS
  <2>2. gpu[q][1].kind = "wait" /\ fence >= gpu[q][1].value /\ fence' = fence
    BY <1>4, <2>1 DEF Waiting, Runs
  <2>3. QED  BY <1>2, <1>3, <1>4, <1>5, <2>1, <2>2
<1>7. CASE s # q  BY <1>0, <1>4, <1>7, RunCarries, RunMoves DEF Writing, NewPlace, SameOp
<1>8. CASE s = q
  <2>1. PICK m \in Nat, n \in Nat : m = i - 1 /\ n = j - 1 /\ n # 0  BY <1>4, <1>5, <1>6, <1>8
  <2>2. Writing(s, m, p)'  BY <1>0, <1>4, <1>5, <1>8, <2>1, RunCarries DEF Writing, NewPlace
  <2>3. NextOp(q, n) /\ n + 1 = j  BY <1>0, <2>1, RunMoves
  <2>4. Waiting(s, n)' /\ gpu'[s][n] = gpu[s][j]  BY <1>4, <1>8, <2>3 DEF NextOp
  <2>5. QED  BY <1>4, <2>1, <2>2, <2>4
<1>9. QED  BY <1>7, <1>8

LEMMA RunBehindhand ==
  ASSUME Sound, Leased, NEW q \in AllQueues, Runs(q), SameTrust,
         UNCHANGED <<packet, tx, deferred>>, NEW p \in Packets, Kept(p), Given(p), Behindhand(p)
  PROVE  Behindhand(p)'
<1>0. Typed /\ \A o \in Packets : /\ Kept(o)' <=> Kept(o)
                                  /\ Given(o)' <=> Given(o)
                                  /\ Ordinal(o)' = Ordinal(o) /\ Producer(o)' = Producer(o)
  BY RunSame DEF Sound
<1>1. PICK s \in AllQueues : s = Producer(p) /\ s = Producer(p)'  BY <1>0, GivenIs
<1>2. SUFFICES ASSUME NEW o \in Packets, NEW n \in Nat, Kept(o)', Given(o)',
                      Ordinal(o)' < Ordinal(p)', Writing(s, n, o)'
               PROVE  \E i \in Nat : i > n /\ Writing(s, i, p)'
  BY <1>1 DEF Behindhand
<1>3. PICK m \in Nat : m = OldPlace(q, s, n)  BY DEF OldPlace
<1>4. Writing(s, m, o) /\ n > 0  BY <1>0, <1>2, <1>3, RunCarries DEF Writing
<1>5. PICK i \in Nat : i > m /\ Writing(s, i, p)  BY <1>0, <1>1, <1>2, <1>4 DEF Behindhand
<1>6. i # 1 /\ NewPlace(q, s, i) \in Nat /\ NewPlace(q, s, i) > n
  BY <1>3, <1>4, <1>5 DEF OldPlace, NewPlace
<1>7. Writing(s, NewPlace(q, s, i), p)'  BY <1>0, <1>5, <1>6, RunCarries DEF Writing
<1>8. PICK k \in Nat : k = NewPlace(q, s, i)  BY <1>6
<1>9. QED  BY <1>6, <1>7, <1>8

\* A packet that the step does not write is filled only if it was.
LEMMA RunFilled ==
  ASSUME Typed, NEW q \in AllQueues, Runs(q), NEW p, NoWrites(p)', ~Writing(q, 1, p)
  PROVE  NoWrites(p)
<1> SUFFICES ASSUME NEW r \in AllQueues, NEW j \in Nat, Writing(r, j, p) PROVE FALSE
  BY DEF NoWrites
<1>1. r # q \/ j # 1  OBVIOUS
<1>2. PICK m : m = NewPlace(q, r, j)  OBVIOUS
<1>3. Writing(r, m, p)' /\ m \in Nat  BY <1>1, RunCarries, <1>2 DEF Writing, NewPlace
<1>4. QED  BY <1>3 DEF NoWrites

LEMMA RunDated ==
  ASSUME Sound, Typed', Ordered, Leased, Safe, Dated, NEW q \in AllQueues, Run(q) PROVE Dated'
<1> DEFINE S == gpu[q][1].packets
<1>1. /\ Typed /\ Runs(q) /\ Sane /\ Queueing /\ Aged /\ Passe
      /\ UNCHANGED <<packet, list, tx, device, deferred, worker, gate>>
  <2>1. UNCHANGED <<packet, list, tx, device, deferred, worker, gate>>  BY Zenon DEF Run
  <2>2. QED  BY <2>1, RunKeeps DEF Sound, Dated
<1>2. /\ SameTrust
      /\ gpu[q][1].kind # "write" =>
            past'.older = past.older /\ past'.outdated = past.outdated
      /\ gpu[q][1].kind = "write" =>
            past'.older = Rewritten(S) /\ past'.outdated = past.outdated \ S
  BY <1>1, RunPast
<1>3. \A p \in Packets : Writing(q, 1, p) <=> gpu[q][1].kind = "write" /\ p \in S
  BY <1>1, OpOf DEF Runs, Writing, Carries
<1> HIDE DEF S
<1>4. \A p \in Packets :
         /\ (Trusted(p)' <=> Trusted(p)) /\ (Kept(p)' <=> Kept(p)) /\ (Sure(p)' <=> Sure(p))
         /\ Given(p)' <=> Given(p)
         /\ Ordinal(p)' = Ordinal(p) /\ Producer(p)' = Producer(p)
  BY <1>1, <1>2, RunSame
<1>5. Queueing'
  <2>1. ASSUME NEW p \in Packets, Kept(p), Given(p) PROVE Awaited(p)' /\ Behindhand(p)'
    BY <1>1, <1>4, <2>1, <1>2, RunAwaited, RunBehindhand DEF Queueing
  <2>2. QED  BY <1>4, <2>1 DEF Queueing
<1>6. ASSUME NEW p \in Packets, Filled(p)', ~Writing(q, 1, p)
      PROVE  Filled(p) /\ Ordinal(p)' = Ordinal(p)
  BY <1>1, <1>4, <1>6, RunFilled DEF Filled
<1>7. ASSUME NEW p \in Packets, Filled(p)', Writing(q, 1, p)
      PROVE  Kept(p) /\ Given(p) /\ ~deferred.uncertain
  <2>1. Sure(p) /\ Given(p) /\ ~NoWrites(p)  BY <1>4, <1>7 DEF Filled, NoWrites
  <2>2. ~packet[p].leased  BY <1>1, <2>1, FrameFilled DEF Sure, Filled
  <2>3. Kept(p)  BY <1>1, <2>1, <2>2, SureIs
  <2>4. packet[p].gpu \in {"recorded", "retiring"}  BY <1>7, <2>1, <2>3, GivenIs DEF WritesCovered
  <2>5. QED  BY <2>1, <2>3, <2>4 DEF Kept, Doomed
<1>8. ASSUME NEW o \in Packets, NEW p \in Packets, Filled(o)', Filled(p)', o \in past'.older[p]
      PROVE  Ordinal(o)' <= Ordinal(p)'
  <2>1. CASE gpu[q][1].kind # "write"  BY <1>1, <1>2, <1>3, <1>6, <1>8, <2>1 DEF Aged
  <2>2. CASE gpu[q][1].kind = "write"
    <3>1. o \in (IF p \in S THEN past.written ELSE past.older[p]) \ S
      BY <1>2, <1>8, <2>2 DEF Rewritten
    <3>2. Filled(o) /\ Ordinal(o)' = Ordinal(o)  BY <1>3, <1>6, <1>8, <3>1
    <3>3. CASE p \notin S  BY <1>1, <1>3, <1>6, <1>8, <3>1, <3>2, <3>3 DEF Aged
    <3>4. CASE p \in S
      <4>1. Kept(p) /\ Given(p) /\ ~deferred.uncertain /\ Writing(q, 1, p)
        BY <1>3, <1>7, <1>8, <2>2, <3>4
      <4>2. Kept(o) /\ Given(o) /\ NoWrites(o)  BY <1>1, <3>2, <4>1, SureIs DEF Filled
      <4>3. ~(Ordinal(p) < Ordinal(o))  BY <1>1, <4>1, <4>2, LaterQueued
      <4>4. Ordinal(p) \in Nat /\ Ordinal(o) \in Nat  BY <1>1, OrderIs
      <4>5. QED  BY <1>4, <4>3, <4>4
    <3>5. QED  BY <3>3, <3>4
  <2>3. QED  BY <2>1, <2>2
<1>9. Passe'
  <2>1. SUFFICES ASSUME NEW o \in Packets, Filled(o)', o \in past'.outdated
                 PROVE  Ordinal(o)' <= worker.newest
    BY <1>1 DEF Passe
  <2>2. o \in past.outdated /\ ~Writing(q, 1, o)  BY <1>2, <1>3, <2>1
  <2>3. QED  BY <1>1, <1>6, <2>1, <2>2 DEF Passe
<1>10. Sane'
  <2>1. ASSUME NEW p \in Packets PROVE p \notin past'.older[p]  BY <1>1, <1>2 DEF Sane, Rewritten
  <2>2. QED  BY <1>1, <2>1 DEF Sane
<1>11. NewestFrameWins'
  BY <1>2, <1>1, TypeParts, <1>4 DEF Typed, WorkerTypes, Dated, NewestFrameWins
<1>12. QED  BY <1>5, <1>8, <1>9, <1>10, <1>11 DEF Dated, Aged

(* The steps of the mutex's holders. *)

LEMMA SettledLine ==
  ASSUME Sound, Leased, Sane, NEW p \in Packets
  PROVE  \E c \in Packet : /\ c = Settled[p] /\ SameButLost(packet[p], c)
                           /\ Line(packet[p], c) /\ (Astray(c) => Failing)
<1>1. /\ packet[p].leased <=> packet[p].gpu = "ready"
      /\ packet \in PacketTypes
  BY LeasedParts
<1>2. PICK S : Settled = Quarantine(packet, S) /\ S = IF deferred.uncertain THEN Packets
                                                   ELSE deferred.marked
  BY DEF Settled, fail_device
<1>3. PICK c \in Packet :
            /\ c = Quarantine(packet, S)[p]
            /\ \/ c = packet[p] /\ (p \in S => packet[p].gpu = "idle")
               \/ c = [packet[p] EXCEPT !.quarantined = TRUE] /\ packet[p].gpu # "idle" /\ p \in S
  BY <1>1, QuarantineCases
<1>4. SameButLost(packet[p], c)  BY <1>1, QuarantineOf, <1>3
<1>5. ASSUME Astray(c) PROVE Failing
  <2>1. packet[p].leased /\ packet[p].gpu = "ready"  BY <1>1, <1>4, <1>5 DEF SameButLost, Astray
  <2>2. CASE c = packet[p]  BY <1>5, <2>1, <2>2 DEF Sane, Failing, Astray
  <2>3. CASE p \in S  BY <1>2, <2>1, <2>3 DEF Sane, Failing
  <2>4. QED  BY <1>3, <2>2, <2>3
<1>6. Line(packet[p], c)  BY <1>4 DEF Line, Sane, SameButLost
<1>7. QED  BY <1>2, <1>3, <1>4, <1>5, <1>6

LEMMA CollectLine ==
  ASSUME NEW pk \in PacketTypes, NEW receipt, NEW p \in Packets, NEW k, Line(k, pk[p])
  PROVE  \E c \in Packet : /\ c = Collected(pk, receipt, fence)[p] /\ Line(k, c)
                           /\ Astray(c) => Astray(pk[p])
<1>1. PICK c \in Packet :
            /\ c = Collected(pk, receipt, fence)[p]
            /\ \/ p \in Recyclable(pk, fence) /\ c = Idle
               \/ /\ p \in Collectable(pk, receipt) /\ pk[p].submitted
                  /\ c = [pk[p] EXCEPT !.gpu = "retiring"]
               \/ p \in Collectable(pk, receipt) /\ ~pk[p].submitted /\ c = Idle
               \/ c = pk[p]
  BY CollectCases
<1>2. PICK m \in Packet : m = pk[p]  BY DEF PacketTypes
<1>3. /\ \/ c = Idle
         \/ m.submitted /\ c = [m EXCEPT !.gpu = "retiring"]
         \/ c = m
      /\ Line(k, m)
  BY <1>1, <1>2
<1>4. CASE c = Idle  BY <1>4, <1>1 DEF Idle, Line, Astray
<1>5. CASE m.submitted /\ c = [m EXCEPT !.gpu = "retiring"]
  BY <1>5, <1>3, <1>1, <1>2 DEF Packet, Line, Astray
<1>6. CASE c = m  BY <1>1, <1>2, <1>3, <1>6
<1>7. QED  BY <1>3, <1>4, <1>5, <1>6

LEMMA RestsFollow ==
  ASSUME Sound, Typed', Leased, Leased', SameTrust, NEW p \in Packets, NEW c \in Packet,
         packet'[p] = c, Rests(p, c), Line(packet[p], c), Astray(c) => device'.failed,
         SameReceipt(p), NoNew("write", p)
  PROVE  Follows(p, c)
<1>1. Trusted(p)' <=> Trusted(p)  BY Trusts
<1>2. ASSUME Sure(p)', Given(p)' PROVE Kept(p)
  <2>1. Trusted(p) /\ ~c.quarantined  BY <1>1, <1>2 DEF Sure
  <2>2. c.gpu # "idle"
    <3>1. SUFFICES ASSUME c.gpu = "idle" PROVE FALSE  OBVIOUS
    <3>2. ~c.submitted  BY <3>1 DEF Rests, Idle
    <3>3. p \in tx'.packets \cup tx'.tails  BY <1>2, <3>2 DEF Given, Sent
    <3>4. packet'[p].gpu = "recorded"  BY <3>3 DEF Leased, Listed
    <3>5. QED  BY <3>1, <3>4
  <2>3. ~Failing /\ ~packet[p].quarantined /\ p \notin deferred.marked  BY <2>1, <2>2 DEF Rests
  <2>4. QED  BY <2>1, <2>3 DEF Kept, Doomed, Failing
<1>3. ASSUME Sure(p)', Given(p)'
      PROVE  Given(p) /\ Ordinal(p)' = Ordinal(p) /\ Producer(p)' = Producer(p)
  <2>1. CASE Sent(p)'  BY <2>1 DEF SameReceipt, Given, Ordinal, Producer
  <2>2. CASE ~Sent(p)'  BY <1>3, <2>2 DEF Given, SameReceipt, Line, Ordinal, Producer
  <2>3. QED  BY <2>1, <2>2
<1>4. Passes(p)  BY <1>2, <1>3, SureIs DEF Passes, Kept, Sure, Doomed
<1>5. packet[p].leased /\ packet[p].quarantined => c.quarantined  BY DEF Rests, Idle
<1>6. QED  BY <1>4, <1>5 DEF Follows, Line, Astray

LEMMA HolderDated ==
  ASSUME Sound, Typed', Leased, Dated, Longer, fence' = fence, SameTrust, SameAges,
         worker'.pending = worker.pending, SettleMarks,
         \A p \in Packets : \E c \in Packet : Follows(p, c),
         \A p \in tx'.tails : ~packet'[p].submitted
  PROVE  Dated'
<1>1. ASSUME NEW p \in Packets
      PROVE  /\ Passes(p)
             /\ packet'[p].gpu \notin {"idle", "recorded"} => packet'[p].submitted
             /\ packet'[p].leased /\ packet'[p].quarantined => device'.failed
             /\ packet[p].leased /\ packet[p].quarantined => packet'[p].quarantined
  BY <1>1 DEF Follows
<1>2. Queueing' /\ Aged' /\ Passe'  BY <1>1, PlainNewest DEF Dated, SameAges
<1>3. Sane'  BY <1>1 DEF Dated, Sane, SameAges, SettleMarks
<1>4. NewestFrameWins'
  <2>1. \A p \in worker.pending : p \in Packets /\ packet[p].leased
    BY TypeParts DEF Sound, Leased, Handled, Typed, WorkerTypes
  <2>2. \A p \in Packets : Trusted(p)' <=> Trusted(p)  BY Trusts
  <2>3. QED  BY <1>1, <2>1, <2>2 DEF Dated, NewestFrameWins, SameAges
<1>5. QED  BY <1>2, <1>3, <1>4 DEF Dated

\* What is settled, and what is collected of it.
LEMMA SettledFollows ==
  ASSUME Sound, Typed', Ordered, Leased, Leased', Dated, gpu' = gpu, fence' = fence, SameTrust,
         NEW p \in Packets, packet'[p] = Settled[p], SameReceipt(p), Failing => device'.failed
  PROVE  \E c \in Packet : Follows(p, c)
<1>1. PICK c \in Packet : c = Settled[p] /\ Settles(p, c)  BY SettleSettles
<1>2. Line(packet[p], c) /\ (Astray(c) => device'.failed)  BY SettledLine, <1>1 DEF Dated
<1>3. Rests(p, c) /\ NoNew("write", p)  BY <1>1, NothingNew DEF Settles, Rests, Sound
<1>4. QED  BY <1>1, <1>2, <1>3, RestsFollow

LEMMA CollectedFollows ==
  ASSUME Sound, Typed', Ordered, Leased, Leased', Dated,
         gpu' = ProducerSignals(Settled, tx, gpu), fence' = fence, SameTrust,
         NEW p \in Packets, packet'[p] = Collected(Settled, tx, fence)[p],
         SameReceipt(p), Failing => device'.failed
  PROVE  \E c \in Packet : Follows(p, c)
<1>1. PICK c \in Packet : c = Collected(Settled, tx, fence)[p] /\ Settles(p, c)  BY CollectSettles
<1>2. Line(packet[p], c) /\ (Astray(c) => device'.failed)
  <2>1. PICK d \in Packet : d = Settled[p] /\ Line(packet[p], d) /\ (Astray(d) => Failing)
    BY SettledLine DEF Dated
  <2>2. Settled \in PacketTypes  BY LeasedParts
  <2>3. PICK b \in Packet : /\ b = Collected(Settled, tx, fence)[p] /\ Line(packet[p], b)
                            /\ Astray(b) => Astray(Settled[p])
    BY <2>1, <2>2, CollectLine
  <2>4. QED  BY <1>1, <2>1, <2>3
<1>3. Rests(p, c) /\ NoNew("write", p)  BY <1>1, CollectSignals DEF Settles, Rests, Sound
<1>4. QED  BY <1>1, <1>2, <1>3, RestsFollow

\* What is recorded is given to no receipt.
LEMMA RecordsFollow ==
  ASSUME Sound, Typed', Ordered, Leased, Leased', Dated,
         gpu' = ProducerSignals(Settled, tx, gpu), fence' = fence, SameTrust,
         NEW p \in Packets, NEW k \in Packet, Records(p, k), ~Sent(p)', Failing => device'.failed,
         \A o \in Packets \ {p} : SameReceipt(o)
  PROVE  \A o \in Packets : \E c \in Packet : Follows(o, c)
<1>1. ASSUME NEW o \in Packets, o # p PROVE \E c \in Packet : Follows(o, c)
  BY <1>1, CollectedFollows DEF Records
<1>2. Follows(p, k)
  <2>1. /\ packet'[p] = k /\ k.gpu = "recorded" /\ ~k.leased /\ ~k.submitted
        /\ Collected(Settled, tx, fence)[p].gpu = "idle"
    BY DEF Records, Available
  <2>2. ~Given(p)'  BY <2>1 DEF Given
  <2>3. PICK c \in Packet : c = Collected(Settled, tx, fence)[p] /\ Settles(p, c)  BY CollectSettles
  <2>4. ~packet[p].leased  BY <2>1, <2>3 DEF Settles
  <2>5. QED  BY <2>1, <2>2, <2>4 DEF Follows, Passes
<1>3. QED  BY <1>1, <1>2

\* Nobody has a receipt before, or it has not been queued after.
LEMMA NotSent ==
  ASSUME NEW p, tx.at \notin {"forwarded", "recorded", "signalled", "unsignalled"},
         tx'.at \notin {"forwarded", "recorded", "signalled", "unsignalled"}
  PROVE  SameReceipt(p)
BY DEF SameReceipt, Sent

LEMMA ReserveDated ==
  ASSUME Sound, Typed', Ordered, Leased, Dated, NEW l \in Lists, Reserve(l) PROVE Dated'
<1>1. /\ Typed /\ Listed /\ tx.by = Null /\ packet' = Settled /\ SettleMarks /\ SettleDevice
      /\ UNCHANGED <<worker, gate, fence, gpu>> /\ Leased'
  BY ReserveLeases DEF Sound, Leased, Reserve, LeaseStep
<1>2. tx.at = "none" /\ tx.tails = {}  BY <1>1, NoneOpen
<1>3. device'.failed <=> Failing  BY <1>1, SettleDeviceIs
<1>4. SameTrust /\ SameAges  BY <1>1, TroubledAges DEF Reserve, SameAges
<1>5. tx'.at \in {"none", "reserved"} /\ tx'.tails = {}
  <2>1. CASE tx' = tx  BY <1>2, <2>1
  <2>2. CASE begin_transaction(l, list[l].queue, list[l].packets)  BY <2>2, BeginTransactionIs
  <2>3. QED  BY <2>1, <2>2 DEF Reserve
<1>6. ASSUME NEW p \in Packets PROVE \E c \in Packet : Follows(p, c)
  BY <1>2, <1>5, NotSent, <1>1, <1>3, <1>4, SettledFollows
<1>7. Longer  BY <1>1, NothingNew
<1>8. QED  BY <1>1, <1>4, <1>5, <1>6, <1>7, HolderDated

LEMMA FailWaitDated ==
  ASSUME Sound, Typed', Ordered, Leased, Dated, FailWait PROVE Dated'
<1>1. /\ Typed /\ tx.at = "reserved" /\ packet' = fail_device(Settled) /\ SettleMarks
      /\ tx' = NoReceipt /\ UNCHANGED <<gate, fence, gpu>> /\ past \in PastTypes
      /\ device' = [device EXCEPT !.failed = TRUE] /\ device \in DeviceTypes
      /\ worker \in WorkerTypes /\ Leased' /\ Settled \in PacketTypes
  BY TypeParts, SettledTypes, FailWaitLeases DEF Sound, Leased, FailWait, Typed, LeaseStep
<1>2. device'.failed = TRUE  BY <1>1 DEF DeviceTypes
<1>3. worker'.pending = worker.pending /\ worker'.newest = worker.newest
  BY <1>1 DEF FailWait, WorkerTypes
<1>4. SameTrust /\ SameAges
  <2>1. PICK n : n = past.troubles + 1  OBVIOUS
  <2>2. past' = [past EXCEPT !.troubles = n]  BY <2>1 DEF FailWait
  <2>3. QED  BY <1>1, <1>3, <2>2 DEF SameTrust, SameAges, PastTypes
<1>5. tx'.at = "none" /\ tx'.tails = {}  BY <1>1 DEF NoReceipt
<1>6. ASSUME NEW p \in Packets PROVE \E c \in Packet : Follows(p, c)
  <2>1. PICK c \in Packet : c = Quarantine(Settled, Packets)[p] /\ Settles(p, c)
    BY <1>1, QuarantineSettles
  <2>2. Line(packet[p], c)
    <3>1. PICK k \in Packet : k = Settled[p] /\ Line(packet[p], k)  BY SettledLine DEF Dated
    <3>2. PICK b \in Packet : b = Quarantine(Settled, Packets)[p] /\ SameButLost(Settled[p], b)
      BY <1>1, QuarantineOf
    <3>3. SameButLost(k, c)  BY <2>1, <3>1, <3>2
    <3>4. QED  BY <3>1, <3>3 DEF Line, SameButLost
  <2>3. Rests(p, c) /\ NoNew("write", p) /\ packet'[p] = c
    BY <1>1, <2>1, NothingNew DEF Settles, Rests, fail_device
  <2>4. SameReceipt(p)  BY <1>1, <1>5, NotSent
  <2>5. QED  BY <1>1, <1>2, <1>4, <2>2, <2>3, <2>4, RestsFollow
<1>7. Longer  BY <1>1, NothingNew
<1>8. QED  BY <1>1, <1>3, <1>4, <1>5, <1>6, <1>7, HolderDated

LEMMA DrawDated ==
  ASSUME Sound, Typed', Ordered, Leased, Dated, Draw PROVE Dated'
<1>1. /\ Typed /\ Listed /\ tx.by = Null /\ packet' = Settled /\ SettleMarks /\ SettleDevice
      /\ UNCHANGED <<list, gate, fence, gpu, past>> /\ worker \in WorkerTypes /\ Leased'
  BY TypeParts, DrawLeases DEF Sound, Leased, Draw, Typed, LeaseStep
<1>2. tx.at = "none" /\ tx.tails = {}  BY <1>1, NoneOpen
<1>3. device'.failed <=> Failing  BY <1>1, SettleDeviceIs
<1>4. worker'.pending = worker.pending /\ worker'.newest = worker.newest
  BY <1>1 DEF Draw, WorkerTypes
<1>5. SameTrust /\ SameAges  BY <1>1, <1>4 DEF SameTrust, SameAges
<1>6. tx'.at \in {"none", "reserved"} /\ tx'.tails = {}
  <2>1. CASE tx' = tx  BY <1>2, <2>1
  <2>2. CASE begin_transaction(Private, Private, {})  BY <2>2, BeginTransactionIs
  <2>3. QED  BY <2>1, <2>2 DEF Draw
<1>7. ASSUME NEW p \in Packets PROVE \E c \in Packet : Follows(p, c)
  BY <1>2, <1>6, NotSent, <1>1, <1>3, <1>5, SettledFollows
<1>8. Longer  BY <1>1, NothingNew
<1>9. QED  BY <1>1, <1>4, <1>5, <1>6, <1>7, <1>8, HolderDated

LEMMA CaptureDated ==
  ASSUME Sound, Typed', Ordered, Leased, Dated, NEW l \in Lists, Capture(l) PROVE Dated'
<1> DEFINE ready == Collected(Settled, tx, fence)
<1>1. /\ Typed /\ Listed /\ ~Failing /\ SettleMarks /\ gpu' = ProducerSignals(Settled, tx, gpu)
      /\ UNCHANGED <<tx, device, worker, gate, fence, past>> /\ Leased'
      /\ ready \in PacketTypes
  BY CaptureLeases, LeasedParts, TypeParts, SettledTypes, CollectedTypes
  DEF Sound, Leased, Capture, LeaseStep, Typed
<1>2. PICK p \in Available(ready) : packet' = [ready EXCEPT ![p] = Recording]  BY DEF Capture
<1>3. p \in Packets /\ Recording \in Packet /\ Longer
  BY <1>1, <1>2, IdleType, CollectSignals DEF Available
<1>4. Records(p, Recording)  BY <1>1, <1>2, <1>3, RecordingIs DEF Records, PacketTypes
<1>5. SameTrust /\ SameAges  BY <1>1 DEF SameTrust, SameAges
<1>6. \A o \in Packets : SameReceipt(o)  BY <1>1 DEF SameReceipt, Sent
<1>7. p \notin tx.packets \cup tx.tails
  <2>1. PICK c \in Packet : c = ready[p] /\ Stays(p, c)  BY <1>1, <1>3, CollectSettles
  <2>2. c.gpu = "idle"  BY <1>4, <2>1 DEF Records, Available
  <2>3. QED  BY <1>1, <2>1, <2>2 DEF Listed, Stays
<1>8. ~Sent(p)' /\ (Failing => device'.failed)  BY <1>1, <1>7 DEF Sent
<1> HIDE DEF ready
<1>9. \A o \in Packets : \E c \in Packet : Follows(o, c)
  BY <1>1, <1>3, <1>4, <1>5, <1>6, <1>8, RecordsFollow
<1>10. \A o \in tx'.tails : ~packet'[o].submitted
  <2>1. ASSUME NEW o \in tx.tails PROVE ~packet'[o].submitted
    <3>1. o \in Packets /\ ~packet[o].submitted /\ o # p
      BY <1>1, <1>7, <2>1, TypeParts DEF Typed, TxTypes, Dated, Sane
    <3>2. PICK k \in Packet : k = Settled[o] /\ Line(packet[o], k)  BY <3>1, SettledLine DEF Dated
    <3>3. Settled \in PacketTypes  BY <3>1, LeasedParts
    <3>4. PICK b \in Packet : b = Collected(Settled, tx, fence)[o] /\ Line(packet[o], b)
      BY <3>1, <3>2, <3>3, CollectLine
    <3>5. QED  BY <1>4, <3>1, <3>4 DEF Records, Line
  <2>2. QED  BY <1>1, <2>1
<1>11. QED  BY <1>1, <1>3, <1>5, <1>9, <1>10, HolderDated

LEMMA ResetDated ==
  ASSUME Sound, Typed', Ordered, Leased, Dated, NEW l \in Lists, Reset(l) PROVE Dated'
<1>1. PICK S : S = list[l].packets  OBVIOUS
<1>2. /\ Typed /\ Listed /\ SettleMarks /\ SettleDevice /\ Leased'
      /\ packet' = Collected(retire_list(S), tx, fence)
      /\ gpu' = ProducerSignals(retire_list(S), tx, gpu)
      /\ UNCHANGED <<tx, worker, gate, fence, past>>
  BY <1>1, ResetLeases DEF Sound, Leased, Reset, CollectInto, LeaseStep
<1>3. S \in SUBSET Packets /\ \A o \in S : packet[o].gpu = "recorded"
  BY <1>1, <1>2, TypeParts DEF Typed, ListTypes, Listed
<1>4. (device'.failed <=> Failing) /\ SameTrust /\ SameAges
  BY <1>2, SettleDeviceIs DEF SameTrust, SameAges
<1>5. Longer /\ \A p : NoNew("write", p)  BY <1>2, CollectSignals
<1>6. ASSUME NEW p \in Packets
      PROVE  \E c \in Packet : /\ packet'[p] = c /\ Line(packet[p], c)
                               /\ Astray(c) => device'.failed
  <2>1. PICK k \in Packet : k = Settled[p] /\ Line(packet[p], k) /\ (Astray(k) => Failing)
    BY SettledLine DEF Dated
  <2>2. Settled \in PacketTypes  BY LeasedParts
  <2>3. PICK pk \in PacketTypes : pk = retire_list(S)  BY <2>2, RetireTypes
  <2>4. PICK m \in Packet : m = pk[p] /\ Line(packet[p], m) /\ (Astray(m) => Failing)
    <3>1. PICK m \in Packet : m = pk[p]  BY DEF PacketTypes
    <3>2. m = IF p \in S THEN [k EXCEPT !.retired = TRUE] ELSE k
      BY <2>1, <2>3, <3>1 DEF retire_list
    <3>3. /\ m.gpu = k.gpu /\ m.quarantined = k.quarantined /\ m.leased = k.leased
          /\ m.submitted = k.submitted /\ m.producer = k.producer /\ m.order = k.order
      BY <3>2 DEF Packet
    <3>4. Line(packet[p], m) /\ (Astray(m) => Failing)  BY <2>1, <3>3 DEF Line, Astray
    <3>5. QED  BY <3>1, <3>4
  <2>5. PICK c \in Packet : /\ c = Collected(pk, tx, fence)[p] /\ Line(packet[p], c)
                            /\ Astray(c) => Astray(pk[p])
    BY <2>4, CollectLine
  <2>6. QED  BY <1>2, <1>4, <2>3, <2>4, <2>5
<1>7. ASSUME NEW p \in Packets PROVE \E c \in Packet : Follows(p, c)
  <2>1. PICK c \in Packet : c = Collected(retire_list(S), tx, fence)[p] /\ Settles(p, c)
    BY <1>2, <1>3, RetireSettles
  <2>2. packet'[p] = c /\ Line(packet[p], c) /\ (Astray(c) => device'.failed)  BY <1>2, <1>6, <2>1
  <2>3. Rests(p, c) /\ SameReceipt(p)  BY <1>2, <2>1 DEF Settles, Rests, SameReceipt, Sent
  <2>4. QED  BY <1>2, <1>4, <1>5, <2>2, <2>3, RestsFollow
<1>8. \A p \in tx'.tails : ~packet'[p].submitted
  BY <1>2, TypeParts, <1>6 DEF Typed, TxTypes, Line, Dated, Sane
<1>9. QED  BY <1>2, <1>4, <1>5, <1>7, <1>8, HolderDated

LEMMA PollDated ==
  ASSUME Sound, Typed', Ordered, Leased, Dated, Poll PROVE Dated'
<1>1. /\ Typed /\ Listed /\ Leased' /\ UNCHANGED <<list, tx, gate, fence, past>>
      /\ SettleMarks /\ SettleDevice
      /\ gpu' = ProducerSignals(Settled, tx, gpu) /\ worker \in WorkerTypes
  BY TypeParts, PollLeases, Zenon DEF Sound, Leased, Poll, Typed, LeaseStep
<1>2. PICK current \in SUBSET Packets :
            /\ worker' = [worker EXCEPT !.incoming = IF Failing THEN {} ELSE current]
            /\ \A p \in Packets : \E c \in Packet, m \in Packet : PollMakes(p, c, m, current)
  BY PollIs
<1>3. worker'.pending = worker.pending /\ worker'.newest = worker.newest
  BY <1>1, <1>2 DEF WorkerTypes
<1>4. (device'.failed <=> Failing) /\ SameTrust /\ SameAges
  BY <1>1, <1>3, SettleDeviceIs DEF SameTrust, SameAges
<1>5. Longer /\ \A p : NoNew("write", p)  BY <1>1, CollectSignals
<1>6. ASSUME NEW p \in Packets
      PROVE  \E m \in Packet : /\ packet'[p] = m /\ Line(packet[p], m) /\ Rests(p, m)
                               /\ Astray(m) => device'.failed
  <2>1. PICK c \in Packet, m \in Packet : PollMakes(p, c, m, current)  BY <1>2
  <2>2. packet'[p] = m /\ Rests(p, m)
    <3>1. packet'[p] = m /\ Settles(p, m)  BY <2>1, PollSettles
    <3>2. QED  BY <3>1 DEF Settles, Rests
  <2>3. CASE m = c
    <3>1. PICK k \in Packet : k = Settled[p] /\ Line(packet[p], k) /\ (Astray(k) => Failing)
      BY SettledLine DEF Dated
    <3>2. Settled \in PacketTypes  BY LeasedParts
    <3>3. PICK b \in Packet : /\ b = Collected(Settled, tx, fence)[p] /\ Line(packet[p], b)
                              /\ Astray(b) => Astray(Settled[p])
      BY <3>1, <3>2, CollectLine
    <3>4. b = m  BY <2>1, <2>3, <3>3 DEF PollMakes
    <3>5. QED  BY <1>4, <2>2, <3>1, <3>3, <3>4
  <2>4. CASE m # c
    <3>1. /\ Polled(p, c) /\ m.submitted = c.submitted /\ m.producer = c.producer
          /\ m.order = c.order /\ (m.quarantined => ~m.leased)
      BY <2>1, <2>4 DEF PollMakes
    <3>2. c = packet[p] /\ c.submitted  BY <3>1 DEF Polled, Dated, Sane
    <3>3. QED  BY <2>2, <3>1, <3>2 DEF Line, Astray
  <2>5. QED  BY <2>3, <2>4
<1>7. ASSUME NEW p \in Packets PROVE \E c \in Packet : Follows(p, c)
  <2>1. PICK m \in Packet : /\ packet'[p] = m /\ Line(packet[p], m) /\ Rests(p, m)
                            /\ Astray(m) => device'.failed
    BY <1>6
  <2>2. SameReceipt(p)  BY <1>1 DEF SameReceipt, Sent
  <2>3. QED  BY <1>1, <1>4, <1>5, <2>1, <2>2, RestsFollow
<1>8. \A p \in tx'.tails : ~packet'[p].submitted
  BY <1>1, TypeParts, <1>6 DEF Typed, TxTypes, Line, Dated, Sane
<1>9. QED  BY <1>1, <1>3, <1>4, <1>5, <1>7, <1>8, HolderDated

LEMMA RecordTailsDated ==
  ASSUME Sound, Typed', Ordered, Leased, Dated, RecordTails PROVE Dated'
<1>1. /\ Typed /\ Listed /\ Leased' /\ tx.at = "forwarded" /\ SettleMarks /\ SettleDevice
      /\ UNCHANGED <<list, worker, gate, fence>> /\ tx.tails = {} /\ past \in PastTypes
      /\ Settled \in PacketTypes /\ Collected(Settled, tx, fence) \in PacketTypes
  <2>1. Leased'  BY RecordTailsLeases DEF LeaseStep
  <2>2. /\ tx.at = "forwarded" /\ SettleMarks /\ SettleDevice
        /\ UNCHANGED <<list, worker, gate, fence>>
    BY Zenon DEF RecordTails
  <2>3. QED
    BY <2>1, <2>2, LeasedParts, TypeParts, SettledTypes, CollectedTypes
       DEF Sound, Leased, Typed, Listed
<1>2. device'.failed <=> Failing  BY <1>1, SettleDeviceIs
<1>3. PICK tails \in SUBSET Packets :
            /\ tx'.at = "recorded" /\ tx'.by = tx.by /\ tx'.queue = tx.queue
            /\ tx'.value = tx.value /\ tx'.packets = tx.packets /\ tx'.tails = tails
            /\ SameTrust /\ past'.older = past.older /\ past'.outdated = past.outdated
            /\ \/ tails = {} /\ gpu' = gpu /\ packet' = Settled
               \/ /\ ~Failing /\ tx.by # Private /\ gpu' = ProducerSignals(Settled, tx, gpu)
                  /\ \/ tails = {} /\ packet' = Collected(Settled, tx, fence)
                     \/ \E p \in Packets, k \in Packet : tails = {p} /\ Records(p, k) /\ k.retired
  BY <1>1, RecordTailsIs
<1>4. SameAges  BY <1>1, <1>3 DEF SameAges
<1>5. Longer
  <2>1. CASE gpu' = gpu  BY <1>1, <2>1, SameLonger
  <2>2. CASE gpu' = ProducerSignals(Settled, tx, gpu)  BY <1>1, <2>2, CollectSignals
  <2>3. QED  BY <1>3, <2>1, <2>2
<1>6. \A o \in Packets : o \notin tails => SameReceipt(o)  BY <1>1, <1>3 DEF SameReceipt, Sent
<1>7. ASSUME tails = {} PROVE Dated'
  <2>1. ASSUME NEW p \in Packets PROVE \E c \in Packet : Follows(p, c)
    <3>1. SameReceipt(p)  BY <1>6, <1>7
    <3>2. CASE gpu' = gpu /\ packet' = Settled  BY <1>1, <1>2, <1>3, <3>1, <3>2, SettledFollows
    <3>3. CASE gpu' = ProducerSignals(Settled, tx, gpu) /\ packet' = Collected(Settled, tx, fence)
      BY <1>1, <1>2, <1>3, <3>1, <3>3, CollectedFollows
    <3>4. QED  BY <1>3, <1>7, <3>2, <3>3
  <2>2. QED  BY <1>1, <1>3, <1>4, <1>5, <1>7, <2>1, HolderDated
<1>8. ASSUME NEW p \in Packets, NEW k \in Packet, tails = {p}, Records(p, k), k.retired
      PROVE  Dated'
  <2>1. gpu' = ProducerSignals(Settled, tx, gpu)  BY <1>3, <1>8
  <2>2. p \notin tx.packets
    <3>1. PICK c \in Packet : c = Collected(Settled, tx, fence)[p] /\ Stays(p, c)
      BY <1>1, <2>1, CollectSettles
    <3>2. c.gpu = "idle"  BY <1>8, <3>1 DEF Records, Available
    <3>3. QED  BY <1>1, <3>1, <3>2 DEF Listed, Stays
  <2>3. ~Sent(p)'  BY <1>3, <2>2 DEF Sent
  <2>4. \A o \in Packets \ {p} : SameReceipt(o)  BY <1>6, <1>8
  <2>5. \A o \in Packets : \E c \in Packet : Follows(o, c)
    BY <1>1, <1>2, <1>3, <1>8, <2>1, <2>3, <2>4, RecordsFollow
  <2>6. \A o \in tx'.tails : ~packet'[o].submitted  BY <1>3, <1>8 DEF Records
  <2>7. QED  BY <1>1, <1>3, <1>4, <1>5, <2>5, <2>6, HolderDated
<1>9. QED  BY <1>3, <1>7, <1>8

\* A counted packet has, from now on, the order that the receipt gave it.
LEMMA FinishCountedFollows ==
  ASSUME Sound, Typed', Ordered, Leased, NEW refused \in BOOLEAN, Finished(TRUE, refused),
         NEW p \in Packets, ~refused, InReceipt(p),
         NEW m \in Packet, m = Final(TRUE, refused)[p], Counts(Settled[p], m),
         m.order = OwnOrder(p), Final(TRUE, refused) \in PacketTypes
  PROVE  \E c \in Packet : Follows(p, c)
<1>1. /\ Typed /\ Listed /\ Outcast /\ Covering /\ packet[p] \in Packet /\ SameTrust /\ tx' = NoReceipt
      /\ tx.at = "signalled" /\ fence' = fence
      /\ packet[p].leased <=> packet[p].gpu = "ready"
  BY LeasedParts DEF Finished, SameTrust
<1>2. PICK pk \in PacketTypes : pk = Final(TRUE, refused) /\ pk[p] = m  OBVIOUS
<1>3. packet' = Collected(pk, NoReceipt, fence) /\ gpu' = ProducerSignals(pk, NoReceipt, gpu)
  BY <1>2 DEF Finished
<1>4. PICK k \in Packet : k = Settled[p] /\ SameButLost(packet[p], k)  BY <1>1, SettledOf
<1>5. packet[p].gpu = "recorded" /\ k.gpu = "recorded" /\ ~packet[p].leased
  BY <1>1, <1>4, ReceiptRecorded DEF SameButLost
<1>6. m.gpu = "recorded" /\ ~m.leased /\ m.submitted /\ m.producer = tx.queue
  BY <1>4, <1>5 DEF Counts, SameButLost
<1>7. PICK c \in Packet : c = packet'[p] /\ (c = m \/ c = [m EXCEPT !.gpu = "retiring"])
  <2>1. p \notin Recyclable(pk, fence)  BY <1>2, <1>6 DEF Recyclable
  <2>2. PICK c \in Packet :
            /\ c = Collected(pk, NoReceipt, fence)[p]
            /\ \/ p \in Recyclable(pk, fence) /\ c = Idle
               \/ /\ p \in Collectable(pk, NoReceipt) /\ pk[p].submitted
                  /\ c = [pk[p] EXCEPT !.gpu = "retiring"]
               \/ p \in Collectable(pk, NoReceipt) /\ ~pk[p].submitted /\ c = Idle
               \/ c = pk[p]
    BY CollectCases
  <2>3. QED  BY <1>2, <1>3, <1>6, <2>1, <2>2
<1>8. /\ c.gpu \in {"recorded", "retiring"} /\ ~c.leased /\ c.submitted
      /\ c.producer = tx.queue /\ c.order = OwnOrder(p)
  <2>1. /\ c = m \/ c.gpu = "retiring"
        /\ c.leased = m.leased /\ c.submitted = m.submitted
        /\ c.producer = m.producer /\ c.order = m.order
    BY <1>7 DEF Packet
  <2>2. QED  BY <1>6, <2>1
<1>9. Sent(p) /\ Ordinal(p) = OwnOrder(p) /\ Producer(p) = tx.queue
  BY <1>1 DEF Sent, InReceipt, Ordinal, OwnOrder, Producer
<1>10. ~Sent(p)'  BY <1>1 DEF Sent, NoReceipt
<1>11. Ordinal(p)' = OwnOrder(p) /\ Producer(p)' = tx.queue
  BY <1>7, <1>8, <1>10 DEF Ordinal, Producer
<1>12. NoNew("write", p)  BY <1>1, <1>3, CollectSignals DEF Sound
<1>13. ASSUME Sure(p)' PROVE Kept(p)
  <2>1. PICK d \in Packet : packet'[p] = d /\ Rests(p, d)  BY FinishCounted
  <2>2. Rests(p, c)  BY <1>7, <2>1
  <2>3. Trusted(p) /\ ~c.quarantined  BY <1>1, <1>7, <1>13, Trusts DEF Sure
  <2>4. QED  BY <1>8, <2>2, <2>3 DEF Rests, Kept, Doomed, Failing
<1>14. Passes(p)  BY <1>9, <1>11, <1>12, <1>13 DEF Passes, Given, Kept, Sure, Doomed
<1>15. QED  BY <1>5, <1>7, <1>8, <1>14 DEF Follows

\* What is not counted is lost, or it was none of the receipt's.
LEMMA FinishOthersFollow ==
  ASSUME Sound, Typed', Ordered, Leased, Leased', Dated,
         NEW success \in BOOLEAN, NEW refused \in BOOLEAN,
         Finished(success, refused), NEW p \in Packets,
         NEW m \in Packet, m = Final(success, refused)[p], SameButLost(Settled[p], m),
         success /\ ~InReceipt(p) => m = Settled[p],
         ~success => m.gpu = "idle" \/ m.quarantined,
         InReceipt(p) => m.gpu = "idle" \/ m.quarantined,
         Final(success, refused) \in PacketTypes
  PROVE  \E c \in Packet : Follows(p, c)
<1>1. /\ Typed /\ Listed /\ packet[p] \in Packet /\ SameTrust /\ tx' = NoReceipt
      /\ tx.at \in {"signalled", "unsignalled"} /\ fence' = fence
      /\ packet[p].leased <=> packet[p].gpu = "ready"
      /\ device'.failed <=> Failing \/ ~success
  BY LeasedParts DEF Finished, SameTrust
<1>2. PICK pk \in PacketTypes : pk = Final(success, refused) /\ pk[p] = m  OBVIOUS
<1>3. packet' = Collected(pk, NoReceipt, fence) /\ gpu' = ProducerSignals(pk, NoReceipt, gpu)
  BY <1>2 DEF Finished
<1>4. PICK k \in Packet : /\ k = Settled[p] /\ SameButLost(packet[p], k)
                          /\ Line(packet[p], k) /\ (Astray(k) => Failing)
  BY SettledLine DEF Dated
<1>5. ~Sent(p)'  BY <1>1 DEF Sent, NoReceipt
<1>6. CASE ~InReceipt(p)
  <2>1. SameReceipt(p)  BY <1>5, <1>6 DEF SameReceipt, Sent, InReceipt
  <2>2. Line(packet[p], m)  BY <1>4 DEF SameButLost, Line
  <2>3. Astray(m) => device'.failed  BY <1>1, <1>4, <1>6
  <2>4. PICK c \in Packet : /\ c = Collected(pk, NoReceipt, fence)[p] /\ Line(packet[p], c)
                            /\ Astray(c) => Astray(pk[p])
    BY <1>2, <2>2, CollectLine
  <2>5. PICK d \in Packet : packet'[p] = d /\ Rests(p, d)  BY FinishOthers
  <2>6. packet'[p] = c /\ Rests(p, c) /\ (Astray(c) => device'.failed)
    BY <1>2, <1>3, <2>3, <2>4, <2>5
  <2>7. NoNew("write", p)  BY <1>1, <1>3, CollectSignals DEF Sound
  <2>8. QED  BY <1>1, <2>1, <2>4, <2>6, <2>7, RestsFollow
<1>7. CASE InReceipt(p)
  <2>1. m.gpu = "recorded" /\ m.quarantined /\ ~m.leased /\ ~packet[p].leased
    BY <1>1, <1>4, <1>7, ReceiptRecorded DEF SameButLost
  <2>2. PICK c \in Packet :
            /\ c = Collected(pk, NoReceipt, fence)[p]
            /\ \/ p \in Recyclable(pk, fence) /\ c = Idle
               \/ /\ p \in Collectable(pk, NoReceipt) /\ pk[p].submitted
                  /\ c = [pk[p] EXCEPT !.gpu = "retiring"]
               \/ p \in Collectable(pk, NoReceipt) /\ ~pk[p].submitted /\ c = Idle
               \/ c = pk[p]
    BY CollectCases
  <2>3. packet'[p] = m  BY <1>2, <1>3, <2>1, <2>2 DEF Recyclable, Collectable
  <2>4. ~Sure(p)'  BY <2>1, <2>3 DEF Sure
  <2>5. QED  BY <2>1, <2>3, <2>4 DEF Follows, Passes
<1>8. QED  BY <1>6, <1>7

LEMMA FinishDated == ASSUME Sound, Typed', Ordered, Leased, Dated, Finish PROVE Dated'
<1>1. PICK success \in BOOLEAN, refused \in BOOLEAN : Finished(success, refused)  BY FinishParts
<1>2. /\ Typed /\ Leased' /\ tx.at # "none" /\ SameTrust /\ SameAges /\ SettleMarks
      /\ fence' = fence /\ tx'.tails = {} /\ worker'.pending = worker.pending
  BY <1>1, FinishLeases DEF Finished, Sound, SameTrust, SameAges, NoReceipt, LeaseStep
<1>3. Longer  BY <1>1, <1>2, CollectSignals DEF Finished
<1>4. ASSUME NEW p \in Packets PROVE \E c \in Packet : Follows(p, c)
  <2>1. /\ Final(success, refused) \in PacketTypes
        /\ \E m \in Packet :
              /\ m = Final(success, refused)[p]
              /\ \/ success /\ ~refused /\ InReceipt(p) /\ Counts(Settled[p], m)
                    /\ m.order = OwnOrder(p)
                 \/ /\ SameButLost(Settled[p], m)
                    /\ success /\ ~InReceipt(p) => m = Settled[p]
                    /\ ~success => m.gpu = "idle" \/ m.quarantined
                    /\ InReceipt(p) => /\ m.gpu = "idle" \/ m.quarantined
                                       /\ ~success \/ refused
    BY <1>2, FinalOf
  <2>2. PICK m \in Packet :
              /\ m = Final(success, refused)[p]
              /\ \/ success /\ ~refused /\ InReceipt(p) /\ Counts(Settled[p], m)
                    /\ m.order = OwnOrder(p)
                 \/ /\ SameButLost(Settled[p], m)
                    /\ success /\ ~InReceipt(p) => m = Settled[p]
                    /\ ~success => m.gpu = "idle" \/ m.quarantined
                    /\ InReceipt(p) => m.gpu = "idle" \/ m.quarantined
    BY <2>1
  <2>3. CASE /\ success /\ ~refused /\ InReceipt(p) /\ Counts(Settled[p], m)
             /\ m.order = OwnOrder(p)
    BY <2>3, <1>1, <2>1, <2>2, FinishCountedFollows
  <2>4. CASE /\ SameButLost(Settled[p], m)
             /\ success /\ ~InReceipt(p) => m = Settled[p]
             /\ ~success => m.gpu = "idle" \/ m.quarantined
             /\ InReceipt(p) => m.gpu = "idle" \/ m.quarantined
    BY <1>1, <1>2, <2>1, <2>2, <2>4, FinishOthersFollow
  <2>5. QED  BY <2>2, <2>3, <2>4
<1>5. QED  BY <1>2, <1>3, <1>4, HolderDated

LEMMA NextDated ==
  ASSUME Sound, Typed', Ordered, Leased, Safe, Dated, [Next]_vars PROVE Dated'
<1>1. CASE UNCHANGED vars  BY <1>1, MarksDated DEF vars
<1>2. ASSUME NEW l \in Lists, ListStep(l) PROVE Dated'
  BY <1>2, CaptureDated, ResetDated, EnterDated, RefuseDated, EscapeDated,
     ForwardUnorderedDated, ReserveDated DEF ListStep
<1>3. CASE ReceiptStep
  BY <1>3, QueueWaitDated, FailWaitDated, PublishWaitDated, ForwardDated,
     RecordTailsDated, SignalDated, FinishDated DEF ReceiptStep
<1>4. CASE WorkerStep
  BY <1>4, PollDated, DropPendingDated, DrawDated, FinishConsumptionDated, TakeDated
  DEF WorkerStep
<1>5. CASE WatchdogStep  BY <1>5, WatchdogDated
<1>6. ASSUME NEW q \in AllQueues, Run(q) PROVE Dated'  BY <1>6, RunDated
<1>7. QED  BY <1>1, <1>2, <1>3, <1>4, <1>5, <1>6 DEF Next

LEMMA InitDated == ASSUME Init PROVE Dated
<1>1. /\ tx.packets = {} /\ tx.tails = {} /\ deferred.marked = {} /\ worker.pending = {}
      /\ \A p \in Packets : past.older[p] = {} /\ p \notin past.outdated
  BY DEF Init, NoReceipt
<1>2. \A p \in Packets : /\ packet[p] = Idle /\ ~packet[p].leased /\ packet[p].gpu = "idle"
                         /\ ~packet[p].submitted
  BY DEF Init, Idle
<1>3. \A p \in Packets : ~Given(p)  BY <1>1, <1>2 DEF Given, Sent
<1>4. Sane  BY <1>1, <1>2 DEF Sane
<1>5. QED  BY <1>1, <1>3, <1>4 DEF Dated, Queueing, Aged, Passe, Filled, NewestFrameWins

\* "Consumers must retain the newest order ... to reject delayed older captures"
\* (scene_capture_manager.hpp): what scene_runtime's worker has pending is never a
\* picture that the GPU wrote before one accepted already, whatever the order of the
\* polls, of the queues and of the receipts' ends, until the watchdog moves the timeline
\* ahead of the GPU, and but for a packet whose escape mark was lost.
THEOREM NewestWins == Spec => []NewestFrameWins
<1> DEFINE Inv == Sound /\ Released /\ Ordered /\ Leased /\ Safe /\ Dated
<1>1. Init => Inv  BY Inductive, InitLeased, InitDated
<1>2. Inv /\ [Next]_vars => Inv'
  <2> SUFFICES ASSUME Inv, [Next]_vars PROVE Inv'  OBVIOUS
  <2>1. (Sound /\ Released /\ Ordered)'  BY Inductive
  <2>2. LeaseStep  BY <2>1, NextLeases DEF Sound
  <2>3. Leased' /\ Safe'  BY <2>2, SafeStays DEF LeaseStep, Sound
  <2>4. Dated'  BY <2>1, NextDated DEF Sound
  <2>5. QED  BY <2>1, <2>3, <2>4
<1>3. Inv => NewestFrameWins  BY DEF Dated
<1>4. QED  BY <1>1, <1>2, <1>3, PTL DEF Spec

=============================================================================

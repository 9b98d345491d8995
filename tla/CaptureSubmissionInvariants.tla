-------------------- MODULE CaptureSubmissionInvariants --------------------
(***************************************************************************)
(* What the proofs about CaptureSubmission speak of: the parts of its        *)
(* inductive invariants, and the kinds of step its actions are, by what they *)
(* do to the timeline and to a packet.                                       *)
(***************************************************************************)
EXTENDS CaptureSubmission

(***************************************************************************)
(* Types.  A receipt is its thread's, on the thread's queue.                *)
(***************************************************************************)

Placed ==
    /\ \A l \in Lists : list[l].at # "free" => list[l].queue \in Queues
    /\ tx.at = "none" => tx.by = Null
    /\ tx.at # "none" =>
          \/ tx.by = Private /\ tx.queue = Private
          \/ tx.by \in Lists /\ tx.queue \in Queues /\ list[tx.by].at = "held"

Typed == TypeOK /\ Placed

\* The parts of the type invariant.
ListTypes == [at : {"free", "admitted", "unordered", "held"}, queue : Queues \cup {Null},
              packets : SUBSET Packets]

TxTypes ==
    [by : Lists \cup {Private, Null}, queue : AllQueues \cup {Null},
     at : {"none", "reserved", "waited", "ordered", "forwarded", "recorded",
           "signalled", "unsignalled"},
     value : Receipts, packets : SUBSET Packets, tails : SUBSET Packets, refused : BOOLEAN]

DeviceTypes == [last : Receipts, simQueue : Queues \cup {Null}, simSignal : Receipts,
                failed : BOOLEAN]

WorkerTypes == [at : {"idle", "held", "drawn", "failed"}, incoming : SUBSET Packets,
                pending : SUBSET Packets, newest : Orders, value : Receipts, page : BOOLEAN]

GateTypes == [open : BOOLEAN, at : {"watching", "releasing"}, waited : Receipts,
              released : Receipts, closes : 0..MaxCloses]

PastTypes == [written : SUBSET Packets, older : [Packets -> SUBSET Packets],
              outdated : SUBSET Packets, unmarked : SUBSET Packets,
              overtaken : BOOLEAN, setBack : BOOLEAN,
              late : SUBSET (Lists \cup {Private}), troubles : 0..MaxTroubles]

PacketTypes == [Packets -> Packet]
GpuTypes == [AllQueues -> Seq(Operation)]

(* The queues.  What matters of them is their Waits and Signals. *)

Timely == {"wait", "signal"}

\* The queue grew by n that are not of the timeline, or not at all.
Grown(old, new) ==
    /\ Len(old) <= Len(new)
    /\ \A i \in 1..Len(old) : new[i] = old[i]
    /\ \A i \in 1..Len(new) : i > Len(old) => new[i].kind \notin Timely

AllGrown == \A q \in AllQueues : Grown(gpu[q], gpu'[q])

(* The parts that many steps share. *)

\* The counters of the history that Waits and Signals do not concern.
SameTimes(history) ==
    /\ history.overtaken = past.overtaken /\ history.setBack = past.setBack
    /\ history.late = past.late

(***************************************************************************)
(* The timeline.  Its receipts form a chain: each waits for the one before. *)
(***************************************************************************)

\* The newest value whose Signal is queued.
Newest == IF tx.at = "signalled" THEN tx.value ELSE device.last

Waiting(q, i) == i \in 1..Len(gpu[q]) /\ gpu[q][i].kind = "wait"
Signalling(q, i) == i \in 1..Len(gpu[q]) /\ gpu[q][i].kind = "signal"

\* Nothing is beyond the receipts that were handed out.
Bounded ==
    /\ tx.at # "none" => tx.value = device.last + 1
    /\ gate.waited <= device.last /\ gate.released <= gate.waited
    /\ fence <= Newest
    /\ device.simSignal <= device.last
    /\ device.simSignal > 0 => device.simQueue \in Queues
    /\ \A q \in AllQueues : \A i \in Nat :
          /\ Waiting(q, i) => gpu[q][i].value <= device.last
          /\ Signalling(q, i) => gpu[q][i].value <= Newest

Sound == Typed /\ Bounded

\* The threads the watchdog did not see: they had passed the gate.
Excused == past.late \cup {Private}

\* A Wait is published once its thread has gone on, and a published one is released
\* when the gate closes.
Released ==
    /\ ~past.setBack => fence >= gate.released
    /\ \A q \in AllQueues : \A i \in Nat :
          Waiting(q, i) /\ gpu[q][i].value > gate.waited =>
              tx.at = "waited" /\ gpu[q][i].by = tx.by
    /\ ~gate.open /\ gate.at = "watching" =>
          /\ \A l \in Lists : list[l].at = "admitted" => l \in Excused
          /\ tx.at \in {"reserved", "waited"} => tx.by \in Excused
          /\ \A q \in Queues : \A i \in Nat :
                Waiting(q, i) => gpu[q][i].value <= gate.released \/ gpu[q][i].by \in past.late

\* The Signals of the timeline are queued once each, behind the Wait for the one
\* before, and run in order.
Chained ==
    /\ \A q \in AllQueues : \A i \in Nat : Signalling(q, i) =>
          /\ gpu[q][i].value > fence
          /\ \/ gpu[q][i].value <= fence + 1
             \/ \E j \in 1..(i - 1) :
                   Waiting(q, j) /\ gpu[q][j].value = gpu[q][i].value - 1
    /\ \A q, r \in AllQueues : \A i, j \in Nat :
          Signalling(q, i) /\ Signalling(r, j) /\ gpu[q][i].value = gpu[r][j].value =>
              q = r /\ i = j
    /\ tx.at \notin {"none", "reserved"} =>
          \/ fence >= device.last
          \/ \E j \in Nat : /\ Waiting(tx.queue, j) /\ gpu[tx.queue][j].value = device.last
                            /\ gpu[tx.queue][j].packets = tx.packets

\* A Wait of a batch with packets, at or beyond the value.
Blocked(q, j, value) ==
    Waiting(q, j) /\ gpu[q][j].packets # {} /\ gpu[q][j].value >= value

\* Receipts of other simulator queues than the last one are covered by a Wait of a
\* batch with packets; a batch without packets is ordered when there are no others.
Covered ==
    /\ \A q \in Queues : \A i \in Nat : Signalling(q, i) =>
          \/ gpu[q][i].value <= device.simSignal
          \/ tx.at = "signalled" /\ tx.queue = q /\ gpu[q][i].value = tx.value
    /\ \A q \in Queues : \A i \in Nat :
          Signalling(q, i) /\ gpu[q][i].value <= device.simSignal /\ q # device.simQueue =>
              \E j \in Nat : Blocked(device.simQueue, j, gpu[q][i].value)
    /\ tx.by \in Lists /\ tx.packets = {} => ~cross_queue_unfinished(tx.queue)
    /\ \A q \in Queues : \A i \in Nat : Waiting(q, i) /\ gpu[q][i].packets = {} =>
          \A r \in Queues \ {q} : \A k \in Nat :
              Signalling(r, k) /\ gpu[r][k].value <= gpu[q][i].value =>
                  \E j \in 1..(i - 1) : Blocked(q, j, gpu[r][k].value)

Ordered == ~past.overtaken => Chained /\ Covered

(* The kinds of step, by what they do to the timeline. *)

SameDevice ==
    /\ device'.last = device.last /\ device'.simQueue = device.simQueue
    /\ device'.simSignal = device.simSignal

\* A receipt goes on that queues neither a Wait nor a Signal.
Goes ==
    /\ tx'.by = tx.by /\ tx'.queue = tx.queue /\ tx'.value = tx.value /\ tx'.packets = tx.packets
    /\ tx.at \in {"reserved", "ordered", "forwarded", "recorded"}
    /\ tx.at = "reserved" => device.last = 0
    /\ tx'.at \in {"ordered", "forwarded", "recorded", "unsignalled"}

\* No new Wait: its queues hold the same Waits and Signals.
Still == UNCHANGED <<gate, fence>> /\ SameTimes(past') /\ AllGrown

Quiet ==
    /\ Still /\ SameDevice
    /\ \A l \in Lists : list'[l].at = "admitted" => list[l].at = "admitted" \/ gate.open
    /\ UNCHANGED tx \/ Goes

\* A list that is not held, and its thread's move.
Free(l) == list[l].at # "held"

\* A receipt is reserved for by, on the queue.
Begins ==
    /\ Still /\ SameDevice /\ tx.at = "none"
    /\ \E by \in Lists \cup {Private}, q \in AllQueues, S \in SUBSET Packets :
          /\ begin_transaction(by, q, S) /\ device.last < MaxReceipts
          /\ \/ by = Private /\ q = Private
             \/ /\ by \in Lists /\ q \in Queues /\ list[by].at = "admitted"
                /\ S = {} => ~cross_queue_unfinished(q)
    /\ \A l \in Lists : list'[l].at = "admitted" => list[l].at = "admitted"

\* The Wait for the last receipt is queued.
Waits ==
    /\ tx.at = "reserved" /\ device.last > 0
    /\ tx' = [tx EXCEPT !.at = "waited"]
    /\ gpu' = [gpu EXCEPT ![tx.queue] = Append(@, Op("wait", tx.packets, device.last, tx.by))]
    /\ UNCHANGED <<list, device, gate, fence, past>>

\* A receipt ends whose Signal was not queued.
Ends ==
    /\ Still /\ SameDevice /\ tx.at \in {"reserved", "unsignalled"} /\ tx' = NoReceipt
    /\ \A l \in Lists : list'[l].at = "admitted" => list[l].at = "admitted"

\* The receipt's own Signal is queued, behind its tails.
Signals ==
    /\ tx.at = "recorded" /\ tx' = [tx EXCEPT !.at = "signalled"]
    /\ UNCHANGED <<list, device, gate, fence>> /\ SameTimes(past')
    /\ \E s \in Seq(Operation) :
          /\ Grown(gpu[tx.queue], s)
          /\ gpu' = [gpu EXCEPT ![tx.queue] = Append(s, Op("signal", {}, tx.value, tx.by))]

\* A receipt ends whose Signal is queued: it is the last one now.
Finishes ==
    /\ Still /\ tx.at = "signalled" /\ tx' = NoReceipt
    /\ device'.last = tx.value
    /\ device'.simQueue = IF tx.by # Private THEN tx.queue ELSE device.simQueue
    /\ device'.simSignal = IF tx.by # Private THEN tx.value ELSE device.simSignal
    /\ \A l \in Lists : list'[l].at = "admitted" => list[l].at = "admitted"

(* The watchdog and the GPU. *)

\* The GPU runs the oldest operation of a queue.
Runs(q) ==
    /\ Len(gpu[q]) > 0 /\ gpu' = [gpu EXCEPT ![q] = Tail(@)]
    /\ gpu[q][1].kind = "wait" => fence >= gpu[q][1].value
    /\ fence' = IF gpu[q][1].kind = "signal" THEN gpu[q][1].value ELSE fence
    /\ past'.overtaken = past.overtaken /\ past'.late = past.late
    /\ ~past'.setBack => ~past.setBack /\ fence' >= fence
    /\ UNCHANGED <<list, tx, device, gate>>

(* Every step is of one of these kinds. *)

TimelineStep ==
    \/ Quiet \/ Begins \/ Waits \/ PublishWait \/ Ends \/ Signals \/ Finishes
    \/ CloseGate \/ release_queued_waits \/ OpenGate
    \/ \E q \in AllQueues : Runs(q)

(* The Waits and Signals of the queues, step by step. *)

\* The place of a queue holds the Wait or the Signal that it held, or none as before.
SameOp(q, i) ==
    /\ Waiting(q, i)' <=> Waiting(q, i)
    /\ Signalling(q, i)' <=> Signalling(q, i)
    /\ Waiting(q, i) \/ Signalling(q, i) => gpu'[q][i] = gpu[q][i]

SameOps == \A q \in AllQueues : \A i \in Nat : SameOp(q, i)

\* A new operation is the last of its queue, at n; everything else is as it was.
NewOp(q, n, op) ==
    /\ gpu'[q][n] = op
    /\ \A r \in AllQueues : \A i \in Nat : r # q \/ i # n => SameOp(r, i)
    /\ \A i \in Nat : Waiting(q, i) \/ Signalling(q, i) => i < n

\* The Wait, and the Signal, of the receipt.
WaitOp == Op("wait", tx.packets, device.last, tx.by)
SignalOp == Op("signal", {}, tx.value, tx.by)

\* The operations of the queue move up one place.
NextOp(q, i) ==
    /\ Waiting(q, i)' <=> Waiting(q, i + 1)
    /\ Signalling(q, i)' <=> Signalling(q, i + 1)
    /\ Waiting(q, i + 1) \/ Signalling(q, i + 1) => gpu'[q][i] = gpu[q][i + 1]

\* The queues' part of the bounds.
QueuesBounded ==
    \A q \in AllQueues : \A i \in Nat :
        /\ Waiting(q, i) => gpu[q][i].value <= device.last
        /\ Signalling(q, i) => gpu[q][i].value <= Newest

(***************************************************************************)
(* The gate.  What is queued and not published is the last receipt's own    *)
(* Wait, so the closing gate releases every other.                          *)
(***************************************************************************)

\* The part of Released that concerns unpublished Waits.
OwnWait ==
    \A q \in AllQueues : \A i \in Nat :
        Waiting(q, i) /\ gpu[q][i].value > gate.waited =>
            tx.at = "waited" /\ gpu[q][i].by = tx.by

\* The part of a closed gate.
Passed ==
    /\ \A l \in Lists : list[l].at = "admitted" => l \in Excused
    /\ tx.at \in {"reserved", "waited"} => tx.by \in Excused
    /\ \A q \in Queues : \A i \in Nat :
          Waiting(q, i) => gpu[q][i].value <= gate.released \/ gpu[q][i].by \in past.late

(***************************************************************************)
(* The chain.                                                              *)
(***************************************************************************)

\* A Signal comes next, or behind the Wait for the one before.
Next1(q, i) ==
    /\ gpu[q][i].value > fence
    /\ \/ gpu[q][i].value <= fence + 1
       \/ \E j \in 1..(i - 1) : Waiting(q, j) /\ gpu[q][j].value = gpu[q][i].value - 1

InTurn == \A q \in AllQueues : \A i \in Nat : Signalling(q, i) => Next1(q, i)

SignalledOnce ==
    \A q, r \in AllQueues : \A i, j \in Nat :
        Signalling(q, i) /\ Signalling(r, j) /\ gpu[q][i].value = gpu[r][j].value =>
            q = r /\ i = j

\* The receipt's own Wait, for the last one.
Behind ==
    tx.at \notin {"none", "reserved"} =>
        \/ fence >= device.last
        \/ \E j \in Nat : /\ Waiting(tx.queue, j) /\ gpu[tx.queue][j].value = device.last
                          /\ gpu[tx.queue][j].packets = tx.packets

(* A step of the GPU. *)

\* Where an operation of queue r is before, and after, a step of queue q.
OldPlace(q, r, i) == IF r = q THEN i + 1 ELSE i
NewPlace(q, r, j) == IF r = q THEN j - 1 ELSE j

(***************************************************************************)
(* The receipts of the other simulator queues.                              *)
(***************************************************************************)

\* A simulator queue's receipt is among the counted ones, or being counted.
Counted ==
    \A q \in Queues : \A i \in Nat : Signalling(q, i) =>
        \/ gpu[q][i].value <= device.simSignal
        \/ tx.at = "signalled" /\ tx.queue = q /\ gpu[q][i].value = tx.value

\* Those of other queues than the last one are covered by a Wait of that one.
OthersBlocked ==
    \A q \in Queues : \A i \in Nat :
        Signalling(q, i) /\ gpu[q][i].value <= device.simSignal /\ q # device.simQueue =>
            \E j \in Nat : Blocked(device.simQueue, j, gpu[q][i].value)

Admissible == tx.by \in Lists /\ tx.packets = {} => ~cross_queue_unfinished(tx.queue)

EmptyWaits ==
    \A q \in Queues : \A i \in Nat : Waiting(q, i) /\ gpu[q][i].packets = {} =>
        \A r \in Queues \ {q} : \A k \in Nat :
            Signalling(r, k) /\ gpu[r][k].value <= gpu[q][i].value =>
                \E j \in 1..(i - 1) : Blocked(q, j, gpu[r][k].value)

\* Blocked, in the next state.
BlockedAfter(q, j, value) ==
    /\ j \in 1..Len(gpu'[q]) /\ gpu'[q][j].kind = "wait"
    /\ gpu'[q][j].packets # {} /\ gpu'[q][j].value >= value

(***************************************************************************)
(* The contract of the packets, FrameLease: it keeps a texture to one side  *)
(* at a time, its writers or its readers.                                   *)
(***************************************************************************)

\* The packet as the contract sees it.
SlotOf(p) == [frame |-> Frame(p), writing |-> QueuedFor("write", p),
              reading |-> QueuedFor("read", p), trusted |-> Trusted(p)]

\* The part of the contract's property that concerns one texture.
Undisturbed(s) ==
    s.trusted =>
        /\ s.frame \in {"free", "handed", "spent"} => ~s.writing
        /\ s.frame \in {"free", "recorded"} => ~s.reading

(***************************************************************************)
(* The packets.  A queued copy is covered by a Signal behind it, and a       *)
(* packet moves on by the Signal that covers it, or by its producer's fence. *)
(***************************************************************************)

Carries(kind, q, i, p) ==
    i \in 1..Len(gpu[q]) /\ gpu[q][i].kind = kind /\ p \in gpu[q][i].packets
Writing(q, i, p) == Carries("write", q, i, p)
Reading(q, i, p) == Carries("read", q, i, p)
Finishing(q, i, p) == Carries("done", q, i, p)

InReceipt(p) == p \in tx.packets \cup tx.tails

\* What is recorded is in one list, or a tail of the receipt.
Listed ==
    /\ \A l \in Lists : \A p \in list[l].packets :
          packet[p].gpu = "recorded" /\ ~packet[p].retired
    /\ \A l, m \in Lists : list[l].packets \cap list[m].packets # {} => l = m
    /\ tx.packets = IF tx.by \in Lists THEN list[tx.by].packets ELSE {}
    /\ \A p \in tx.tails : packet[p].gpu = "recorded" /\ packet[p].retired
    /\ tx.tails # {} => tx.by \in Lists /\ tx.at \in {"recorded", "signalled", "unsignalled"}

\* The frames the worker has are those that are leased.
Handled ==
    /\ \A p \in Packets : packet[p].leased <=> packet[p].gpu = "ready"
    /\ \A p \in worker.pending \cup worker.incoming : packet[p].leased
    /\ worker.pending \cap worker.incoming = {}
    /\ tx.by = Private => worker.at = "held"

\* A packet whose mark, or whose device's, is not settled yet.
Doomed(p) ==
    \/ packet[p].quarantined
    \/ packet[p].gpu # "idle" /\ (p \in deferred.marked \/ deferred.uncertain)

Kept(p) == Trusted(p) /\ ~Doomed(p)

\* What goes without a receipt, and what a failed device had, is lost.
Outcast ==
    /\ \A p \in Packets : packet[p].gpu = "idle" => packet[p] = Idle
    /\ device.failed => \A p \in Packets : packet[p].gpu # "idle" => packet[p].quarantined
    /\ \A l \in Lists : list[l].at = "unordered" => \A p \in list[l].packets : ~Kept(p)

\* The receipt a packet was submitted with last.
OfOrder(k, value) == k.order \in {2 * value, 2 * value + 1}

\* A queued copy goes with the open receipt, or the Signal behind it is of one the
\* packet was submitted with.
Here(q, p) ==
    InReceipt(p) /\ q = tx.queue /\ tx.at \in {"forwarded", "recorded", "unsignalled"}

Enough(p, k, value) ==
    \/ k.submitted /\ 2 * value <= k.order
    \/ InReceipt(p) /\ tx.at = "signalled" /\ value = tx.value

WritesCovered(p, k) ==
    \A q \in AllQueues : \A i \in Nat : Writing(q, i, p) =>
        /\ k.gpu \in {"recorded", "retiring"}
        /\ \/ Here(q, p)
           \/ \E j \in Nat : Signalling(q, j) /\ j > i /\ Enough(p, k, gpu[q][j].value)

\* The Signal of the last one is queued where the packet's producer says.
LastSignalled(k) ==
    k.submitted =>
        /\ k.producer \in AllQueues /\ k.order < 2 * (device.last + 1)
        /\ k.order >= 2 * (fence + 1) =>
              \E j \in Nat : Signalling(k.producer, j) /\ OfOrder(k, gpu[k.producer][j].value)

\* The producer's fence follows: it is queued behind, or all has run there.
AllRan(p, k) ==
    k.order < 2 * (fence + 1) /\ \A i \in Nat : ~Writing(k.producer, i, p)

FenceBehind(p, k) ==
    \E n \in Nat :
        /\ Finishing(k.producer, n, p)
        /\ \A i \in Nat : Writing(k.producer, i, p) => i < n
        /\ \A j \in Nat :
              Signalling(k.producer, j) /\ OfOrder(k, gpu[k.producer][j].value) => j < n

Retiring(p, k) ==
    k.gpu = "retiring" => k.submitted /\ (AllRan(p, k) \/ FenceBehind(p, k))

\* A reader is the worker's, or is covered by the value the packet waits for.
SignalBehind(q, i, value) ==
    \E j \in Nat : Signalling(q, j) /\ j > i /\ gpu[q][j].value <= value

ReadCovered(i, p, k) ==
    /\ \/ p \in worker.pending /\ worker.at # "idle"
       \/ k.gpu = "consuming" /\ SignalBehind(Private, i, k.until)
    /\ p \in worker.pending =>
          /\ tx.by = Private /\ tx.at = "signalled" => SignalBehind(Private, i, tx.value)
          /\ worker.at = "drawn" => SignalBehind(Private, i, worker.value)

ReadsCovered(p, k) ==
    \A q \in AllQueues : \A i \in Nat : Reading(q, i, p) => q = Private /\ ReadCovered(i, p, k)

Covers(p, k) ==
    WritesCovered(p, k) /\ LastSignalled(k) /\ Retiring(p, k) /\ ReadsCovered(p, k)

\* The receipt's own Signal.
OwnSignal ==
    ~past.overtaken /\ tx.at = "signalled" /\ fence < tx.value =>
        \E j \in Nat : Signalling(tx.queue, j) /\ gpu[tx.queue][j].value = tx.value

Covering == \A p \in Packets : Kept(p) => Covers(p, packet[p])

Leased == Listed /\ Handled /\ Outcast /\ OwnSignal /\ Covering

(* The queues: what a step adds to them is behind what was there. *)

Longer ==
    \A q \in AllQueues :
        /\ Len(gpu[q]) <= Len(gpu'[q])
        /\ \A i \in 1..Len(gpu[q]) : gpu'[q][i] = gpu[q][i]

\* Nothing new has the packet.
NoNew(kind, p) ==
    \A q \in AllQueues : \A i \in Nat : Carries(kind, q, i, p)' => Carries(kind, q, i, p)

(* When a packet moves on. *)

\* No list that writes it and no reader is queued.
Untouched(p) == \A q \in AllQueues : \A i \in Nat : ~Writing(q, i, p) /\ ~Reading(q, i, p)

(* collect: its signals go behind everything. *)

SignalledWith(pk, receipt, q) ==
    {p \in Collectable(pk, receipt) : pk[p].submitted /\ pk[p].producer = q}

\* Covered in this state, and its producer's fence in the next.
CoversAfter(p, k) ==
    WritesCovered(p, k) /\ LastSignalled(k) /\ ReadsCovered(p, k) /\ Retiring(p, k)'

(* What a step leaves covered. *)

\* The receipt and the worker go on as they were for the packet, or in a way that
\* keeps what covers it.
Moves(p, k) ==
    /\ Longer /\ NoNew("write", p) /\ NoNew("read", p)
    /\ fence' = fence /\ device.last <= device'.last
    /\ \A q \in AllQueues : Here(q, p) => Here(q, p)'
    /\ \A value \in Nat : Enough(p, k, value) => Enough(p, k, value)'
    /\ p \in worker.pending /\ worker.at # "idle" => p \in worker'.pending /\ worker'.at # "idle"
    /\ p \in worker'.pending =>
          /\ p \in worker.pending
          /\ tx'.by = Private /\ tx'.at = "signalled" =>
                tx.by = Private /\ tx.at = "signalled" /\ tx'.value = tx.value
          /\ worker'.at = "drawn" =>
                \/ worker.at = "drawn" /\ worker'.value = worker.value
                \/ tx.by = Private /\ tx.at = "signalled" /\ worker'.value = tx.value

(* The packet as the contract sees it, while the queues hold what they held. *)

FrameOf(k) ==
    CASE k.gpu = "idle" -> "free"
      [] k.gpu # "idle" /\ k.quarantined -> "lost"
      [] k.gpu = "consuming" /\ ~k.quarantined -> "spent"
      [] k.gpu \notin {"idle", "consuming"} /\ ~k.quarantined ->
            IF k.leased THEN "handed" ELSE "recorded"

NoWrites(p) == \A q \in AllQueues : \A i \in Nat : ~Writing(q, i, p)
NoReads(p) == \A q \in AllQueues : \A i \in Nat : ~Reading(q, i, p)

\* What a frame's step needs of the queues.
FrameGoes(p, f, g) ==
    \/ f = g
    \/ f # "free" /\ g = "lost"
    \/ f \in {"free", "spent"} /\ g = "recorded" /\ (Trusted(p) => Untouched(p))
    \/ f = "recorded" /\ g = "handed" /\ (Trusted(p) => NoWrites(p))
    \/ f \in {"recorded", "handed"} /\ g = "spent" /\ (Trusted(p) => NoWrites(p))
    \/ f \in {"spent", "recorded"} /\ g = "free" /\ (Trusted(p) => Untouched(p))

SlotGoes(p) == SlotOf(p)' = SlotOf(p) \/ Lease!Step(SlotOf(p), SlotOf(p)')

\* The slot in its parts.
SlotIs(p, s) ==
    /\ s \in Lease!Slot /\ s.frame = FrameOf(packet[p])
    /\ s.writing <=> ~NoWrites(p)
    /\ s.reading <=> ~NoReads(p)
    /\ s.trusted <=> Trusted(p)

(* What every holder of the mutex finds. *)

\* The record without what a quarantine changes.
SameButLost(k, m) ==
    /\ m.gpu = k.gpu /\ m.retired = k.retired /\ m.leased = k.leased
    /\ m.submitted = k.submitted /\ m.producer = k.producer /\ m.order = k.order
    /\ m.until = k.until
    /\ m = k \/ (m.quarantined /\ m.gpu # "idle")

\* collect, packet by packet.
Gathers(pk, receipt, p, c) ==
    /\ c = Collected(pk, receipt, fence)[p]
    /\ Trusted(p) /\ ~c.quarantined => CoversAfter(p, c)
    /\ c.gpu = "idle" => c = Idle /\ (Trusted(p) => Untouched(p))
    /\ FrameGoes(p, FrameOf(pk[p]), FrameOf(c))
    /\ \/ c = pk[p]
       \/ ~pk[p].quarantined /\ pk[p].gpu = "consuming" /\ c = Idle
       \/ /\ ~pk[p].quarantined /\ p \in Collectable(pk, receipt)
          /\ c = Idle \/ c = [pk[p] EXCEPT !.gpu = "retiring"]

(* A step: what is kept, and what the contract sees. *)

\* What a holder of the mutex leaves of a packet.
Settles(p, c) ==
    /\ Trusted(p) /\ ~c.quarantined => CoversAfter(p, c)
    /\ c.gpu = "idle" => c = Idle /\ (Trusted(p) => Untouched(p))
    /\ FrameGoes(p, FrameOf(packet[p]), FrameOf(c))
    /\ c.leased <=> c.gpu = "ready"
    /\ packet[p].leased => c.leased
    /\ \/ Failing
       \/ packet[p].quarantined
       \/ p \in deferred.marked
       => c.gpu = "idle" \/ c.quarantined

\* The part of it that is no cover's.
Rests(p, c) ==
    /\ c.gpu = "idle" => c = Idle
    /\ c.leased <=> c.gpu = "ready"
    /\ packet[p].leased => c.leased
    /\ \/ Failing
       \/ packet[p].quarantined
       \/ p \in deferred.marked
       => c.gpu = "idle" \/ c.quarantined

\* What is in a list, or a tail of the receipt, stays recorded.
Stays(p, c) ==
    packet[p].gpu = "recorded" /\ (~packet[p].retired \/ p \in tx.tails) =>
        c.gpu = "recorded" /\ c.retired = packet[p].retired

(* The parts of the invariant, put together again. *)

SameTrust == past'.overtaken = past.overtaken /\ past'.unmarked = past.unmarked

\* What is still in a list, or a tail of the receipt.
Remains(p) == p \in tx.tails \/ \E l \in Lists : p \in list[l].packets

LeaseStep == Leased' /\ \A p \in Packets : SlotGoes(p)

(* The steps that only queue a Wait, set a mark or move a thread. *)

\* The receipt as it is, or on its way to the batch.
Approaches ==
    \/ tx' = tx
    \/ /\ tx'.by = tx.by /\ tx'.queue = tx.queue /\ tx'.value = tx.value
       /\ tx'.packets = tx.packets /\ tx'.tails = tx.tails
       /\ tx.at \in {"reserved", "waited"} /\ tx'.at \in {"waited", "ordered"}

(* A new operation, behind everything in its queue. *)

\* What the new operation brings to a packet.
Added(q, n, op) ==
    /\ Longer /\ gpu'[q][n] = op /\ n \in 1..Len(gpu'[q])
    /\ \A kind, p : \A r \in AllQueues : \A i \in Nat :
          Carries(kind, r, i, p)' =>
             Carries(kind, r, i, p) \/
             (r = q /\ i = n /\ op.kind = kind /\ p \in op.packets)
    /\ \A r \in AllQueues : \A j \in Nat :
          Signalling(r, j)' => Signalling(r, j) \/ (r = q /\ j = n /\ op.kind = "signal")
    /\ \A kind, p : \A i \in Nat : Carries(kind, q, i, p) => i < n
    /\ \A i \in Nat : Signalling(q, i) => i < n

(* The steps that queue lists and readers. *)

\* The list, or the reader, as one operation, if it has packets.
Queued(q, kind, S) ==
    \/ S = {} /\ gpu' = gpu
    \/ \E op \in Operation : /\ op.kind = kind /\ op.packets = S
                             /\ gpu' = [gpu EXCEPT ![q] = Append(gpu[q], op)]

(* Tails and the receipt's Signal. *)

\* The tails' lists go behind what is queued, the Signal behind them.
SignalAdded(q, n, success) ==
    /\ Longer
    /\ \A kind, p : \A r \in AllQueues : \A i \in Nat :
          Carries(kind, r, i, p)' =>
             Carries(kind, r, i, p) \/ (r = q /\ kind = "write" /\ p \in tx.tails)
    /\ \A r \in AllQueues : \A j \in Nat :
          Signalling(r, j)' => Signalling(r, j) \/ (success /\ r = q /\ j = n)
    /\ success => /\ Signalling(q, n)' /\ gpu'[q][n].value = tx.value
                  /\ \A kind, p : \A i \in Nat : Carries(kind, q, i, p)' => i < n

(* The worker's own steps. *)

\* What the contract promises of the packets.
Safe == \A p \in Packets : Undisturbed(SlotOf(p))

\* Frames are spent, or are not.
Spends(p, S, value) ==
    IF p \in S /\ packet[p].leased /\ ~packet[p].quarantined
    THEN packet'[p] = Spent(packet[p], value) ELSE packet'[p] = packet[p]

(* Holders of the mutex that record a copy into a packet that is free again. *)

Holds(l, p) == p \in list[l].packets

Records(p, k) ==
    /\ p \in Available(Collected(Settled, tx, fence)) /\ packet'[p] = k
    /\ k.gpu = "recorded" /\ ~k.quarantined /\ ~k.leased /\ ~k.submitted
    /\ \A o \in Packets \ {p} : packet'[o] = Collected(Settled, tx, fence)[o]

Repacked(l, S) ==
    \A m \in Lists : /\ list'[m].at = list[m].at
                    /\ list'[m].packets = IF m = l THEN S ELSE list[m].packets

(* The worker's poll. *)

\* A frame whose producer's fence has been reached.
Polled(p, c) ==
    /\ c = packet[p] /\ c = Collected(Settled, tx, fence)[p]
    /\ c.gpu = "retiring" /\ ~c.quarantined /\ ~c.leased /\ ~Failing /\ p \notin deferred.marked
    /\ Trusted(p) => Covers(p, c) /\ NoWrites(p) /\ NoReads(p)

\* What the poll makes of each packet, and which frames it hands out.
PollMakes(p, c, m, current) ==
    /\ c = Collected(Settled, tx, fence)[p] /\ packet'[p] = m
    /\ \/ m = c /\ p \notin current /\ Settles(p, c) /\ Stays(p, c)
       \/ /\ Polled(p, c)
          /\ m.submitted = c.submitted /\ m.producer = c.producer /\ m.order = c.order
          /\ \/ m.quarantined /\ m.gpu = "retiring" /\ ~m.leased
             \/ ~m.quarantined /\ m.gpu = "ready" /\ m.leased
             \/ ~m.quarantined /\ m.gpu = "consuming" /\ ~m.leased
          /\ p \in current => m.leased

(* Holders of the mutex that let packets of a list, or of the receipt, go. *)

\* What is left of a packet that may go.
Leaves(p, c) ==
    /\ Settles(p, c) /\ (Remains(p)' => Stays(p, c))
    /\ ~c.quarantined => Moves(p, c)

(* finish_receipt. *)

\* What the receipt's end makes of the packets, before it collects.
Final(success, refused) ==
    Accounted(IF success THEN Settled ELSE fail_device(Settled), success, refused)

\* A packet of the receipt is counted for it; the others are as they were, or lost.
Counts(k, m) ==
    /\ m.gpu = k.gpu /\ m.retired = k.retired /\ m.leased = k.leased
    /\ m.quarantined = k.quarantined /\ m.until = k.until
    /\ m.submitted /\ m.producer = tx.queue /\ OfOrder(m, tx.value)

\* The order that the receipt gives.
OwnOrder(p) == IF p \in tx.tails THEN 2 * tx.value + 1 ELSE 2 * tx.value

\* What a finished receipt leaves as it was: the lists' packets.
Finished(success, refused) ==
    /\ success <=> tx.at = "signalled"
    /\ refused <=> tx.refused \/ Failing
    /\ packet' = Collected(Final(success, refused), NoReceipt, fence)
    /\ gpu' = ProducerSignals(Final(success, refused), NoReceipt, gpu)
    /\ tx.at \in {"signalled", "unsignalled"} /\ SettleMarks /\ tx' = NoReceipt
    /\ UNCHANGED <<gate, fence, past>>
    /\ device'.last = IF success THEN tx.value ELSE device.last
    /\ device'.failed <=> Failing \/ ~success
    /\ worker'.pending = worker.pending /\ worker'.incoming = worker.incoming
    /\ worker'.newest = worker.newest
    /\ \/ worker' = worker
       \/ tx.by = Private /\ success /\ worker'.at = "drawn" /\ worker'.value = tx.value
       \/ tx.by = Private /\ worker'.at = "failed"
    /\ \A l \in Lists : /\ list'[l].packets = list[l].packets
                        /\ list'[l].at = "unordered" => list[l].at = "unordered"

(***************************************************************************)
(* The newest frame.  Frames are handed to the worker in whatever order it   *)
(* polls them; their order is that of the receipts, which is the order in    *)
(* which the GPU wrote them.                                                 *)
(***************************************************************************)

\* The open receipt's copies are queued with the order they will have.
Sent(p) ==
    \/ p \in tx.packets /\ tx.at \in {"forwarded", "recorded", "signalled", "unsignalled"}
    \/ p \in tx.tails /\ tx.at \in {"signalled", "unsignalled"}

Ordinal(p) ==
    IF Sent(p) THEN IF p \in tx.tails THEN 2 * tx.value + 1 ELSE 2 * tx.value
    ELSE packet[p].order

Producer(p) == IF Sent(p) THEN tx.queue ELSE packet[p].producer

Given(p) == Sent(p) \/ packet[p].submitted

\* A frame the worker has is sure even when the device is about to fail.
Sure(p) == Trusted(p) /\ ~packet[p].quarantined /\ (packet[p].leased \/ ~Doomed(p))

\* The content is that of the packet's order.
Filled(p) == Sure(p) /\ Given(p) /\ NoWrites(p)

\* The copy is queued while the receipt before its own has not been reached.
Awaited(p) ==
    Ordinal(p) >= 2 * (fence + 2) =>
        \E i \in Nat : /\ Writing(Producer(p), i, p)
                       /\ \E j \in Nat : /\ j < i /\ Waiting(Producer(p), j)
                                         /\ Ordinal(p) <= 2 * gpu[Producer(p)][j].value + 3

\* On its queue it is behind the copies of earlier orders.
Behindhand(p) ==
    \A q \in Packets : \A n \in Nat :
        Kept(q) /\ Given(q) /\ Ordinal(q) < Ordinal(p) /\ Writing(Producer(p), n, q) =>
            \E i \in Nat : i > n /\ Writing(Producer(p), i, p)

Queueing == \A p \in Packets : Kept(p) /\ Given(p) => Awaited(p) /\ Behindhand(p)

\* What is older has an earlier order.
Aged ==
    \A p, q \in Packets : Filled(p) /\ Filled(q) /\ p \in past.older[q] => Ordinal(p) <= Ordinal(q)

\* What was taken before an accepted frame is no newer than the newest one.
Passe == \A p \in Packets : Filled(p) /\ p \in past.outdated => Ordinal(p) <= worker.newest

\* What the packets and marks are besides.
Sane ==
    /\ \A p \in Packets :
          /\ packet[p].gpu \notin {"idle", "recorded"} => packet[p].submitted
          /\ packet[p].leased /\ packet[p].quarantined => device.failed
          /\ p \in deferred.marked => packet[p].gpu = "recorded"
          /\ p \notin past.older[p]
    /\ \A p \in tx.tails : ~packet[p].submitted

(* A step after which a packet's order is what it was, if the packet is sure. *)

Passes(p) ==
    Sure(p)' /\ Given(p)' =>
        /\ Sure(p) /\ Given(p)
        /\ Ordinal(p)' = Ordinal(p) /\ Producer(p)' = Producer(p)
        /\ Kept(p)' => Kept(p) /\ NoNew("write", p)

\* The worker has accepted nothing newer, and no content was written.
SameAges ==
    /\ past'.older = past.older /\ past'.outdated = past.outdated
    /\ worker'.newest = worker.newest

Dated == Sane /\ Queueing /\ Aged /\ Passe /\ NewestFrameWins

(* The steps that leave the packets as they are. *)

\* The open receipt has queued of the packet what it had.
SameReceipt(p) ==
    /\ Sent(p)' <=> Sent(p)
    /\ Sent(p)' => /\ tx'.value = tx.value /\ tx'.queue = tx.queue
                   /\ p \in tx'.tails <=> p \in tx.tails

\* Copies into the packets are queued, behind everything in their queue.
Sends(q, S) ==
    /\ Longer /\ \A p : p \notin S => NoNew("write", p)
    /\ \A p \in S : \E n \in Nat : /\ Writing(q, n, p)'
                                 /\ \A i \in Nat : i \in 1..Len(gpu[q]) => i < n

(* The steps of the mutex's holders. *)

\* What a packet keeps of its receipts.
Line(k, c) ==
    /\ c.submitted => k.submitted /\ c.order = k.order /\ c.producer = k.producer
    /\ c.gpu \notin {"idle", "recorded"} => c.submitted

\* A frame of the worker's that is lost.
Astray(k) == k.leased /\ k.quarantined

\* A packet whose order is what it was, if it is sure, and whose frame is not made sure.
Follows(p, c) ==
    /\ packet'[p] = c /\ Passes(p)
    /\ c.gpu \notin {"idle", "recorded"} => c.submitted
    /\ c.leased /\ c.quarantined => device'.failed
    /\ packet[p].leased /\ packet[p].quarantined => c.quarantined

=============================================================================

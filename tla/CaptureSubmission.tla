-------------------------- MODULE CaptureSubmission --------------------------
(***************************************************************************)
(* How captured frames travel through the simulator's submissions           *)
(* (graphics/scene_capture_manager.cpp, graphics/scene_capture_d3d12.cpp,   *)
(* hooks/queue_submit_observer.cpp, graphics/scene_runtime.cpp).            *)
(*                                                                          *)
(* A copy into a packet's texture is recorded into a simulator list, or     *)
(* into a private list queued behind a batch.  A batch with such work takes *)
(* the manager's only receipt: it waits on the GPU for the receipt before,  *)
(* is forwarded, and signals the device's timeline.  A batch that cannot be *)
(* ordered in time, or must not wait, escapes: its packets are marked, and  *)
(* whoever holds the manager's mutex next quarantines them.  The worker     *)
(* polls the finished frames and reads them on a queue of its own, under a  *)
(* receipt of its own.  The watchdog closes the gate and releases the Waits *)
(* that are queued.                                                         *)
(*                                                                          *)
(* What each list carries is known at once here; how it is learnt is the    *)
(* subject of ListEvidence.  Display copies are in SubmissionPool.          *)
(***************************************************************************)
EXTENDS Integers, Sequences, FiniteSets

CONSTANTS
    Lists,          \* simulator command lists with camera work, one thread each
    Packets,        \* packets_
    Queues,         \* the simulator's DIRECT queues
    Private,        \* the bridge's output queue
    Null,
    MaxReceipts,    \* bound on the timeline
    MaxTroubles,    \* bound: batches with packets that escape or are refused, failed calls
    MaxCloses       \* bound: closings of the gate

ASSUME SubmissionAssumption ==
    /\ Private \notin Queues /\ Private \notin Lists
    /\ Null \notin Lists \cup Queues \cup {Private}
    /\ MaxReceipts \in Nat /\ MaxTroubles \in Nat /\ MaxCloses \in Nat

VARIABLES
    packet,     \* Packet and its SceneCaptureD3D12
    list,       \* per list: the hook or recording step its thread is in, its packets
    tx,         \* transaction_ and the thread that holds submission_mutex_
    device,     \* Device
    deferred,   \* escape marks and deferred_uncertain_, until a holder of mutex_
    worker,     \* scene_runtime::service
    gate,       \* submission_gate_, published_timelines_ and the watchdog's step
    fence,      \* completed value of the device's timeline
    gpu,        \* per queue: what is queued and has not run
    past        \* history

vars == <<packet, list, tx, device, deferred, worker, gate, fence, gpu, past>>

-----------------------------------------------------------------------------
AllQueues == Queues \cup {Private}
Receipts == 0..MaxReceipts

Idle == [gpu |-> "idle", retired |-> FALSE, quarantined |-> FALSE, leased |-> FALSE,
         submitted |-> FALSE, producer |-> Null, order |-> 0, until |-> 0]

NoReceipt == [by |-> Null, queue |-> Null, at |-> "none", value |-> 0,
              packets |-> {}, tails |-> {}, refused |-> FALSE]

Init ==
    /\ packet = [p \in Packets |-> Idle]
    /\ list = [l \in Lists |-> [at |-> "free", queue |-> Null, packets |-> {}]]
    /\ tx = NoReceipt
    /\ device = [last |-> 0, simQueue |-> Null, simSignal |-> 0, failed |-> FALSE]
    /\ deferred = [marked |-> {}, uncertain |-> FALSE]
    /\ worker = [at |-> "idle", incoming |-> {}, pending |-> {}, newest |-> 0, value |-> 0,
                 page |-> FALSE]
    /\ gate = [open |-> TRUE, at |-> "watching", waited |-> 0, released |-> 0, closes |-> 0]
    /\ fence = 0
    /\ gpu = [q \in AllQueues |-> << >>]
    /\ past = [written |-> {}, older |-> [p \in Packets |-> {}], outdated |-> {},
               unmarked |-> {}, overtaken |-> FALSE, setBack |-> FALSE, late |-> {},
               troubles |-> 0]

\* A queued operation.  A Wait carries the batch's capture packets and its thread.
Op(kind, packets, value, by) ==
    [kind |-> kind, packets |-> packets, value |-> value, by |-> by]

Larger(m, n) == IF m > n THEN m ELSE n

-----------------------------------------------------------------------------
(* What every holder of mutex_ does first and last. *)

Assigned(pk) == {p \in Packets : pk[p].gpu # "idle"}
Quarantine(pk, S) ==
    [p \in Packets |-> IF p \in S \cap Assigned(pk)
                       THEN [pk[p] EXCEPT !.quarantined = TRUE] ELSE pk[p]]

\* fail_device quarantines every packet.
fail_device(pk) == Quarantine(pk, Packets)
Failing == device.failed \/ deferred.uncertain

\* apply_deferred.
Settled ==
    IF deferred.uncertain THEN fail_device(packet) ELSE Quarantine(packet, deferred.marked)
SettleMarks == deferred' = [marked |-> {}, uncertain |-> FALSE]
SettleDevice == device' = [device EXCEPT !.failed = Failing]

\* Packets whose recordings are retired and whose receipts have all returned.
Collectable(pk, receipt) ==
    {p \in Assigned(pk) :
        /\ pk[p].gpu = "recorded" /\ pk[p].retired /\ ~pk[p].quarantined
        /\ p \notin receipt.packets \cup receipt.tails}

\* recycle: the timeline has reached the value that covers the readers.
Recyclable(pk, value) ==
    {p \in Assigned(pk) :
        pk[p].gpu = "consuming" /\ ~pk[p].quarantined /\ pk[p].until <= value}

\* collect: a never submitted packet is free again, a submitted one is signalled
\* on the queue that ran it last.
Collected(pk, receipt, value) ==
    [p \in Packets |->
        CASE p \in Recyclable(pk, value) -> Idle
          [] p \in Collectable(pk, receipt) ->
                IF pk[p].submitted THEN [pk[p] EXCEPT !.gpu = "retiring"] ELSE Idle
          [] OTHER -> pk[p]]

ProducerSignals(pk, receipt, queues) ==
    [q \in AllQueues |->
        LET S == {p \in Collectable(pk, receipt) : pk[p].submitted /\ pk[p].producer = q}
        IN  IF S = {} THEN queues[q] ELSE Append(queues[q], Op("done", S, 0, Null))]

CollectInto(pk, receipt, queues) ==
    /\ packet' = Collected(pk, receipt, fence)
    /\ gpu' = ProducerSignals(pk, receipt, queues)

Available(pk) == {p \in Packets : pk[p].gpu = "idle" /\ ~pk[p].quarantined}

-----------------------------------------------------------------------------
(* Recording threads. *)

Stage(l, at) == list' = [list EXCEPT ![l].at = at]

Recording == [Idle EXCEPT !.gpu = "recorded"]

\* record_copy, capture_source: a snapshot of the source into a packet, one per
\* feed of a recording.  A list without packets may be recorded or submitted: its
\* Reset takes no lock (ListEvidence) and changes nothing here.
Capture(l) ==
    LET pk == Settled
        ready == Collected(pk, tx, fence)
    IN  /\ list[l].at = "free" /\ list[l].packets = {}
        /\ ~Failing
        /\ \E p \in Available(ready) :
              /\ packet' = [ready EXCEPT ![p] = Recording]
              /\ list' = [list EXCEPT ![l].packets = {p}]
        /\ gpu' = ProducerSignals(pk, tx, gpu)
        /\ SettleMarks
        /\ UNCHANGED <<tx, device, worker, gate, fence, past>>

\* Fault: a Reset recycles its packets before it has looked at the marks.
FaultMarksAfterRetire(S) == [p \in Packets |->
    IF p \in S THEN [packet[p] EXCEPT !.retired = TRUE] ELSE packet[p]]

\* retire_list: the recording's packets are retired, the marks on its word consumed.
retire_list(S) == [p \in Packets |->
    IF p \in S THEN [Settled[p] EXCEPT !.retired = TRUE] ELSE Settled[p]]

\* successful_reset of a list with packets; its previous submissions may still run.
Reset(l) ==
    /\ list[l].at = "free" /\ list[l].packets # {}
    /\ list' = [list EXCEPT ![l].packets = {}]
    /\ CollectInto(retire_list(list[l].packets), tx, gpu)
    /\ SettleMarks /\ SettleDevice
    /\ UNCHANGED <<tx, worker, gate, fence, past>>

-----------------------------------------------------------------------------
(* Submission threads: queue_submit::submit and before_submission. *)

\* submit_lock of a queue; released before an unordered forward.
Inside(q) == \E l \in Lists : list[l].queue = q /\ list[l].at \in {"admitted", "held"}

\* What is counted against MaxTroubles.
Trouble(S) == S # {} => past.troubles < MaxTroubles
Troubled(S, history) ==
    past' = IF S = {} THEN history ELSE [history EXCEPT !.troubles = @ + 1]

Submitting(l, q, at) == list' = [list EXCEPT ![l].queue = q, ![l].at = at]

\* The gate is read before any lock.
Enter(l, q) ==
    /\ list[l].at = "free" /\ ~Inside(q) /\ gate.open
    /\ Submitting(l, q, "admitted")
    /\ UNCHANGED <<packet, tx, device, deferred, worker, gate, fence, gpu, past>>

\* The mark of a batch is one compare-exchange on its word: it is lost when a
\* holder of mutex_ publishes the list at that moment.  A lost bounded mark
\* publishes only source uncertainty.
Mark(l, lost) ==
    LET S == list[l].packets IN
    /\ Trouble(S)
    /\ IF lost
       THEN Troubled(S, [past EXCEPT !.unmarked = @ \cup S]) /\ UNCHANGED deferred
       ELSE deferred' = [deferred EXCEPT !.marked = @ \cup S] /\ Troubled(S, past)

\* escape_unordered.
escape_unordered(l) == \E lost \in BOOLEAN : Mark(l, lost)

\* The gate is closed, or somebody holds a lock that is needed past the wait budget.
Escape(l) ==
    /\ \/ list[l].at = "admitted" /\ Submitting(l, list[l].queue, "unordered")
       \/ \E q \in Queues : /\ list[l].at = "free" /\ ~Inside(q) /\ ~gate.open
                            /\ Submitting(l, q, "unordered")
    /\ escape_unordered(l)
    /\ UNCHANGED <<packet, tx, device, worker, gate, fence, gpu>>

\* Another thread is inside the wrapper of this queue, perhaps with lists that carry
\* nothing of the bridge: submission_refused_batch.  A lost mark fails the device here.
Refuse(l, q) ==
    /\ list[l].at = "free"
    /\ Submitting(l, q, "unordered")
    /\ \/ Mark(l, FALSE)
       \/ /\ list[l].packets # {} /\ Trouble(list[l].packets)
          /\ deferred' = [deferred EXCEPT !.uncertain = TRUE]
          /\ Troubled(list[l].packets, past)
    /\ UNCHANGED <<packet, tx, device, worker, gate, fence, gpu>>

Executed(q, kind, S) ==
    IF S = {} THEN gpu[q] ELSE Append(gpu[q], Op(kind, S, 0, Null))

\* The batch is forwarded without a receipt.
ForwardUnordered(l) ==
    LET q == list[l].queue IN
    /\ list[l].at = "unordered"
    /\ gpu' = [gpu EXCEPT ![q] = Executed(q, "write", list[l].packets)]
    /\ list' = [list EXCEPT ![l].at = "free", ![l].queue = Null]
    /\ UNCHANGED <<packet, tx, device, deferred, worker, gate, fence, past>>

-----------------------------------------------------------------------------
(* The receipt.  Both locks are held to reserve it; then submission_mutex_ alone. *)

\* Fault: only the last receipt is looked at, which may be private work.
FaultLastReceiptOnly(q) ==
    /\ device.simSignal = device.last
    /\ device.simSignal > 0 /\ device.simQueue # q /\ fence < device.simSignal

\* Issue 97: the Wait could close a cycle with the simulator's own waits.
cross_queue_unfinished(q) ==
    device.simSignal > 0 /\ device.simQueue # q /\ fence < device.simSignal

begin_transaction(by, q, S) ==
    tx' = [by |-> by, queue |-> q, at |-> "reserved", value |-> device.last + 1,
           packets |-> S, tails |-> {}, refused |-> FALSE]

Reserve(l) ==
    /\ list[l].at = "admitted" /\ tx.by = Null
    /\ IF Failing \/ (cross_queue_unfinished(list[l].queue) /\ list[l].packets = {})
       THEN /\ Stage(l, "unordered")
            /\ Trouble(list[l].packets) /\ Troubled(list[l].packets, past)
            /\ UNCHANGED tx
       ELSE /\ device.last < MaxReceipts
            /\ Stage(l, "held")
            /\ begin_transaction(l, list[l].queue, list[l].packets)
            /\ UNCHANGED past
    /\ packet' = Settled
    /\ SettleMarks /\ SettleDevice
    /\ UNCHANGED <<worker, gate, fence, gpu>>

\* queue_transaction_wait: on the last receipt, whichever queue it ran on.
QueueWait ==
    /\ tx.at = "reserved"
    /\ IF device.last = 0
       THEN tx' = [tx EXCEPT !.at = "ordered"] /\ UNCHANGED gpu
       ELSE /\ tx' = [tx EXCEPT !.at = "waited"]
            /\ gpu' = [gpu EXCEPT ![tx.queue] =
                  Append(@, Op("wait", tx.packets, device.last, tx.by))]
    /\ UNCHANGED <<packet, list, device, deferred, worker, gate, fence, past>>

\* The Wait fails: the reservation is undone without a Signal.
FailWait ==
    /\ tx.at = "reserved" /\ device.last > 0
    /\ past.troubles < MaxTroubles /\ past' = [past EXCEPT !.troubles = @ + 1]
    /\ packet' = fail_device(Settled)
    /\ device' = [device EXCEPT !.failed = TRUE]
    /\ SettleMarks
    /\ tx' = NoReceipt
    /\ IF tx.by = Private
       THEN worker' = [worker EXCEPT !.at = "failed"] /\ UNCHANGED list
       ELSE Stage(tx.by, "unordered") /\ UNCHANGED worker
    /\ UNCHANGED <<gate, fence, gpu>>

\* Fault: a Wait is published only while none is.
FaultPublishFirst == [gate EXCEPT !.waited = IF @ = 0 THEN device.last ELSE @]

\* publish_queued_wait.
publish_queued_wait == [gate EXCEPT !.waited = Larger(@, device.last)]

PublishWait ==
    /\ tx.at = "waited"
    /\ tx' = [tx EXCEPT !.at = "ordered"]
    /\ gate' = publish_queued_wait
    /\ UNCHANGED <<packet, list, device, deferred, worker, fence, gpu, past>>

\* The application's lists, or the bridge's own reader.
Forward ==
    /\ tx.at = "ordered"
    /\ tx' = [tx EXCEPT !.at = "forwarded"]
    /\ gpu' = [gpu EXCEPT ![tx.queue] =
          IF tx.by = Private THEN Executed(Private, "read", worker.pending)
          ELSE Executed(tx.queue, "write", tx.packets)]
    /\ UNCHANGED <<packet, list, device, deferred, worker, gate, fence, past>>

\* finish_transaction's first critical section: queue tails behind a batch that was
\* not refused (by a nested submission or a failed device).  A tail's private list
\* is never replayed: its packet is retired at once.
RecordTails ==
    /\ tx.at = "forwarded"
    /\ \E refused \in {Failing, Failing \/ tx.by # Private} :
          LET nested == refused /\ ~Failing
              collects == ~refused /\ tx.by # Private
              ready == IF collects THEN Collected(Settled, tx, fence) ELSE Settled
          IN \E tails \in {{}} \cup {{p} : p \in Available(ready)} :
                /\ tails # {} => collects
                /\ nested => past.troubles < MaxTroubles
                /\ past' = [past EXCEPT !.troubles = IF nested THEN @ + 1 ELSE @]
                /\ packet' = [p \in Packets |->
                      IF p \in tails THEN [Recording EXCEPT !.retired = TRUE] ELSE ready[p]]
                /\ gpu' = IF collects THEN ProducerSignals(Settled, tx, gpu) ELSE gpu
                /\ tx' = [tx EXCEPT !.at = "recorded", !.refused = refused, !.tails = tails]
    /\ SettleMarks /\ SettleDevice
    /\ UNCHANGED <<list, worker, gate, fence>>

\* Each packet of the receipt is submitted, or quarantined.
Accounted(pk, success, refused) ==
    IF ~success \/ refused
    THEN Quarantine(pk, tx.packets \cup tx.tails)
    ELSE [p \in Packets |->
            IF p \notin tx.packets \cup tx.tails THEN pk[p]
            ELSE [pk[p] EXCEPT !.submitted = TRUE, !.producer = tx.queue,
                               !.order = 2 * tx.value + IF p \in tx.tails THEN 1 ELSE 0]]

\* Tails and Signal are queued without mutex_.
Signal(success) ==
    /\ tx.at = "recorded"
    /\ ~success => past.troubles < MaxTroubles
    /\ past' = [past EXCEPT !.troubles = IF success THEN @ ELSE @ + 1]
    /\ gpu' = [gpu EXCEPT ![tx.queue] = Executed(tx.queue, "write", tx.tails) \o
                  IF success THEN <<Op("signal", {}, tx.value, tx.by)>> ELSE << >>]
    /\ tx' = [tx EXCEPT !.at = IF success THEN "signalled" ELSE "unsignalled"]
    /\ UNCHANGED <<packet, list, device, deferred, worker, gate, fence>>

\* The last critical section: the receipt is accounted for and submission_mutex_
\* released.
Finish ==
    LET success == tx.at = "signalled"
        refused == tx.refused \/ Failing
        pk == IF success THEN Settled ELSE fail_device(Settled)
    IN  /\ tx.at \in {"signalled", "unsignalled"}
        /\ CollectInto(Accounted(pk, success, refused), NoReceipt, gpu)
        /\ device' = [last |-> IF success THEN tx.value ELSE device.last,
                      simQueue |-> IF success /\ tx.by # Private THEN tx.queue ELSE device.simQueue,
                      simSignal |-> IF success /\ tx.by # Private THEN tx.value ELSE device.simSignal,
                      failed |-> Failing \/ ~success]
        /\ SettleMarks
        /\ tx' = NoReceipt
        /\ IF tx.by = Private
           THEN /\ worker' = IF success /\ ~refused
                             THEN [worker EXCEPT !.at = "drawn", !.value = tx.value]
                             ELSE [worker EXCEPT !.at = "failed"]
                /\ UNCHANGED list
           ELSE /\ list' = [list EXCEPT ![tx.by].at = "free", ![tx.by].queue = Null]
                /\ UNCHANGED worker
        /\ UNCHANGED <<gate, fence, past>>

-----------------------------------------------------------------------------
(* The worker: scene_runtime::service, for one feed. *)

\* The producer fence has the value signalled behind the last receipt.
Produced(p) ==
    \A q \in AllQueues : \A i \in DOMAIN gpu[q] :
        ~(gpu[q][i].kind = "done" /\ p \in gpu[q][i].packets)

\* finish_consumption on the device's timeline.
Spent(k, value) == [k EXCEPT !.gpu = "consuming", !.until = value, !.leased = FALSE]

\* poll_completed_frames: a frame of the current scene and session is leased, any
\* other goes back when the queued work is done.
Poll ==
    /\ worker.at = "idle" /\ worker.incoming = {}
    /\ LET pk == Collected(Settled, tx, fence)
           done == {p \in Assigned(pk) :
                       /\ ~pk[p].quarantined /\ ~pk[p].leased
                       /\ pk[p].gpu = "ready" \/ (pk[p].gpu = "retiring" /\ Produced(p))
                       \* Its Signal is queued in this step at the earliest.
                       /\ p \notin Collectable(Settled, tx)}
       IN \E current \in SUBSET done :
            /\ packet' = [p \in Packets |->
                  CASE p \in done /\ Failing -> [pk[p] EXCEPT !.quarantined = TRUE]
                    [] p \in current /\ ~Failing -> [pk[p] EXCEPT !.gpu = "ready", !.leased = TRUE]
                    [] p \in done \ current /\ ~Failing ->
                          IF device.last = 0 THEN [pk[p] EXCEPT !.quarantined = TRUE]
                          ELSE Spent(pk[p], device.last)
                    [] OTHER -> pk[p]]
            /\ worker' = [worker EXCEPT !.incoming = IF Failing THEN {} ELSE current]
    /\ gpu' = ProducerSignals(Settled, tx, gpu)
    /\ SettleMarks /\ SettleDevice
    /\ UNCHANGED <<list, tx, gate, fence, past>>

\* discard_frame: no reader was queued.  The token of a quarantined frame is refused.
Discarded(S) ==
    [p \in Packets |-> IF p \in S /\ packet[p].leased /\ ~packet[p].quarantined
                       THEN Spent(packet[p], device.last) ELSE packet[p]]

\* Fault: every frame is taken for a newer one.
FaultAnyOrder(p) == TRUE

\* FrameOrder::newer_than the newest frame accepted.
newer_than(p) == packet[p].order > worker.newest

\* The queued work of the packet is as its receipts say: the timeline was not moved
\* by the watchdog, and no escape mark of the packet was lost.
Trusted(p) == ~past.overtaken /\ p \notin past.unmarked

\* Packets whose content is older than p's.
Outdated(p) == past.older[p]

\* A polled frame is the newest of its feed and replaces the pending one, or is
\* discarded.
Take(p) ==
    /\ worker.at = "idle" /\ p \in worker.incoming
    /\ \/ /\ packet' = Discarded({p})
          /\ worker' = [worker EXCEPT !.incoming = @ \ {p}]
          /\ UNCHANGED past
       \/ /\ newer_than(p)
          /\ packet' = Discarded(worker.pending)
          /\ worker' = [worker EXCEPT !.incoming = @ \ {p}, !.pending = {p},
                                      !.newest = packet[p].order]
          /\ past' = [past EXCEPT !.outdated = @ \cup
                                       IF Trusted(p) THEN Outdated(p) ELSE {}]
    /\ UNCHANGED <<list, tx, device, deferred, gate, fence, gpu>>

\* The pending frame's scene is no longer current.
DropPending ==
    /\ worker.at = "idle" /\ worker.pending # {}
    /\ packet' = Discarded(worker.pending)
    /\ worker' = [worker EXCEPT !.pending = {}]
    /\ UNCHANGED <<list, tx, device, deferred, gate, fence, gpu, past>>

\* begin_private_submission for a reader of the pending frame, or for the waiting
\* page, which is drawn once; deferred, and nothing happens, while a receipt is open.
Draw ==
    /\ worker.at = "idle" /\ worker.incoming = {}
    /\ worker.pending = {} => ~worker.page
    /\ tx.by = Null
    /\ packet' = Settled
    /\ IF Failing
       THEN worker' = [worker EXCEPT !.at = "failed"] /\ UNCHANGED tx
       ELSE /\ device.last < MaxReceipts
            /\ worker' = [worker EXCEPT !.at = "held"]
            /\ begin_transaction(Private, Private, {})
    /\ SettleMarks /\ SettleDevice
    /\ UNCHANGED <<list, gate, fence, gpu, past>>

\* The value the packet waits for before it is used again.
CoveredBy(p) == worker.value

\* finish_consumption of what was drawn.
FinishConsumption ==
    /\ worker.at = "drawn"
    /\ packet' = [p \in Packets |->
          IF p \in worker.pending /\ packet[p].leased /\ ~packet[p].quarantined
          THEN Spent(packet[p], CoveredBy(p)) ELSE packet[p]]
    /\ worker' = [worker EXCEPT !.at = "idle", !.pending = {}, !.value = 0,
                               !.page = @ \/ worker.pending = {}]
    /\ UNCHANGED <<list, tx, device, deferred, gate, fence, gpu, past>>

-----------------------------------------------------------------------------
(* The watchdog: set_submission_gate and release_queued_waits. *)

CloseGate ==
    /\ gate.at = "watching" /\ gate.open /\ gate.closes < MaxCloses
    /\ gate' = [gate EXCEPT !.open = FALSE, !.at = "releasing", !.closes = @ + 1]
    /\ UNCHANGED <<packet, list, tx, device, deferred, worker, fence, gpu, past>>

\* Threads that read the gate before it closed and have not published their Wait.
PastGate ==
    {l \in Lists : list[l].at = "admitted"}
        \cup (IF tx.at \in {"reserved", "waited"} THEN {tx.by} ELSE {})

\* A published Wait beyond what was released, and not passed anyway.
Unreleased == gate.waited > gate.released

release_queued_waits ==
    /\ gate.at = "releasing"
    /\ gate' = [gate EXCEPT !.at = "watching", !.released = IF Unreleased THEN gate.waited ELSE @]
    /\ fence' = IF Unreleased /\ fence < gate.waited THEN gate.waited ELSE fence
    /\ past' = [past EXCEPT !.late = PastGate,
                            !.overtaken = @ \/ (Unreleased /\ fence < gate.waited)]
    /\ UNCHANGED <<packet, list, tx, device, deferred, worker, gpu>>

OpenGate ==
    /\ gate.at = "watching" /\ ~gate.open
    /\ gate' = [gate EXCEPT !.open = TRUE]
    /\ past' = [past EXCEPT !.late = {}]
    /\ UNCHANGED <<packet, list, tx, device, deferred, worker, fence, gpu>>

-----------------------------------------------------------------------------
(* The GPU: each queue runs its operations in order. *)

\* History: the content of S is now newer than that of any other packet.
Rewritten(S) ==
    [p \in Packets |-> (IF p \in S THEN past.written ELSE past.older[p]) \ S]

Run(q) ==
    /\ gpu[q] # << >>
    /\ LET op == Head(gpu[q]) IN
       /\ op.kind = "wait" => fence >= op.value
       /\ gpu' = [gpu EXCEPT ![q] = Tail(@)]
       /\ fence' = IF op.kind = "signal" THEN op.value ELSE fence
       /\ past' = CASE op.kind = "signal" -> [past EXCEPT !.setBack = @ \/ op.value < fence]
                    [] op.kind = "write" ->
                          [past EXCEPT !.written = @ \cup op.packets,
                                       !.older = Rewritten(op.packets),
                                       !.outdated = @ \ op.packets]
                    [] OTHER -> past
    /\ UNCHANGED <<packet, list, tx, device, deferred, worker, gate>>

-----------------------------------------------------------------------------
ListStep(l) ==
    \/ Capture(l) \/ Reset(l)
    \/ \E q \in Queues : Enter(l, q) \/ Refuse(l, q)
    \/ Escape(l) \/ ForwardUnordered(l)
    \/ Reserve(l)

ReceiptStep ==
    \/ QueueWait \/ FailWait \/ PublishWait \/ Forward \/ RecordTails \/ Finish
    \/ \E success \in BOOLEAN : Signal(success)

WorkerStep ==
    \/ Poll \/ DropPending \/ Draw \/ FinishConsumption
    \/ \E p \in Packets : Take(p)

WatchdogStep == CloseGate \/ release_queued_waits \/ OpenGate

Next ==
    \/ \E l \in Lists : ListStep(l)
    \/ ReceiptStep \/ WorkerStep \/ WatchdogStep
    \/ \E q \in AllQueues : Run(q)

Spec == Init /\ [][Next]_vars
-----------------------------------------------------------------------------
(* Properties. *)

GpuStates == {"idle", "recorded", "retiring", "ready", "consuming"}
Orders == 0..(2 * MaxReceipts + 1)

Packet == [gpu : GpuStates, retired : BOOLEAN, quarantined : BOOLEAN, leased : BOOLEAN,
           submitted : BOOLEAN, producer : AllQueues \cup {Null}, order : Orders,
           until : Receipts]

Operation ==
    [kind : {"wait", "write", "read", "done", "signal"}, packets : SUBSET Packets,
     value : Receipts, by : Lists \cup {Private, Null}]

TypeOK ==
    /\ packet \in [Packets -> Packet]
    /\ list \in [Lists -> [at : {"free", "admitted", "unordered", "held"},
                           queue : Queues \cup {Null}, packets : SUBSET Packets]]
    /\ tx \in [by : Lists \cup {Private, Null}, queue : AllQueues \cup {Null},
               at : {"none", "reserved", "waited", "ordered", "forwarded", "recorded",
                     "signalled", "unsignalled"},
               value : Receipts, packets : SUBSET Packets, tails : SUBSET Packets,
               refused : BOOLEAN]
    /\ device \in [last : Receipts, simQueue : Queues \cup {Null}, simSignal : Receipts,
                   failed : BOOLEAN]
    /\ deferred \in [marked : SUBSET Packets, uncertain : BOOLEAN]
    /\ worker \in [at : {"idle", "held", "drawn", "failed"}, incoming : SUBSET Packets,
                   pending : SUBSET Packets, newest : Orders, value : Receipts,
                   page : BOOLEAN]
    /\ gate \in [open : BOOLEAN, at : {"watching", "releasing"}, waited : Receipts,
                 released : Receipts, closes : 0..MaxCloses]
    /\ fence \in Receipts
    /\ gpu \in [AllQueues -> Seq(Operation)]
    /\ past \in [written : SUBSET Packets, older : [Packets -> SUBSET Packets],
                 outdated : SUBSET Packets, unmarked : SUBSET Packets,
                 overtaken : BOOLEAN, setBack : BOOLEAN,
                 late : SUBSET (Lists \cup {Private}), troubles : 0..MaxTroubles]

QueuedFor(kind, p) ==
    \E q \in AllQueues : \E i \in DOMAIN gpu[q] :
        gpu[q][i].kind = kind /\ p \in gpu[q][i].packets

Frame(p) ==
    CASE packet[p].gpu = "idle" -> "free"
      [] packet[p].gpu # "idle" /\ packet[p].quarantined -> "lost"
      [] packet[p].gpu = "consuming" /\ ~packet[p].quarantined -> "spent"
      [] packet[p].gpu \notin {"idle", "consuming"} /\ ~packet[p].quarantined ->
            IF packet[p].leased THEN "handed" ELSE "recorded"

Lease == INSTANCE FrameLease WITH
    Textures <- Packets,
    slot <- [p \in Packets |->
                [frame |-> Frame(p), writing |-> QueuedFor("write", p),
                 reading |-> QueuedFor("read", p), trusted |-> Trusted(p)]]

\* Each packet keeps the contract of FrameLease: a frame is handed out once, after
\* every queued copy into it has run, and its texture is not used again under its
\* readers; until the watchdog moves the timeline ahead of the GPU, and but for a
\* packet whose escape mark was lost.
FramesLeased == Lease!Spec

\* "Consumers must retain the newest order ... to reject delayed older captures": the
\* picture that replaces the pending one was taken later on the GPU.
NewestFrameWins ==
    \A p \in worker.pending :
        Trusted(p) /\ ~packet[p].quarantined => p \notin past.outdated

PendingSignal(q, value) == \E i \in DOMAIN gpu[q] :
    gpu[q][i].kind = "signal" /\ gpu[q][i].value = value

\* "A Wait on another simulator queue's unfinished receipt can close a cycle with
\* the simulator's own cross-queue waits ... An ordered receipt without in-list
\* capture packets therefore never queues one", also not through private work: such
\* a Wait blocks its queue for no other simulator queue's receipt, unless a Wait of
\* a batch with packets already does.
NoNewCycle ==
    \A q \in Queues : \A i \in DOMAIN gpu[q] :
        LET op == gpu[q][i] IN
        op.kind = "wait" /\ op.packets = {} /\ ~past.overtaken =>
            \A other \in Queues \ {q}, value \in (fence + 1)..op.value :
                PendingSignal(other, value) =>
                    \E j \in 1..(i - 1) :
                        /\ gpu[q][j].kind = "wait" /\ gpu[q][j].packets # {}
                        /\ gpu[q][j].value >= value

\* "The transition to closed CPU-signals each published timeline value already
\* passed to queue Wait": while the gate is closed, a simulator queue is blocked
\* only by a batch that had passed the gate before, or after the GPU's own late
\* Signal has set the timeline back.
GateReleasesWaits ==
    ~gate.open /\ gate.at = "watching" /\ ~past.setBack =>
        \A q \in Queues : \A i \in DOMAIN gpu[q] :
            gpu[q][i].kind = "wait" /\ gpu[q][i].value > fence => gpu[q][i].by \in past.late

=============================================================================

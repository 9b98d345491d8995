--------------------------- MODULE SubmissionPool ---------------------------
(***************************************************************************)
(* The pool of display copies of one capture device                        *)
(* (graphics/pfd_submission_pool.cpp) with its three users: the submission *)
(* thread, which records a plan's copies under one receipt                 *)
(* (scene_capture_manager.cpp, before_submission .. finish_transaction),   *)
(* the bridge worker, which services the pool from the device timeline,    *)
(* and the presentation watchdog, which may signal that timeline from the  *)
(* CPU.  The GPU and the timeline fence are modelled from the way the code *)
(* uses them: a receipt's copies run behind its Wait, and its Signal runs  *)
(* behind its copies; two receipts may be on different queues.             *)
(*                                                                         *)
(* A copy is named by its serial.  The planner's counters are atomics that *)
(* only rise; "fate" keeps, for every serial, whether an answer was        *)
(* promised for it and through which counters it was reported.             *)
(***************************************************************************)
EXTENDS Integers, FiniteSets, Sequences

CONSTANTS
    Slots,          \* the pool's packets (Pool::Capacity of them)
    MaxSerial,      \* bound: serials the planner hands out
    MaxReceipt,     \* bound: receipts opened on the timeline
    MaxRelease      \* bound: waits the watchdog releases

ASSUME PoolAssumption ==
    /\ MaxSerial \in Nat
    /\ MaxReceipt \in Nat
    /\ MaxRelease \in Nat

VARIABLES
    packets,        \* Pool::packets_
    planner,        \* serial handed out last, the completed and dropped counters
    fate,           \* per serial: "counted" when an answer was promised, and the
                    \* counters it was reported through (history)
    tx,             \* SceneCaptureManager::transaction_ and the plan it records
    device,         \* Device::failed, last_signal, the fence and the watchdog's slot
    gpu             \* waits, copies and signals the queues still hold; serials run

vars == <<packets, planner, fate, tx, device, gpu>>

-----------------------------------------------------------------------------
Serials == 1..MaxSerial
Values == 1..MaxReceipt
Removed == MaxReceipt + 1       \* GetCompletedValue() == UINT64_MAX

States == {"empty", "ready", "recorded", "submitted", "retired", "quarantined"}

\* counted: the packet still owes its counters a report.  needs: the restore a
\* saving copy relies on, 0 without one.
Packet == [state : States, id : 0..MaxSerial, counted : BOOLEAN,
           needs : 0..MaxSerial, covering : 0..MaxReceipt]

\* A packet that holds no copy: release_resources leaves nothing of the last one.
Blank(state) == [state |-> state, id |-> 0, counted |-> FALSE,
                 needs |-> 0, covering |-> 0]

\* DisplaySubmissionPlan::Item: a restore or a copy without a save has no
\* save_after; strip marks a copy whose save was planned behind "needs".
Item == [id : Serials, counted : BOOLEAN, needs : 0..MaxSerial]

\* A GPU copy: the list of packet "slot", recorded for "id" under receipt "value".
Copy == [slot : Slots, id : Serials, needs : 0..MaxSerial, value : Values]

NoTx == [phase |-> "none", value |-> 0, todo |-> << >>, unrecorded |-> {},
         slots |-> {}, accepted |-> FALSE, refused |-> FALSE]

Init ==
    /\ packets = [s \in Slots |-> Blank("empty")]
    /\ planner = [serial |-> 0, completed |-> 0, dropped |-> 0]
    /\ fate = [n \in Serials |-> {}]
    /\ tx = NoTx
    /\ device = [failed |-> FALSE, lastSignal |-> 0, timeline |-> 0,
                 waited |-> 0, released |-> 0, releases |-> 0]
    /\ gpu = [waits |-> {}, copies |-> {}, signals |-> {}, ran |-> {}]

-----------------------------------------------------------------------------
(* The planner's counters. *)

\* The compare-exchange loops: a counter is raised to each serial, never lowered.
Raised(counter, ids, new) ==
    /\ new \in ids \cup {counter}
    /\ \A n \in ids \cup {counter} : n <= new

Marked(ids, how) ==
    [n \in Serials |-> IF n \in ids THEN fate[n] \cup how ELSE fate[n]]

\* The serials these packets still owe an answer.
Owed(slots) == {packets[s].id : s \in {t \in slots : packets[t].counted}}

Dropping(ids) ==
    /\ \E n \in 0..MaxSerial :
          /\ Raised(planner.dropped, ids, n)
          /\ planner' = [planner EXCEPT !.dropped = n]
    /\ fate' = Marked(ids, {"dropped"})

Completing(ids) ==
    /\ \E n \in 0..MaxSerial :
          /\ Raised(planner.completed, ids, n)
          /\ planner' = [planner EXCEPT !.completed = n]
    /\ fate' = Marked(ids, {"completed"})

-----------------------------------------------------------------------------
(* Pool operations on one packet. *)

\* Fault: a removed device reports the packets it never received only.
FaultOutstandingUnsent(p) == p.state = "recorded"

Outstanding(p) == p.state \in {"recorded", "submitted"}

quarantine(p) == [p EXCEPT !.state = "quarantined", !.counted = FALSE]

cancel(p) ==
    CASE p.state = "recorded"  -> [p EXCEPT !.state = "retired", !.counted = FALSE]
      [] p.state = "submitted" -> [p EXCEPT !.state = "quarantined", !.counted = FALSE]
      [] OTHER -> p

\* Fault: the packet is covered by the receipt after its own.
FaultSubmitNext(p, covering) ==
    [p EXCEPT !.state = "submitted", !.covering = covering + 1]

submit(p, covering) ==
    IF p.state # "recorded" \/ covering \in {0, Removed}
    THEN quarantine(p)
    ELSE [p EXCEPT !.state = "submitted", !.covering = covering]

-----------------------------------------------------------------------------
(* The submission thread. *)

\* One batch of the planner: a copy that saves nothing, a restore, a first save,
\* or a restore and the save that relies on it.
Plans ==
    LET n == planner.serial + 1
        Single(counted) == << [id |-> n, counted |-> counted, needs |-> 0] >>
    IN  {Single(TRUE), Single(FALSE)} \cup
        IF n < MaxSerial
        THEN { << [id |-> n, counted |-> TRUE, needs |-> 0],
                  [id |-> n + 1, counted |-> TRUE, needs |-> n] >> }
        ELSE {}

CountedIn(plan) == {plan[i].id : i \in {j \in DOMAIN plan : plan[j].counted}}

\* before_submission: the planner runs, and then the batch is forwarded without a
\* receipt (stale, escaped, unknown or failed device): ~DisplaySubmissionPlan
\* reports every copy.  With wait_failed the receipt is undone and the device fails.
PlanWithoutReceipt(waitFailed) ==
    /\ tx.phase = "none"
    /\ planner.serial < MaxSerial
    /\ waitFailed => ~device.failed /\ device.lastSignal > 0
    /\ \E plan \in Plans, n \in 0..MaxSerial :
          /\ Raised(planner.dropped, CountedIn(plan), n)
          /\ planner' = [planner EXCEPT !.serial = @ + Len(plan), !.dropped = n]
          /\ fate' = Marked(CountedIn(plan), {"counted", "dropped"})
    /\ device' = [device EXCEPT !.failed = @ \/ waitFailed]
    /\ UNCHANGED <<packets, tx, gpu>>

\* before_submission: begin_transaction and queue_transaction_wait.
Begin ==
    /\ tx.phase = "none"
    /\ ~device.failed
    /\ device.lastSignal < MaxReceipt
    /\ planner.serial < MaxSerial
    /\ \E plan \in Plans :
          /\ planner' = [planner EXCEPT !.serial = @ + Len(plan)]
          /\ fate' = Marked(CountedIn(plan), {"counted"})
          /\ tx' = [NoTx EXCEPT !.phase = "recording", !.todo = plan,
                                !.value = device.lastSignal + 1]
    /\ gpu' = [gpu EXCEPT !.waits = @ \cup {device.lastSignal + 1}]
    /\ device' = [device EXCEPT !.waited = IF @ < device.lastSignal THEN device.lastSignal ELSE @]
    /\ UNCHANGED packets

\* The next item, without its save when the restore it relies on was not
\* recorded: the copy then confirms nothing, and the plan reports its save.
RestoreRecorded(item) ==
    \E s \in tx.slots : packets[s].id = item.needs
\* Fault: the save is kept although its restore was not recorded.
FaultNeverStripped(item) == FALSE

Stripped(item) == item.needs # 0 /\ ~RestoreRecorded(item)
Recordable(item) ==
    IF Stripped(item) THEN [item EXCEPT !.needs = 0, !.counted = FALSE] ELSE item

\* Fault: an item whose copy was recorded is settled, its stripped save too.
FaultStripSettles(item, copy) == FALSE

\* The plan reports what it could not record, and the save it stripped.
PlanStillOwes(item, copy) == item.counted /\ ~copy.counted

\* Pool::record: the first ready packet holds the copy; a failed Close quarantines it.
Record(closed) ==
    /\ tx.phase = "recording" /\ tx.todo # << >>
    /\ \E s \in Slots :
          LET item == Head(tx.todo)
              copy == Recordable(item)
              held == [state |-> "recorded", id |-> copy.id, counted |-> copy.counted,
                       needs |-> copy.needs, covering |-> 0]
          IN
          /\ packets[s].state = "ready"
          /\ packets' = [packets EXCEPT ![s] = IF closed THEN held ELSE quarantine(held)]
          /\ IF ~closed /\ copy.counted
             THEN Dropping({copy.id})
             ELSE UNCHANGED <<planner, fate>>
          /\ tx' = [tx EXCEPT !.todo = Tail(@),
                              !.slots = IF closed THEN @ \cup {s} ELSE @,
                              !.unrecorded = IF PlanStillOwes(item, copy)
                                             THEN @ \cup {item.id} ELSE @]
    /\ UNCHANGED <<device, gpu>>

\* Pool::record refused the copy (valid_copy) or found no ready packet: the plan
\* reports it.
Unrecorded(invalid) ==
    /\ tx.phase = "recording" /\ tx.todo # << >>
    /\ ~invalid => \A s \in Slots : packets[s].state # "ready"
    /\ LET item == Head(tx.todo) IN
       tx' = [tx EXCEPT !.todo = Tail(@),
                        !.unrecorded = IF item.counted THEN @ \cup {item.id} ELSE @]
    /\ UNCHANGED <<packets, planner, fate, device, gpu>>

\* The end of before_submission: ~DisplaySubmissionPlan.
EndPlan ==
    /\ tx.phase = "recording" /\ tx.todo = << >>
    /\ Dropping(tx.unrecorded)
    /\ tx' = [tx EXCEPT !.phase = "recorded", !.unrecorded = {}]
    /\ UNCHANGED <<packets, device, gpu>>

\* queue_submit's wrapper: augment, augmentation_result, and the original
\* ExecuteCommandLists.  All insertions are accepted or none: the session may
\* have ended or the insertions be invalid (accepted FALSE).  A nested
\* submission before the forward drops accepted insertions, and any nested
\* submission refuses the receipt.
Forward(accepted, executed, refused) ==
    /\ tx.phase = "recorded"
    /\ executed => accepted
    /\ accepted /\ ~executed => refused
    /\ tx' = [tx EXCEPT !.phase = "forwarded", !.accepted = accepted, !.refused = refused]
    /\ gpu' = IF executed
              THEN [gpu EXCEPT !.copies = @ \cup
                      {[slot |-> s, id |-> packets[s].id, needs |-> packets[s].needs,
                        value |-> tx.value] : s \in tx.slots}]
              ELSE gpu
    /\ UNCHANGED <<packets, planner, fate, device>>

\* Fault: the hook's acceptance is not consulted.
FaultSettledUnaccepted(p, signaled, refused, accepted, value) ==
    IF ~signaled \/ refused THEN quarantine(p) ELSE submit(p, value)

\* finish_transaction: the Signal, then each display packet's outcome.
Settled(p, signaled, refused, accepted, value) ==
    CASE ~signaled \/ refused -> quarantine(p)
      [] signaled /\ ~refused /\ accepted -> submit(p, value)
      [] OTHER -> cancel(p)

Finish(signaled) ==
    /\ tx.phase = "forwarded"
    /\ LET refused == tx.refused \/ device.failed
           settled == [s \in tx.slots |->
                        Settled(packets[s], signaled, refused, tx.accepted, tx.value)]
           lost == {s \in tx.slots : settled[s].state # "submitted"}
       IN /\ packets' = [s \in Slots |-> IF s \in tx.slots THEN settled[s] ELSE packets[s]]
          /\ Dropping(Owed(lost))
    /\ device' = IF signaled THEN [device EXCEPT !.lastSignal = tx.value]
                             ELSE [device EXCEPT !.failed = TRUE]
    /\ gpu' = IF signaled THEN [gpu EXCEPT !.signals = @ \cup {tx.value}] ELSE gpu
    /\ tx' = NoTx

-----------------------------------------------------------------------------
(* The worker: service_display_submissions, between two receipts only. *)

\* Fault: the value after the completed one counts as passed.
FaultCoveredEarly(completed) ==
    {s \in Slots : packets[s].state = "submitted" /\ packets[s].covering <= completed + 1}

Covered(completed) ==
    {s \in Slots : packets[s].state = "submitted" /\ packets[s].covering <= completed}

\* Allocator and list calls may fail for the packets in "broken".
Serviceable(completed) ==
    Covered(completed) \cup {s \in Slots : packets[s].state \in {"retired", "empty"}}

Service ==
    /\ tx.phase = "none"
    /\ ~device.failed
    /\ IF device.timeline = Removed
       THEN LET lost == {s \in Slots : Outstanding(packets[s])} IN
            /\ packets' = [s \in Slots |-> quarantine(packets[s])]
            /\ Dropping(Owed(lost))
       ELSE LET done == Covered(device.timeline) IN
            /\ Completing(Owed(done))
            /\ \E broken \in SUBSET Serviceable(device.timeline) :
                  packets' = [s \in Slots |->
                      IF s \in broken THEN Blank("quarantined")
                      ELSE IF s \in Serviceable(device.timeline)
                           THEN Blank("ready")
                           ELSE packets[s]]
    /\ UNCHANGED <<tx, device, gpu>>

\* Any of the manager's reasons to stop using the device.
FailDevice ==
    /\ ~device.failed
    /\ device' = [device EXCEPT !.failed = TRUE]
    /\ UNCHANGED <<packets, planner, fate, tx, gpu>>

-----------------------------------------------------------------------------
(* The watchdog: release_queued_waits when it closes the gate. *)

release_queued_waits ==
    /\ device.waited > device.released
    /\ IF device.timeline >= device.waited      \* Removed is above every value
       THEN device' = [device EXCEPT !.released = device.waited]
       ELSE /\ device.releases < MaxRelease
            /\ device' = [device EXCEPT !.released = device.waited,
                                        !.timeline = device.waited,
                                        !.releases = @ + 1]
    /\ UNCHANGED <<packets, planner, fate, tx, gpu>>

-----------------------------------------------------------------------------
(* The GPU. *)

Alive == device.timeline # Removed

\* Receipt value's Wait for the previous receipt's Signal is satisfied.
PassWait(value) ==
    /\ Alive
    /\ value \in gpu.waits
    /\ device.timeline >= value - 1
    /\ gpu' = [gpu EXCEPT !.waits = @ \ {value}]
    /\ UNCHANGED <<packets, planner, fate, tx, device>>

RunCopy(copy) ==
    /\ Alive
    /\ copy \in gpu.copies
    /\ copy.value \notin gpu.waits
    /\ copy.needs # 0 => \A c \in gpu.copies : c.value = copy.value => c.id # copy.needs
    /\ gpu' = [gpu EXCEPT !.copies = @ \ {copy}, !.ran = @ \cup {copy.id}]
    /\ UNCHANGED <<packets, planner, fate, tx, device>>

\* A queue's Signal sets the fence, whatever its value was.
RunSignal(value) ==
    /\ Alive
    /\ value \in gpu.signals \ gpu.waits
    /\ \A c \in gpu.copies : c.value # value
    /\ gpu' = [gpu EXCEPT !.signals = @ \ {value}]
    /\ device' = [device EXCEPT !.timeline = value]
    /\ UNCHANGED <<packets, planner, fate, tx>>

RemoveDevice ==
    /\ Alive
    /\ device' = [device EXCEPT !.timeline = Removed]
    /\ UNCHANGED <<packets, planner, fate, tx, gpu>>

-----------------------------------------------------------------------------
GpuStep ==
    \/ \E value \in Values : PassWait(value) \/ RunSignal(value)
    \/ \E copy \in gpu.copies : RunCopy(copy)

\* The thread that holds the receipt runs it to its end.
ReceiptStep ==
    \/ \E closed \in BOOLEAN : Record(closed)
    \/ \E invalid \in BOOLEAN : Unrecorded(invalid)
    \/ EndPlan
    \/ \E accepted, executed, refused \in BOOLEAN : Forward(accepted, executed, refused)
    \/ \E signaled \in BOOLEAN : Finish(signaled)

Next ==
    \/ \E waitFailed \in BOOLEAN : PlanWithoutReceipt(waitFailed)
    \/ Begin
    \/ ReceiptStep
    \/ Service
    \/ FailDevice
    \/ release_queued_waits
    \/ GpuStep
    \/ RemoveDevice

Spec == Init /\ [][Next]_vars

FairSpec == Spec /\ WF_vars(ReceiptStep) /\ WF_vars(Service) /\ WF_vars(GpuStep)
-----------------------------------------------------------------------------
(* Properties. *)

Planner == [serial : 0..MaxSerial, completed : 0..MaxSerial, dropped : 0..MaxSerial]
Receipt == [phase : {"none", "recording", "recorded", "forwarded"}, value : 0..MaxReceipt,
            todo : Seq(Item), unrecorded : SUBSET Serials, slots : SUBSET Slots,
            accepted : BOOLEAN, refused : BOOLEAN]
Timeline == [failed : BOOLEAN, lastSignal : 0..MaxReceipt, timeline : 0..Removed,
             waited : 0..MaxReceipt, released : 0..MaxReceipt, releases : 0..MaxRelease]
Gpu == [waits : SUBSET Values, copies : SUBSET Copy, signals : SUBSET Values,
        ran : SUBSET Serials]

TypeOK ==
    /\ packets \in [Slots -> Packet]
    /\ planner \in Planner
    /\ fate \in [Serials -> SUBSET {"counted", "completed", "dropped"}]
    /\ tx \in Receipt
    /\ device \in Timeline
    /\ gpu \in Gpu

\* "A recording owns its source/target references until cancellation is serviced
\* or its covering outer-receipt fence completes.  Uncertain work is retained
\* permanently": no packet whose list a queue still holds is released, reset or
\* recorded again.
LeaseOutlivesExecution ==
    \A copy \in gpu.copies :
        /\ packets[copy.slot].id = copy.id
        /\ packets[copy.slot].state \in {"recorded", "submitted", "quarantined"}

\* The same, as long as the watchdog has not signalled the timeline from the CPU.
LeaseKeptUnlessReleased == device.releases = 0 => LeaseOutlivesExecution

\* The completed counter is evidence: a copy reported through it has run, and the
\* counter never names a serial that did not.  (While no wait was released.)
CompletedCopyRan ==
    device.releases = 0 =>
        /\ \A n \in Serials : "completed" \in fate[n] => n \in gpu.ran
        /\ planner.completed # 0 => planner.completed \in gpu.ran

\* A save that relies on a restore runs only behind that restore: otherwise it
\* would store the camera picture as the panel's own pixels.
SaveFollowsRestore ==
    \A copy \in gpu.copies :
        copy.needs # 0 =>
            \/ copy.needs \in gpu.ran
            \/ \E c \in gpu.copies : c.id = copy.needs /\ c.value = copy.value

\* A wait released from the CPU ends what follows: the GPU's Signal of that receipt,
\* when it comes, may set the timeline back behind a later one.
Undisturbed == ~device.failed /\ device.releases = 0

\* The planner waits for an answer to every counted copy it planned: each one is
\* reported completed or dropped in the end, whether its batch was forwarded without
\* a receipt, its save was stripped, the pool was full, its list failed to close or
\* its receipt was cancelled or refused.  Only a copy that was submitted may stay
\* unanswered, on a device that failed or whose waits were released.
EveryCopyAnswered ==
    \A n \in Serials :
        "counted" \in fate[n] ~>
            \/ fate[n] \cap {"completed", "dropped"} # {}
            \/ /\ ~Undisturbed
               /\ \E s \in Slots :
                    packets[s].state = "submitted" /\ packets[s].counted /\ packets[s].id = n
=============================================================================

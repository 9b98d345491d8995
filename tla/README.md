# taxi-cam: models, checks and proofs

taxi-cam puts the aircraft's taxi cameras (tail, nose gear and, on some types, two more views) on the cockpit
displays of Microsoft Flight Simulator. It runs as a bridge DLL inside the simulator process, where it hooks
Direct3D 12 and the simulator's own view manager, and as a companion application that configures it. Nothing in the
simulator was made for this: every component below works beside threads it does not own, on objects it does not own,
and has to give up cleanly when its evidence is stale. That is what the models are about. Paths are relative to the
repository's root (`src/` there is the directory of the same name).

Contents: 1 inventory, 2 plan, 3 the modules, 4 the runs, 5 fairness, 6 the proofs, 7 disagreements between the code
and its own comments, 8 limits.

## 1. Inventory

### Threads

| thread | owner | what it does |
| --- | --- | --- |
| bridge worker | `src/bridge/bridge_main.cpp` | one loop: heartbeat with the companion, telemetry, camera requests, profile transitions, service of the graphics side |
| presentation watchdog | `src/bridge/bridge_main.cpp:600-680` | every 250 ms: has the simulator stopped presenting? closes and opens the graphics gate |
| view-manager update | the simulator, observed by `src/camera/probe.cpp` | the only thread on which camera views may be created or erased |
| render and submission threads | the simulator, hooked by `src/hooks`, `src/graphics`, `src/bridge/d3d12_bridge.cpp` | record command lists, execute them, present |
| telemetry | SimConnect dispatch, `src/camera/body_pose_provider.cpp` | samples of the aircraft, acknowledgements of commands |
| companion | `src/app` | another process; settings, setup, a shared-memory mailbox |
| GPU queues | the simulator | run what was submitted, in an order the CPU knows only through fences |

### Components

| component | state | operations | interacts with |
| --- | --- | --- | --- |
| Scene handoff (`graphics/scene_handoff`) | devices and resources by address with generations; scene, lifecycle and capture counters; the last publication; three lock-free hint tables | register/unregister device and resource, begin/stop scene, begin_capture and publish, observe_copy, is_current | view-manager thread publishes; resource and copy callbacks of every render thread; the capture manager keeps the matches |
| Capture manager (`graphics/scene_capture_manager`) | device timelines (fence, last signal, failed), open transaction, recordings of native lists, deferred evidence, frames in flight | before/after submission, finish transaction, collect, poll frames, consume/discard, set_submission_gate, release_queued_waits, retire list | submission hook, handoff, pool, watchdog (gate and CPU release), worker (service) |
| Display submission pool (`graphics/pfd_submission_pool`) | a fixed ring of packets: allocator, list, resources, state, covering fence value; completed/dropped counters | record, submit, cancel, quarantine, service | inside the manager's transaction; the planner reads the counters |
| Display submission proof (`graphics/pfd_submission_proof.hpp`) | per recording: known, open pass, barriers only, interference; per display its slot: first and last state, exits, written | the hooks' reports, close; candidates of a list and sites of a call; settlements | recording hooks report, the planner asks, `remember_display_settlement` keeps what a list left |
| Display shadow and stamps (`bridge/d3d12_bridge`) | per display and side: baseline evidence, carried cover, lost writes, planned serials, settled state and its ring | plan a batch, settle, read the counters, drop a device | recording hooks, the pool's counters |
| Source state, capture phase (`graphics/scene_source_state`, `capture_phase`) | known states per list and per resource, the phase of a captured frame | observe barriers, apply a batch, choose the tail | manager |
| Presentation watchdog and graphics gate (`bridge/freeze_watchdog.hpp`, `bridge_main.cpp`, `d3d12_bridge.cpp`) | stall timers, trip times, tripped/held; armed, halted, submission gate; release requests | observe, release, set_graphics_armed, halt_admission, StallHoldRelease::observe | worker (connected, cameras wanted, known OFF), render threads (failure storm), manager (gate) |
| Camera pair (`camera/entry_pair`, `view_retirement.hpp`, `probe.cpp`) | request mailbox, owned entry ids, creation under way, retiring views | request enable/disable, cancel before creation, process_update, erase on a later update, session reset | worker requests, view-manager thread acts, simulator destroys managers |
| TAXI buttons and routes (`camera/taxi_button_command.hpp`, `shared/manual_camera_intent.hpp`, `graphics/taxi_button_routes.hpp`) | per side: request serial, in-flight command, time limits; the mask of displays that show the camera | request, send, acknowledge, expire | worker, telemetry, companion shortcut |
| Telemetry and pose (`camera/body_pose_provider`, `body_pose_math.hpp`) | samples, freshness, flight epoch, calibration | dispatch, read, reset | camera pair, watchdog sample, buttons |
| Frame output (`graphics/scene_frame_output`, `camera_compositor_d3d12`, `pfd_stamp_d3d12`) | pipelines, patch storage slots, fallback frames | compose, patch, store | manager, shadow |
| Scene runtime (`graphics/scene_runtime`) | glue: one handoff, one manager, one output | service, reset | worker |
| Hooks and observers (`src/hooks`, `graphics/metadata_batch_cache.hpp`) | patched vtables, per-list recording state | forward the original calls with evidence | every graphics component |
| Bounded locks (`shared/bounded_lock.hpp`, `hook_timing.hpp`) | a mutex taken with a time budget | try, give up | render threads must not wait on the worker |
| Bridge worker (`bridge_main.cpp`) | profile transition, prewarm, door camera, requests of the pass | one pass of the loop | all of the above |
| Companion IPC (`shared/companion_control.hpp`, `sim_messages.hpp`) | mailbox with heartbeat, setup session, lock-free event log | connect, heartbeat, publish, read | worker, companion |
| Companion, updater, installer, profiles, marks, diagnostics | settings, files, tables, logs | I/O | user |

### What is hard

* Interleaving: the engine is inspected without the lock that later publishes what was seen; addresses are reused
  meanwhile. The gate is three atomics written by three threads. Two submission threads may enter the hook nested.
* Late evidence: a match taken at recording time is consumed when the GPU is done; completion is a fence value that
  several queues, a device removal and, in an emergency, the watchdog's CPU can move.
* Partial failure: a command list may fail to close, an allocator to reset, a Signal to be queued, a batch to be
  forwarded; each leaves some copies done and some not, and the planner must hear exactly one outcome of each.
* Exhaustion: every table and counter has a limit and a refusal.
* Time: stalls, recovery windows, grace periods, heartbeats; two clocks which pause independently.
* Protocols across updates: a view may be erased only on an update later than the one that closed it; a button is a
  toggle that is confirmed through telemetry.

`PROJECT.json` "hazards" lists these at the line where each bites. Of those without a property, one waits for a
planned module and two are what the code does today (section 7); each says which. A hazard whose property excepts a case that
the code loses says so in its note.

### What makes each component correct

* Handoff: a publication names live registrations, and what was inspected; a held match never survives the resource
  it was taken from; the lock-free hint has no false negatives; exhausted means inert.
* Pool and receipts: a packet's list, allocator and resources outlive its execution; "completed" means it ran; each
  counted copy, recorded or not, is reported completed or dropped in the end, unless it was submitted to a device that failed or
  whose waits were released; a save never runs without the restore it was planned behind.
* Submission proof: a copy is inserted in the state the display is in, above or below every write it is meant to be above
  or below; what is remembered for quiet calls is the state the display was left in.
* Watchdog and gate: a freeze and only a freeze trips; trips recover or visibly hold; a hold ends on a known OFF of
  the displays' cameras in this hold and only then; a halted process stays halted.
* Capture manager: a list is ordered with the evidence of its current recording and of no other, and is let through
  unordered only if it has none; private and tail work closes no cycle of Waits between the simulator's queues; a gate
  closed by the watchdog leaves no Wait behind; a frame is handed out once, the newest wins, and its texture is not
  used again under its readers or writers.
* Camera pair: nothing is erased in the update that closed it; a pair kept across a flight resumes alive, closed and for the
  flight that is loaded; a session reset is acknowledged only when no view
  exists or is under way and none known to the bridge is unreleased; a reset ends.
* TAXI buttons: one change of the request toggles at most once; a late acknowledgement is not taken for another
  press's.
* IPC: one Connect starts one setup session; a torn slot of the event log is never delivered.

## 2. Plan

Order: what can damage the simulator process first (lifetimes of GPU work, stale identities, the gate that must
close), then what can leave it with stray views or presses, then the planner and the IPC.

| # | module | source | composes | abstract specification | status |
| --- | --- | --- | --- | --- | --- |
| 1 | `SceneHandoff` (+ `Proofs`) | `graphics/scene_handoff` | | | done: 6 properties, all proved |
| 2 | `SubmissionPool` (+ `Proofs`) | `graphics/pfd_submission_pool`, transaction of the manager | pool, receipt, timeline, GPU, watchdog's release | | done: 5 properties and a finding, 4 proved |
| 3 | `StallWatchdog` (+ `Proofs`) | `bridge/freeze_watchdog.hpp`, watchdog loop, gate | watchdog, worker, render thread | | done: 9 properties, 7 proved |
| 4 | `TaxiButton` (+ `Proofs`) | `camera/taxi_button_command.hpp`, `shared/manual_camera_intent.hpp`, loop of `camera/body_pose_provider.cpp` | companion, worker, telemetry thread, aircraft | | done: 5 properties, 4 proved |
| 5 | `ListEvidence` (+ `Proofs`) | lists, ring and drain of `graphics/scene_capture_manager.cpp`; `shared/bounded_lock.hpp` | recording threads, deferred ring, drain, submission | | done: 4 properties, all proved |
| 6 | `CaptureSubmission` (+ `Invariants`, `Proofs`) | packets and receipts of `graphics/scene_capture_manager.cpp`, `scene_capture_d3d12.cpp`, `hooks/queue_submit_observer.cpp`, `scene_runtime.cpp` | lists, receipts, tails, gate, escapes, worker, GPU | `FrameLease` | done: implements the lease, which is proved exclusive; 4 properties, all proved |
| 7 | `CameraPair` (+ `Proofs`) | `camera/entry_pair`, `view_retirement.hpp`, `scene_session_reset.hpp`, `view_pool.hpp`, `retained_profile.hpp`, `probe.cpp` | request threads, manager updates, simulator's views, session reset, kept pair | | done: 5 properties, 3 proved |
| 8 | `SubmissionProof` (+ `Proofs`) | `graphics/pfd_submission_proof.hpp`, settlement ring of `d3d12_bridge.cpp` | ledger of a list beside the list itself, calls, ring | | done: 3 properties, all proved |
| 9 | `SourceState` | `scene_source_state`, `capture_phase` | with 5 and 6 | the state after replaying all barriers in execution order | planned |
| 10 | `DisplayShadow` | planner in `d3d12_bridge.cpp` 395-435, 2361-2450, 2991-3409 | uses the pool's counters and the sites of 8 | the last panel picture is recoverable | planned |
| 11 | `CompanionLink` | `companion_control.hpp`, `sim_messages.hpp` | mailbox, log readers | each event delivered at most once, whole | planned |

The safety properties of the passing runs have their theorems, but for the one of the kept pair (`ResumesClosed`), which is
next; those of modules 9 to 11 come with the modules. Recursion, where a module needs it, is written as folds, so that theorems stay possible.

## 3. The modules

Names follow the source where TLA+ allows it; `PROJECT.json` "map" gives the lines of every definition. Operators
called `Fault...` are seeded faults: no specification uses them, they stand beside the definition they would replace
so that a property can be shown to notice.

### SceneHandoff

The object is one record `hs`: registrations by address (generation 0 is an absent key), five counters, the
publication, and the two hint tables. Every public method takes one mutex, so each is one action (`register_device`,
`unregister_device`, `register_resource`, `unregister_resource`, `begin_scene`, `stop_scene`, `begin_capture`,
`publish`); the helpers a method calls under the mutex (`advance`, `lifecycle_event`, `match`, `Clear`) are functions of
the record, composed in the order of the code. Two things span several critical sections and are split:

* an observer takes a ticket (`begin_capture`), reads the engine without the mutex (`Inspect`), then publishes or
  gives up (`publish`, `Abandon`);
* a recorder reads the lock-free hint (`ObserveHint`), then matches under the mutex (`ObserveMatch`), and holds the
  match until it is consumed or dropped (`Drop`).

`dead`, `seen` and `witness` are history: whether the incarnation a recorder copied from has ended, and which
identities lived behind the handles when they were read. `register_resource` can fail with an allocation failure, as
in the code, and then disables the object.

### SubmissionPool

The pool of one device with its three users. `packets`, `planner` and `fate` are the pool and the counters it reports
to; `tx` is the manager's open receipt (recording, recorded, forwarded); `device` has the fence, the last signalled
value and what the watchdog's emergency release remembers; `gpu` is what the queues still hold. The submission thread runs
`Begin`, `Record` or `Unrecorded` per item, `EndPlan`, `Forward`, `Finish` (or `PlanWithoutReceipt`); the worker runs
`Service`, the watchdog `release_queued_waits`, the GPU `PassWait`, `RunCopy`, `RunSignal`, and `RemoveDevice` at any time. A copy is
named by its serial; `fate` is history and keeps, per serial, that it was counted and the counters it was reported through: a copy is counted when its
plan is made, whatever becomes of the plan. The planner's
compare-exchange loops are "the counter becomes the highest of its value and the serials". The packets of one
receipt are settled in one step: the receipt holds the manager's lock and nothing else reads the packets meanwhile.

The GPU is modelled from its use: a receipt's list waits for the timeline to reach the previous value, its copies run
behind that Wait, a save behind its restore, its Signal behind its copies; receipts on different queues are otherwise
unordered. A Signal sets the fence to its value, whatever it was.

### StallWatchdog

`dog` is `FreezeWatchdog`; `observe` is the method, a function of its state and a sample. One poll of the watchdog
thread is `Poll`, `CheckRelease`, `Publish` and, if the gate changes, `CheckHalted`, `StoreArmed`, `SetSubmissionGate`: one action per
atomic access that another thread can see. The render thread's `halt_admission` is three stores (`HaltAdmission`);
the worker's pass is `Connect`, `Want`, `Ask`, `Add`, with `StallHoldRelease` in `worker`. A poll is the unit of time. The class
compares stored times with now only, so a time is its age and saturates at the threshold it is compared with: no
decision changes, and the state is finite. What the pilot and the simulator do is `world`, which changes at any time. `past` is
history: how long nothing advanced, the trips that count, which of the cameras (`CamerasOn`: button or preview, door) were on when the
worker looked, whether a halt fell into a recovery.

### TaxiButton

From the shortcut to the aircraft's button and back. The companion numbers a request from the published sample
(`Shortcut`, and `SyncSession` after a new epoch); the worker's pass hands it over and publishes the answer (`Update`, `SelectProfile`,
`Acknowledge`, `Publish`, with the acknowledgement read before the lamps, as in the code); the telemetry thread looks
(`Step`), checks each side again under the lock (`Check`), calls SimConnect without it (`Press`), and records the
result (`Sent`); it receives lamps, refusals and new sessions (`ReceiveLamps`, `ReceiveRefusal`, `ChangeSession`). The simulator handles
messages in order (`Handle`) and a hand may press too (`HandPress`). `TaxiButtonCommand`'s methods (`update`, `sent`,
`rejected`, `reset_session`, `Expired`/`Observed`/`ToSend` for `step`) are functions of its record `command`. `past` is history: how often each request
pressed each side, what the pilot asked for in total, whether a request ever failed.

### ListEvidence

What the manager knows of the simulator's command lists, and when. `native` is the truth: which object is at a list's
address, where its thread is in record, Close, Execute and Reset, and whether the recording has an effect on a source.
`item`, `clean`, `ring`, `lost` and `holder` are the manager's: its entry of the list, the published clean mark, the
deferred ring and its overflow flag, and how far the holder of the mutex has drained. Every report has the code's two
forms, under the mutex (`RecordLocked`, `ResetLocked`, `DestroyLocked`) and, when the time budget ends, through the ring (`RecordDeferred`,
`ResetDeferred`, `DestroyDeferred`, with the slot's claim and `Publish` apart). The drain is a step per access that another thread
can see (`Acquire`, `TakeOverflow`, `InvalidateAll`, `Apply`, `Commit`, `Release`); the Reset that takes no lock reads the ring (`ResetSeesIdle`) and
then the mark (`ResetFast`). A submission asks lock-free (`BypassUnlocked`, `classify_unobserved`) or under the mutex (`Admit`); what it concluded is in
`seen` until the next step. An effect of a recording is "now"; the next native Reset makes it "before". `past` is
history: per list, whether an entry of it was lost or overtaken.

### FrameLease and CaptureSubmission

`FrameLease` is what `scene_capture_manager.hpp` promises of a snapshot texture: leased once, after its copies ran and its
recording was retired; used again only when no list that writes it and no reader of it is queued. `CaptureSubmission` is the
manager that implements it with its packets, and the run `submission` checks that it does (`FramesLeased` is `Lease!Spec` under the
mapping of `Frame`, `QueuedFor` and `Trusted`).

A recording thread captures (`Capture`), submits (`Enter`, then `Reserve` with a receipt, `ForwardUnordered` without, or `Refuse`) and resets its list
(`Reset`). The receipt (`tx`, held with `submission_mutex_`) is one action per call that another thread or the GPU can see:
`QueueWait`, `PublishWait`, `Forward`, `RecordTails`, `Signal`, `Finish`, and the failed Wait `FailWait`. A batch that must not wait or cannot be ordered in
time marks its packets and goes (`Escape`, `escape_unordered`); every holder of the manager's mutex first settles marks, failures, finished
readers and retired recordings (`Settled`, `Collected`), so those operators stand in every locked action, as `apply_deferred`, `recycle` and
`collect` do in the code. The worker polls, keeps the newest frame of the feed, draws it on its own queue under a receipt of
its own and ends the consumption (`Poll`, `Take`, `DropPending`, `Draw`, `FinishConsumption`). The watchdog closes the gate, releases the Waits it finds
published and opens again (`CloseGate`, `release_queued_waits`, `OpenGate`); a batch reads the gate before it takes the lock (`PastGate`). The GPU
is a queue of operations per D3D12 queue; `Run` takes the head, a Wait only when the fence allows it.

`past` is history: per packet, the packets whose content was older when its copy ran last, packets whose mark was lost, whether a CPU release overtook the GPU or
a late Signal set the fence back, which batches were past the gate when it closed.

### CameraPair

A manager update of the simulator is a sequence of steps, each an access that another thread or the simulator can see.
`Update` begins it: retirement slots age, and a flight that changed keeps the pair or resets it (`BeginFlightChange`; a kept pair whose
validation was refused is reset, `Refused`). Under a reset the update goes through `HoldDrain`, `HoldConfirm` and `HoldAcknowledge`; with a kept
pair through `KeptSettle` (the pair was busy when it was to be kept) or `KeptInspect` and `KeptStore`; otherwise, while the flight is ready, through
`Inspect`, `RequestCreation`, `AfterCreation`, `CancelDeferred` and `Show` or `ShowFails`, which look for a flight change again (`Unvalidated`, `hold_changed_session`).
A kept pair is sampled under the mutex, inspected and closed without it, and stored or resumed under it again if nothing has
voided what was found. Its decision is `session.kept`, and `session.held` is `flight_change_hold`. `PairController::process_update` is inside: it takes the mailbox
(`TakeMailbox`) and then runs creation callbacks (`CreateEntry` or `CreateRefused`, then `StoreEntry`) or erase callbacks (`EraseCallback`, latest entry first,
`CleanupDone`). Between two such steps request threads may start or resume, stop, keep or reset (`request_scene_test`, `request_scene_stop`,
`request_scene_profile_transition`, `request_scene_session_reset`); they see the pair busy while `observer.step` is not "none", as the controller's flag says. The simulator finishes
setting up an entry, releases views, tears the pair down with a flight, loses and finds its manager, and loses
telemetry (`SetupFinished`, `ViewReleased`, `Teardown`, `ManagerLost`, `ManagerFound`, `Load`, `TelemetryLost`, `FlightReady`). An entry is "pending" until it can be read, "open", "closed"
when its gate is, "erased" by the bridge or "gone" with a flight. `past.closed` is history: entries that were closed
when the update began; `past.dropped` names views that left the ledger unreleased (section 7).

### SubmissionProof

What the bridge proves of one display from the lists that are recorded. `open` holds the ledger of the list under
recording (`PfdSubmissionProof` with its slot for the display) next to the truth: the state the list found the display in,
whether it named, wrote or may have sampled it. The hooks are functions of the ledger (`observe_legacy`, `gpu_work`,
`compute_work`, `note_carried_write`, `begin_pass`, `end_pass`, `invalidate`), and an action is a command of the simulator with its
effect on the truth and the hooks it reaches: `Barrier`, `Draw`, `ClearUnordered`, `DrawElsewhere`, `Dispatch`, `Copy`, `BeginPass`, `EndPass`, and
`Unprovable` for everything the ledger refuses (aliases, split barriers, commands unknown to it, a hook that did not get its
lock). The simulator is what Direct3D 12 allows it to be: barriers start from the state the display is in, and only
work a state permits touches it. A display in COMMON is promoted by the work that uses it (`Usable`, `Used`): by a copy to a copy
destination, and, as `gpu_work` and `compute_work` read the rules, by a draw to a render target and by a dispatch to unordered access,
which Direct3D 12 allows for simultaneous-access textures only. A promotion may decay when the call ends. `Draw` and `ClearUnordered` are
reported as writes of the display only if it is selected for a camera and the view is known (`reported`); otherwise the ledger sees GPU work
and nothing more, as it does of a shader's store or a copy. Such a write counts in the truth (`Unreported`) if the list has named the display
before, which is what the ledger can go by; else it is hidden, and the properties say nothing of it. `batch` are the closed lists of the call that is being built; the sites (`batch_overlay`,
`batch_entry`, `batch_after`, `carried_overlay`) are operators of it, with the loops of the code written as the least or greatest
list of a set.

`registry` is the resource's `settled_state` and the ring of rows of Closes that did not get the registry's lock
(`apply_settlement`, `push`, `drain`, `discover_pfds`). `Close` settles or defers, `Execute` plans (and drains) or finds the registry busy,
`Discover` is the worker's pass. `missed` is history: a list without a complete recording has moved the display since the
last row, or a promotion has decayed (section 7).

### MC modules and proofs

`MCSceneHandoff`, `MCSubmissionPool`, `MCStallWatchdog`, `MCTaxiButton`, `MCListEvidence`, `MCCaptureSubmission` and `MCCameraPair` give the constants their values and define no
behaviour. `MCSubmissionProof` defines a state constraint, `OneListUnderContention`: a Close that misses the registry's lock is explored with
calls of one list, and calls of two with Closes that get it. The sites of a call do not depend on how its rows reached the registry. `SceneHandoffProofs`, `SubmissionPoolProofs`, `StallWatchdogProofs`, `TaxiButtonProofs`, `ListEvidenceProofs`,
`CaptureSubmissionProofs`, `CameraPairProofs` and `SubmissionProofProofs` extend the modules with the theorems.

## 4. The runs

| run | specification and bounds | shows |
| --- | --- | --- |
| `handoff` | one device, two addresses, two feeds, two interchangeable observers, one recorder; counters end at 5 (lifecycle), 3 (resource), 2 (scene, capture) | no publication, match or hint outlives the registration it came from; overlapping inspections; exhaustion |
| `pool` | two packets, three serials, two receipts, one CPU release; fair | leases, evidence, restore before save; every copy is answered |
| `pool_release` | the same, two serials | finding, section 7 |
| `watchdog` | stall 2, recovery 2, two trips in 9 polls, a sleep lasts 1 or 2 polls, passes of any length; no camera, the door camera alone or beside a preview, a stale button before readiness, an aircraft change, disconnected | trips on a freeze and only then; repeated stalls hold; the gate follows; a request belongs to its hold and is made over no taxi camera that was on |
| `watchdog_hold` | stall 1, recovery 1, one trip holds; the button pressed with frames that flow, stale, released; halt at any time; passes of at most two polls; fair | a halt outside a recovery's stores holds; trips end with frames, holds end with OFF |
| `taxi_button` | two sides, shortcuts of one and of both, two serials, permission 0 ticks, life 1 tick | retired means done, shortcuts reverse, and the side a shortcut does not affect keeps its request |
| `taxi_button_live` | one side, one serial, one hand press, one reset, permission 1 tick, life 2 ticks; fair | pressed once and retired under every disturbance |
| `list_evidence` | two lists with a thread each, one of them Reset, destroyed and its address used again; a ring of two entries; one renewal (reused address or session reset) | what a batch is forwarded or ordered with is what its lists recorded |
| `submission` | one list, two packets, two queues and the bridge's, two receipts, one batch that escapes, is refused or fails | the manager implements `FrameLease`; the newest frame wins |
| `submission_waits` | two lists, one packet, two queues and the bridge's, three receipts, one closing of the gate | no new cycle of Waits; a closed gate leaves no queue blocked |
| `pair` | two views, one retirement slot, four entries, four requests, two troubles; fair | entries are erased an update after they closed; a kept pair resumes closed, alive and for the loaded flight; a reset ends, and ends empty |
| `submission_proof` | two lists in a call, or one while rows wait in the ring; two ring slots | the sites of a call and the settled state are right for everything the simulator can record |

Why the bounds are enough. In `handoff` an address can be registered, destroyed and registered again under a held
match, by either of two inspections that overlap, and each counter reaches its refusal; the observers are
interchangeable, so they are symmetric, and the theorems of section 6 hold for any number of devices. In `pool` two
packets make the third copy find the pool full, a pair of restore and save may lose either half, and the second
receipt may overtake the first's Signal; receipts and serials are bounded, so a behaviour really ends there and
deadlock is not checked. In the watchdog the thresholds are small but every order of ages around them occurs
(`MaxElapsed` = 2 skips over a threshold, the window of 9 lets a trip age out between two others), and each run moves
between the worlds its question is about; `MayHalt` adds the failure storm. In `taxi_button` a second shortcut can be
issued before the first answer; `MaxSerial` stands for the largest 64-bit value, so the refusal at the end of the
serials is reached as well; ages compare as in the code at and past their limits; `Outcomes` says what a press can
become; one sample under way is enough for a sample that is older than the press and one that is newer, since each is
handled in order. `taxi_button` excludes hands and resets, under which its properties cannot hold by design (a hand on the
button changes what a retired request means), and `taxi_button_live` includes them.

In `list_evidence` two entries fill the ring with one thread's evidence and its Reset, or with one entry of each, and the
third overflows it while either list has entries in it; the second list changes its object once, or the session once,
under entries of the old one. In `submission` a second packet lets a capture be polled while another is recorded or
read; two receipts are one of the simulator and one of the worker, or two of the simulator on two queues; one trouble
is each way out of the ordinary path, once. In `submission_waits` a blocked queue needs a receipt it waits for and the
receipt of another queue between them: three. Lists, queues and packets are interchangeable there, and no property of
those two runs is about liveness, so symmetry is sound. In `pair` two views share one slot, so that each retirement takes
turns; four entries are two pairs, so that a pair is created while views of the last one are unreleased; four requests
are a start and three that stop, keep, resume or reset, or interrupt each other; two troubles are a failure and another one during the
recovery from it. Behaviours end where the bounds do, so deadlock is not checked in these runs. In `submission_proof` a second
list is enough for "later" and "earlier" of every site and for a state kept from list to list, calls follow one another
without bound, and a ring of two slots has an older and a newer row to lose or to wait; the number of commands in a list is not bounded, since the
ledger is finite.

Every property of a passing run is shown able to fail: `PROJECT.json` "mutants" names, for each, a definition and a
`Fault` that breaks the property when it takes that definition's place.

## 5. Fairness

* `SubmissionPool!FairSpec`: weak fairness of the receipt's own steps (the thread that holds it runs it to the end; no
  step of it waits), of `Service` (the worker calls it in every pass) and of the GPU's steps together. Nothing is
  assumed of new batches, failures or the watchdog. `EveryCopyAnswered` leaves out only copies that were
  already submitted when their device failed or was released from the CPU: the code stops servicing a failed device by
  design, and after a release a queue's late Signal may set the timeline back behind a later value. A copy that was
  counted and never recorded, or recorded and never submitted, is answered even then.
* `StallWatchdog!FairSpec`: weak fairness of the watchdog thread and of the worker; both are loops that never block on
  each other. `watchdog_hold` also bounds a pass of the worker by two polls (`MaxPass`): without that bound `OffEndsHold` does
  not hold (section 7).
* `TaxiButton!FairSpec`: weak fairness of the telemetry thread's dispatch and of time. Nothing is assumed of the
  aircraft, the connection or the worker.
* `CameraPair!Fairness`: weak fairness of the manager update (the simulator calls the observer on every one, and the
  observer never waits), of the end of a load and the return of telemetry and manager (the code has no other way out
  of those), of the setup of each entry and of the release of each view. Nothing is assumed of requests.

`ListEvidence`, `CaptureSubmission` and `SubmissionProof` state safety only.

## 6. The proofs

Each theorem holds for every value of the constants under the named assumptions of its module (`FeedsAssumption`,
`BoundsAssumption`, `NullAssumption`, `GraphsAssumption`; `PoolAssumption`; `WatchdogAssumption`; `ButtonAssumption`; `ListAssumption`; `SubmissionAssumption`; `PairAssumption`; `BatchAssumption`; `FrameLease` has none), all of which TLC evaluates in
the runs. Each proof has a lemma per action and a lemma per helper the actions share. In `CaptureSubmissionProofs` each action is first
shown to be one of eleven kinds, by what it does to the timeline (`TimelineStep`), and the invariants are then proved by kind.
Its invariants, with the kinds of step and what else only the proofs speak of, are in `CaptureSubmissionInvariants`.

| theorem | statement | inductive invariant |
| --- | --- | --- |
| `SceneHandoffProofs!TypeCorrect` | `TypeOK`, no counter leaves its width | itself |
| `SceneHandoffProofs!PublicationSafe`, `HintComplete` | `PublicationIsRegistered`, `HintNeverRejectsMatch` | `Published`: the tables mirror the publication, and a publication's resources are those registered. The property alone is not inductive: a lifecycle event finds what to revoke through the `observed` table, so the table must be known to contain every published address |
| `SceneHandoffProofs!InspectionSafe` | `PublishedAsInspected` | itself and `Fresh`: while an inspection's ticket is current, what it read without the mutex is what is registered behind the handles now; a lifecycle event that changes that makes the ticket stale |
| `SceneHandoffProofs!MatchSafe` | `CurrentMatchIsLive` | `Incarnations` = `Unique` (no two registrations share a generation), `Counted` (every generation was drawn from the counter) and `Forgotten` (the generation of a held match was drawn, and that of a dead incarnation is registered nowhere): the next registration of the address gets another, so a dead match finds itself nowhere |
| `SceneHandoffProofs!SequenceSafe` | `SequenceNeverRegresses`: an older inspection neither replaces nor revokes what a newer one published | `Ordered`: the published sequence is not beyond the capture counter, which only grows, so an older ticket is refused before its graph is looked at |
| `SubmissionPoolProofs!TypeCorrect` | `TypeOK` | `Typed`: adds that a packet which owes a report has a serial and that the receipt's packets are recorded |
| `SubmissionPoolProofs!LeaseSafe`, `CompletionIsEvidence` | `LeaseKeptUnlessReleased`, `CompletedCopyRan` | `IInv` = `Typed` and, while no wait was released from the CPU: `Order` (the timeline, pending Signals and Waits are in the order of receipts), `Leases` (a queued copy's packet holds it and is covered by its receipt), `Evidence` (a completed serial ran). The lease needs the order: it ends when the fence reaches the covering value, and only the order says that the copy ran by then |
| `SubmissionPoolProofs!RestoreFirst` | `SaveFollowsRestore` | itself and `RestoreHeld` (while a receipt is open, the restore a save relies on is recorded in the same receipt). It needs nothing of the timeline, so it holds after a wait was released from the CPU as well |
| `StallWatchdogProofs!TypeCorrect` | `TypeOK` | itself |
| `StallWatchdogProofs!RequestOfThisHold`, `GateInStep`, `HaltHolds` | `RequestBelongsToHold`, `GateFollowsWatchdog`, `HaltHoldsOutsideRace` | `TypeOK`, `HeldIsTripped`, `Published` (the published hold lags by at most the poll under way), `Requests`, `Following` (the gate's two stores along the poll), `Halted` |
| `StallWatchdogProofs!FreezeFound` | `FreezeDetected` | `Timely`, of which `Clocked`: neither timer is ahead of the time since anything advanced, once its counter was seen, and one of them is exactly it. The property alone says nothing between two polls |
| `StallWatchdogProofs!HoldAfterRepeats` | `RepeatedStallsHold` | `Timely`, of which `Counted`: the ring is in the order of its cursor, its entries inside the window are trips that count, and a trip it lost is older than the whole ring. Which is why `HoldTrips` entries are enough: the last step counts with an injection between entries and trips |
| `StallWatchdogProofs!HoldLasts` | `HoldLastsWhileRequested`: a release is asked for over no taxi camera that was on | `KnownOff`: the same from the worker's reading to its request. It assumes nothing of the pilot; the door camera alone does not keep the hold, and the property says so (section 7) |
| `TaxiButtonProofs!TypeCorrect` | `TypeOK` | `Typed`: adds that the session never outruns the resets |
| `TaxiButtonProofs!PressedOnce` | `OncePerRequest` | `Counted`: no request pressed twice; later serials pressed nothing; whatever the last request waits for is unpressed, under way, or between the call and its record; a decision that was superseded had pressed nothing of its successor. The last two are the argument: step() presses a side again only if its lamp acknowledged the press, and then the side is done |
| `TaxiButtonProofs!RetiredDone` | `RetiredMeansDone` | `Watched`, while only Taxi Cam presses: `Followed` (for each side, what the telemetry thread knows is what is on the connection: nothing, a press that has not flipped the button and of which every sample shows the old value, or one that has, after which no later sample shows it again), `Aimed` (a side still to be pressed has not what is asked for and nothing is on its way) and `Retired`. The property alone says nothing of the samples, and a sample from before the press is what would retire a side too early |
| `TaxiButtonProofs!ShortcutsReverse` | `ShortcutReverses` | `Tracked`: the request and what was read of it are in order (`Ordered`), and the request on the sides it selects, the buttons on the sides nobody waits for, and the published lamps on the sides the companion takes as answered are all the parity of the pilot's shortcuts (`Meant`). `OpenWaits` is the step: whatever state of the command was read, the companion waits for every side the command waits for, because the acknowledgement is read before the lamps |
| `ListEvidenceProofs!TypeCorrect` | `TypeOK`, the ring never holds more than its slots | `Typed`: adds that an address's object is bounded by the renewals and that only an entry still in the ring is committed |
| `ListEvidenceProofs!MarkedMeansClean` | `CleanIsClean`: a Reset that skips the mutex skips nothing | `Marks`: adds `Forgotten`, that no list is marked while an overflow is being taken. It is what the order "marks first, flag second" is for: the invalidation that follows finds no marked list |
| `ListEvidenceProofs!BypassedIsUnrelated` | `BypassIsObserved`: a batch forwarded without ordering has no effects, unless an entry of it was lost or overtaken | `Reported`, list by list: an item is of the list's object or its destruction is pending (`Owning`); effects are in the item with nothing but evidence pending, or wait in the ring behind every Reset and destruction, or the item is unknown (`Covering`); a Reset that is not yet reported has no effects (`Renewed`). Lost and overtaken entries are excused by `past`, where section 7 says why |
| `ListEvidenceProofs!AppliedIsRecorded` | `AppliedAsRecorded`: what a recording is ordered with is all of its evidence and none of an older recording's, overflows included | `Reported` and `Traced`, list by list, while its entries are in order: no entry is of a later object (`Dated`); an item of a destroyed object has its destruction pending, or is discarded with no Reset pending (`Orphaned`); otherwise what waits behind the last pending Reset is the recording's evidence, or no Reset is pending and the item with what waits is (`Exactly`), or the item is `Doomed` (`Faithful`). `Doomed` is what makes it inductive across an overflow: marked invalid or unobserved, or about to be, by a holder between the flag and the invalidation, or because the flag is up and nobody who could submit the list holds the mutex (`late`) |
| `CaptureSubmissionProofs!TypesHold` | `TypeOK` | `Typed`: adds `Placed`, that a receipt is its thread's, on the thread's queue |
| `CaptureSubmissionProofs!WaitsAreReleased` | `GateReleasesWaits` | `Typed`, `Bounded` (no Wait, Signal or release is beyond the receipts handed out) and `Released`: a queued Wait that is not published is the open receipt's own (`OwnWait`), and behind a closed gate the others are released or of threads that had passed it (`Passed`). The property speaks of the fence, which a late Signal can set back; `past.setBack` is the exception |
| `CaptureSubmissionProofs!NoCycleIsClosed` | `NoNewCycle` | `Ordered`, while the watchdog has not moved the timeline. `Chained`: each queued Signal is next or behind the Wait for the one before (`InTurn`), is queued once (`SignalledOnce`), and the open receipt is behind the last one (`Behind`). `Covered`: the simulator's Signals are counted (`Counted`), those of other queues than the last are behind a Wait of a batch with packets (`OthersBlocked`), what was decided when the receipt was reserved still stands (`Admissible`), and so the Waits of batches without packets are harmless (`EmptyWaits`). `cross_queue_unfinished` remembers one queue and one value only: `OthersBlocked` is why that is enough. The other queues' Signals are ahead of a Wait that only a batch with packets could have queued |
| `CaptureSubmissionProofs!FramesAreLeased` | `FramesLeased`: every step of the manager is, for each packet, a step of `FrameLease` or leaves its slot alone | `Sound`, `Released` and `Ordered` of the theorems above, `Safe` (what `Exclusive` says of each packet), and `Leased` = `Listed` (a recorded packet is in one list, or a tail of the receipt), `Handled` (the worker's frames are the leased ones), `Outcast` (what goes without a receipt, and what a failed device had, is marked or quarantined), `OwnSignal` (the open receipt's Signal, once made, is queued until it is published) and `Covering` (behind each queued copy there is the Signal of a receipt its packet was submitted with; the Signal of the last such receipt is queued where the packet's producer says until the fence reaches it, and a retiring packet's fence is queued behind both; a reader is the worker's, or is covered by the value the packet waits for). `Covering` is the argument: the manager looks only at the packet's last receipt and its producer's fence, and that no earlier copy is still queued on another queue then follows from `Ordered`, the chain of Signals |
| `CaptureSubmissionProofs!NewestWins` | `NewestFrameWins`: the worker never has a picture pending that the GPU wrote before one it had accepted | the invariant of `FramesAreLeased` and `Dated` = `Queueing` (the copies of a packet that is sure to count are queued behind the Wait for the receipt before its own, `Awaited`, and on its queue behind the copies of every earlier order, `Behindhand`), `Aged` (a packet whose content was older when another's copy ran has no later order), `Passe` (what was written before an accepted frame is not beyond `worker.newest`) and `Sane` (only a submitted packet leaves the recorded state, only recorded ones are marked). The property compares what the GPU did with numbers that the receipts gave: `Aged` ties the two, and is kept by a copy that runs because of `LaterQueued` (an earlier order that is still queued keeps a later one queued, on whichever queue), which is where `Ordered` and `Covering` are needed |
| `CaptureSubmissionProofs!LeaseIsExclusive` | the lease's `TypeOK` and `Exclusive`: no frame is read while it is written, no texture used again under its readers or writers | itself, texture by texture: each step of the contract keeps it |
| `CameraPairProofs!TypeCorrect` | `TypeOK`, with its counts: at most an entry per view, at most `Slots` slots | `Typed` = `Shape` (the types) and `Creating` (a creation is asked for once per update and when nothing is owned, so what is owned and made never exceeds the feeds) and `SlotsCounted` |
| `CameraPairProofs!ErasedOnlyAfterClosed` | `ErasedClosed` | `Kept` = `Typed`, `Booked` (a slot of an earlier update vouches for a closed entry; entries to come have none) and `Unretired` (the pair that is shown or being made has no slot, so an old slot never vouches for a new entry) |
| `CameraPairProofs!ResetLeavesNothing` | `ResetMeansEmpty` | `Retirement`, beside `Typed`: `Known` (a live entry is owned, or was just made and is about to be), `Accounted` (an unreleased view is among the retired ones or the pool's, or the bridge lost it), `Confirmed` (what `HoldConfirm` found drained stands until `HoldAcknowledge`, with no view left in the pool's list), `Unused` (before the first start there is nothing, so a reset is retired at once) and `Emptied` (a session reported retired owns nothing and the observer makes nothing while the reset holds). `ready` alone says only that nothing is shown; `Known` is what rules out a creation that is still under way |
| `SubmissionProofProofs!TypeCorrect` | `TypeOK`, the ring never holds more rows than slots | itself |
| `SubmissionProofProofs!OverlaySafe`, `EntrySafe`, `SettledSafe` | `OverlayOnTop`, `EntryUnderWrites`, `SettledIsActual` | `Current` (the ledger of the open list is `Good`), `Chained` (those of the closed lists are `Traced`, and each list begins in the state the last one left), `Remembered` (after a drain the registry is stale, or says the state left, or does not know). `Good` = `Traced` (what a valid ledger says of first and last state, writes and sampling is so; where the list found COMMON or the display was promoted, only what still is) and `Watched` (a display that a draw sampled or promoted before the list named it is under interference). Each hook has a lemma that it keeps `Good`, with promotions (`Promotes`) among the commands; sites are then found by the first or last list of a set. Hidden writes are excepted by the properties themselves |

`FramesAreLeased` and `LeaseIsExclusive` divide the work: the first shows that the manager implements `FrameLease`, the second what
the lease is worth. TLC checks the first on the instance of `submission` as well. The proof takes each action of the manager in two halves: what
it does to the packet's queued copies and readers, and which step of the contract its slot makes; helpers that every
locked action shares (`Settled`, `Collected`) have the lemmas once. `NewestWins` uses the same halves: an action of a mutex's holder
leaves each packet that counts with the order, producer and queued copies it had (`Follows`); the four that do more have arguments of their
own: `Forward` queues copies, `Signal` those into the tails, `Run` writes them, and `Take` accepts a frame. `Finish` writes into the packets the orders that `Ordinal` had given since
the copies were queued.

`PressedOnce` includes resets, new sessions, refusals, failed calls and the pilot's hand: no assumption on the
environment is needed.

Only model-checked: liveness under fairness (`EveryCopyAnswered`, `RecoversWithFrames`, `OffEndsHold`, `RequestRetires`, `RetirementEnds`), since the
prover has no rules for ENABLED; and, not proved yet, `ResumesClosed`. `HintNeverRejectsMatch` is proved and has no run of its own.
Recursive definitions and induction over data are also beyond the prover; these modules use neither.

## 7. Disagreements between the code and its own comments

`pool_release` is a run that TLC refutes; `PROJECT.json` "findings" quotes the lines.

* `pool_release`: when the watchdog closes the gate it signals a device timeline from the CPU so that queues waiting on
  an unsignalled receipt go on (`scene_capture_manager.cpp:200-225`). The worker's service keeps running and takes the
  value as completion: a packet's references are released and its allocator reset while a queue may still hold its list,
  and its serial is reported as completed. The pool's header promises the opposite.

The others were met while modelling, and the models behave as the code does. The properties are stated around them, each with a
history variable, a named exception or a bound, so the passing runs say what holds apart from these:

* Quiet pulse: `docs/render-thread-freeze-guards.md:35` says that the watchdog closes the gate if the pulse stops for 3 s while
  the bridge is connected, and of telemetry that "it substitutes for the pulse only before the first submit has been
  observed". `FreezeWatchdog::observe` also demands, once a simulator frame has been seen, that frames have stalled as long
  (`freeze_watchdog.hpp:90-94`, `119`, "requiring both loses no real trip"): a pulse that stops while telemetry goes on leaves the
  gate open. `FreezeDetected` says what the code does: it trips when nothing at all advanced.
* Halt during a recovery: `set_graphics_armed(true)` reads `admission_halted`, then stores (`d3d12_bridge.cpp:4794`). A halt in
  between is overwritten, and a registry halted for the process, which line 4792 says stays disarmed, is armed again.
  `HaltHoldsOutsideRace` excepts that window.
* Hold and door camera: cameras are "wanted" with the door camera on, but the known OFF that ends a hold is computed
  from a mask without it (`bridge_main.cpp:1796`, `1798`). With only the door camera on, stalls count toward a hold, and the hold ends
  in the worker's next pass, although line 1793 says that it "lasts until the pilot turns them off".
  `HoldLastsWhileRequested` names the exception.
* Hold and a long pass: `StallHoldRelease` (`freeze_watchdog.hpp:211`) forgets its request only in a pass that sees the
  hold gone. A pass that outlasts a release, a stall and a recovery sees the second hold as the first and never asks
  again. `MaxPass` bounds the pass.
* Order of the deferred ring: the drain stops at a head entry whose producer is between its two stores
  (`shared/bounded_lock.hpp`), so work of the lock holder on a list can be done before entries queued for it, which the
  comment at `scene_capture_manager.cpp:1424` excludes. `past` calls such a list "disordered".
* Overflow and an older Reset: the overflow invalidates every recording until "its next observed Reset"
  (`scene_capture_manager.cpp:281`, `docs/render-thread-freeze-guards.md:21`). A Reset of the list that was queued before the
  overflow is replayed after it and renews the recording, although the entry lost was a later one. "disordered" too.
* Escape marks: an escaping batch marks its recordings with one compare-exchange beside the lock
  (`scene_capture_manager.cpp:650`). Where it loses, a bounded escape only makes the sources uncertain: the packets are
  not quarantined, as the comment at line 66 of that file says they are, and may be handed out while their list is
  queued. `past.unmarked` names them.
* Late Signals: after a CPU release the overtaken receipt's own Signal sets the fence back to a lower value, and a Wait
  that the release had satisfied, but that the queue had not reached, blocks again. `past.setBack` marks it.
* Ledger of released views: `owned_pool_views` has an entry per feed. A view that the simulator tears down with its
  entry, while an ordinary cleanup finds the entry absent, is overwritten there by the next creation and never awaited;
  a reset may then be acknowledged while it is unreleased. `past.dropped` names such views.
* Lists without a proof: a recording that is not complete leaves no row (`d3d12_bridge.cpp:3780`), so `settled_state`, which
  should be the state left by the last closed list "or all-bits when unknown" (lines 66 and 287), stays an older one
  although the display moved. A quiet call may then copy in a wrong state. `missed` marks it, and a promotion that decayed
  after the row was written.
* Writes that end where nothing can be inserted: `batch_overlay` refuses a prefix or tail site when a later list overwrites
  the display (`pfd_submission_proof.hpp:412`), but not the site after an earlier write. `OverlayOnTop` excepts it by
  `Unfinished`.
* Clean entries: `entry_clean` counts draws and clears before the first event only. A list that exits the render target,
  samples the display and enters again counts as clean, while the planner reads it as "not before a list that may sample
  the display first" (`d3d12_bridge.cpp:3215`). `EntryUnderWrites` says what holds.
* Hidden writes: a list that has not named the display may write it in a state kept from an earlier list, through a view that is
  unknown or while the display is not selected for a camera (`d3d12_bridge.cpp:2252-2261`), by a shader's store, or by a copy;
  nothing reports that. The truth counts a write only once the ledger could know of it, so `OverlayOnTop` and `EntryUnderWrites`
  except these.
* A copy behind a prefix: `pfd_submission_proof.hpp:17` says "a prefix is revoked if the same display later becomes writable again".
  Copies are reported as work that cannot be a draw (`gpu_work` with `may_render_target` false, line 190), which leaves the
  prefix alone; but a copy into a display that the list left in COMMON promotes it to a copy destination without a barrier,
  and so writes behind the prefix copy. These are hidden writes too.
* A kept pair that vanished: `retained_profile.hpp:69` answers "wait" for a view that is not complete, and `inspect_pair`
  (`probe.cpp:954-958`) leaves the view of an absent entry incomplete. A kept pair whose entries the simulator destroyed is
  therefore waited for on every update: it is not refused and no reset follows, until a request asks for one.
  `docs/architecture.md:57` and `probe.cpp:285-286` promise the full reset for "anything that cannot be kept". `RetirementEnds` is about
  resets that have begun.

## 8. Limits

* Left out of the modelled components: diagnostics counters and log lines; the pool's destructor and copy geometry; the
  handoff's destructor; in the watchdog the notes that are only logged; in the TAXI protocol the manual layers
  (`follow_taxi` off), aircraft whose latch is written directly, the PMDG CAM page and the age limit on the published
  sample (it only removes presses). The companion's settings and the worker's status each travel through the shared
  mailbox in one step; a torn mailbox is the subject of the planned `CompanionLink`. The worker's copy of the session
  epoch is read in the step of its update.
* `ListEvidence` and `CaptureSubmission` divide the manager: the first knows that a recording has effects and not which, the
  second knows at once what a list carries. In `CaptureSubmission` a list without packets may be recorded and submitted
  at will, a batch may be refused at any time, an escape decides and marks in one step, and there is one feed and one
  device that never is removed. Source states, phases and tails' contents belong to the planned `SourceState`.
* `SubmissionProof` has one display and one recording at a time, and closes lists in the order they are executed in (the
  settled state follows the order of the Closes). The rows of other displays in the ring, `content_serial` and
  `covered_serial` belong to the planned `DisplayShadow`; refusal reasons and blockers are diagnostics.
* `CameraPair` leaves out: another aircraft's profile, with the in-place resizing of a kept pair
  (`request_scene_profile_transition` is modelled for the same aircraft), poses and antialiasing flags, the suspended flag, a
  second manager or renderer, and Update's returns for throttling and idleness. The loss of one view is a trouble its
  validation may meet. A cancellation by a request thread is one step. The view pool's capacity beyond the ledger is a refusal
  during creation.
* Memory order: atomics are sequentially consistent in the models; reorderings a weaker order would allow are not covered. The
  gate's stores are separate steps. The handoff's hint tables change in the step of the publication they mirror, so a
  reader between their stores is not covered.
* The GPU, SimConnect and the simulator's view manager are modelled from how the code uses them: fences, Waits and
  Signals with their order, messages handled and answered in order, entries that are set up, closed and released.
  Device removal is the fence's all-ones value.
* Components without a module yet are listed in section 1 and in `PROJECT.json`, with the reason; those whose
  "note" says "planned" are section 2's remaining rows. Disassembly, shader pipelines, user interface, updater and
  installer are pure I/O or data and are not planned.

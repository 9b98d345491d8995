--------------------------- MODULE StallWatchdog ---------------------------
(***************************************************************************)
(* The presentation watchdog (bridge/freeze_watchdog.hpp) on its thread    *)
(* (bridge_main.cpp, watchdog_run), the bridge worker that asks it to end  *)
(* a hold (StallHoldRelease), the render threads that may halt admission,  *)
(* and the graphics gate all of them store to without a lock.              *)
(*                                                                         *)
(* One unit of time is one poll of the watchdog.  The class compares times *)
(* only with now, so a time is kept as its age, which saturates at the     *)
(* threshold it is compared with; a zero time is Unset.                    *)
(***************************************************************************)
EXTENDS Integers, FiniteSets

CONSTANTS
    Stall,          \* FreezeWatchdog::StallMs in polls
    Recovery,       \* RecoveryMs in polls
    HoldTrips,      \* trips that hold
    HoldWindow,     \* HoldWindowMs in polls
    MaxElapsed,     \* bound: polls one Sleep can last
    MaxPass,        \* polls one pass of the worker can last; 0: any number
    Worlds,         \* bound: the pilot's and simulator's states considered
    MayHalt         \* whether a failure storm may halt admission

\* The pilot (connected and enabled, TAXI button, previews/shortcuts/scene test,
\* door camera) and the simulator (ready flight, fresh button reading, aircraft
\* changing, frames flowing without a gap).
World == [connected : BOOLEAN, button : BOOLEAN, manual : BOOLEAN, door : BOOLEAN,
          ready : BOOLEAN, fresh : BOOLEAN, changing : BOOLEAN, flowing : BOOLEAN]

ASSUME WatchdogAssumption ==
    /\ Stall \in Nat \ {0} /\ Recovery \in Nat \ {0}
    /\ HoldTrips \in Nat \ {0} /\ HoldWindow \in Nat \ {0}
    /\ MaxElapsed \in Nat \ {0} /\ MaxPass \in Nat
    /\ Worlds \subseteq World
    /\ MayHalt \in BOOLEAN

VARIABLES
    dog,            \* FreezeWatchdog, the watchdog thread's own
    poll,           \* the watchdog thread: where it is, its decision
    shared,         \* the atomics between the threads
    gate,           \* Registry::armed, admission_halted; the submission gate
    halt,           \* the render thread inside halt_admission
    worker,         \* the bridge worker: where it is, StallHoldRelease
    world,          \* the pilot and the simulator
    past            \* history, see Poll and Want

vars == <<dog, poll, shared, gate, halt, worker, world, past>>

-----------------------------------------------------------------------------
Unset == -1
Cameras == {"taxi", "door"}
Least(a, b) == IF a <= b THEN a ELSE b
Older(age, elapsed, limit) ==
    IF age = Unset THEN Unset ELSE Least(age + elapsed, limit)

Init ==
    /\ dog = [pulse |-> Unset, sim |-> Unset, recover |-> Unset,
              trips |-> [i \in 0..HoldTrips - 1 |-> HoldWindow], next |-> 0,
              tripped |-> FALSE, held |-> FALSE, wanted |-> FALSE]
    /\ poll = [at |-> "observe", decision |-> "none", open |-> FALSE]
    /\ shared = [held |-> FALSE, asked |-> FALSE, connected |-> FALSE, wanted |-> FALSE]
    /\ gate = [armed |-> TRUE, submissions |-> TRUE, halted |-> FALSE]
    /\ halt = "none"
    /\ worker = [at |-> "connect", connected |-> FALSE, off |-> FALSE, requested |-> FALSE,
                 polls |-> 0]
    /\ world \in [pulseSeen : {FALSE}, simSeen : {FALSE}, input : Worlds]
    /\ past = [quiet |-> Unset, counted |-> {}, wanted |-> FALSE, on |-> {},
             raced |-> FALSE]

-----------------------------------------------------------------------------
(* FreezeWatchdog. *)

\* FreezeWatchdog::Sample; moved: the counter differs from the last sample's.
Sample == [pulseMoved : BOOLEAN, pulseSeen : BOOLEAN, simMoved : BOOLEAN, simSeen : BOOLEAN,
           expected : BOOLEAN, armed : BOOLEAN, wanted : BOOLEAN]

\* The same watchdog "elapsed" polls later.
Aged(d, elapsed) ==
    [d EXCEPT !.pulse = Older(@, elapsed, Stall),
              !.sim = Older(@, elapsed, Stall),
              !.recover = Older(@, elapsed, Recovery),
              !.trips = [i \in 0..HoldTrips - 1 |-> Older(@[i], elapsed, HoldWindow)]]

PulseAdvanced(d, s) == s.pulseSeen /\ (d.pulse = Unset \/ s.pulseMoved)
SimAdvanced(d, s) == d.sim = Unset \/ s.simMoved

\* observe(): the stall timers and the request at the last progress.
Timed(d, s) ==
    [d EXCEPT !.pulse = IF PulseAdvanced(d, s) \/ ~s.pulseSeen THEN 0 ELSE @,
              !.sim = IF SimAdvanced(d, s) THEN 0 ELSE @,
              !.wanted = IF PulseAdvanced(d, s) \/ (~s.pulseSeen /\ SimAdvanced(d, s))
                         THEN s.wanted ELSE @]

\* Fault: a quiet presentation trips although the simulator's frames go on.
FaultTripOnPulseAlone(d, s) ==
    \/ s.pulseSeen /\ d.pulse >= Stall
    \/ ~s.pulseSeen /\ s.expected /\ d.sim >= Stall

Stalled(d, s) ==
    \/ s.pulseSeen /\ d.pulse >= Stall /\ (d.sim >= Stall \/ ~s.simSeen)
    \/ ~s.pulseSeen /\ s.expected /\ d.sim >= Stall

recent_trips(d) == Cardinality({i \in 0..HoldTrips - 1 : d.trips[i] < HoldWindow})

\* Fault: every counted trip is written to the first entry.
FaultTripNotRotated(d) ==
    [d EXCEPT !.tripped = TRUE, !.recover = Unset,
              !.trips = IF d.wanted THEN [@ EXCEPT ![0] = 0] ELSE @]

\* Fault: the count of trips runs past the entries.
FaultTripNotWrapped(d) ==
    [d EXCEPT !.tripped = TRUE, !.recover = Unset, !.next = IF d.wanted THEN @ + 1 ELSE @]

Tripped(d) ==
    [d EXCEPT !.tripped = TRUE, !.recover = Unset,
              !.trips = IF d.wanted THEN [@ EXCEPT ![d.next] = 0] ELSE @,
              !.next = IF d.wanted THEN (@ + 1) % HoldTrips ELSE @]

\* Fault: each sample with progress starts the recovery window again.
FaultRecoveryRestarts(d) == [d EXCEPT !.recover = 0]

\* A first sample with progress after the trip, or one inside the window.
Recovering(d) == [d EXCEPT !.recover = IF @ = Unset THEN 0 ELSE @]

\* The rest of observe(), on a watchdog whose timers are up to date.
Decided(d, s, progressing) ==
    CASE ~d.tripped /\ Stalled(d, s)  -> [dog |-> Tripped(d), decision |-> "trip"]
      [] ~d.tripped /\ ~Stalled(d, s) -> [dog |-> d, decision |-> "none"]
      [] d.tripped /\ (d.held \/ ~progressing) ->
            [dog |-> [d EXCEPT !.recover = Unset], decision |-> "none"]
      [] OTHER ->
            IF Recovering(d).recover < Recovery
            THEN [dog |-> Recovering(d), decision |-> "none"]
            ELSE IF s.wanted /\ recent_trips(d) >= HoldTrips
                 THEN [dog |-> [d EXCEPT !.recover = Unset, !.held = TRUE], decision |-> "hold"]
                 ELSE [dog |-> [d EXCEPT !.recover = Unset, !.tripped = FALSE], decision |-> "recover"]

observe(d, s) ==
    IF ~s.armed
    THEN [dog |-> [d EXCEPT !.pulse = Unset, !.sim = Unset, !.recover = Unset],
          decision |-> "none"]
    ELSE Decided(Timed(d, s), s,
                 IF s.pulseSeen THEN PulseAdvanced(d, s) ELSE SimAdvanced(d, s))

-----------------------------------------------------------------------------
(* The watchdog thread, one poll after another. *)

Samples ==
    {s \in Sample :
        /\ s.pulseMoved => s.pulseSeen
        /\ s.simMoved => s.simSeen
        /\ s.pulseSeen => world.pulseSeen \/ s.pulseMoved
        /\ s.simSeen => world.simSeen \/ s.simMoved
        /\ world.pulseSeen => s.pulseSeen
        /\ world.simSeen => s.simSeen
        /\ world.input.flowing => s.pulseMoved
        /\ s.expected = world.input.ready
        /\ s.armed = shared.connected
        /\ s.wanted = shared.wanted}

Poll ==
    /\ poll.at = "observe"
    /\ MaxPass # 0 => worker.polls < MaxPass
    /\ worker' = [worker EXCEPT !.polls = IF MaxPass # 0 THEN @ + 1 ELSE 0]
    /\ \E s \in Samples, elapsed \in 1..MaxElapsed :
          LET seen == observe(Aged(dog, elapsed), s)
              aged == {Least(age + elapsed, HoldWindow) : age \in past.counted} \ {HoldWindow}
          IN
          /\ dog' = seen.dog
          /\ poll' = [poll EXCEPT !.at = "release", !.decision = seen.decision]
          /\ world' = [world EXCEPT !.pulseSeen = s.pulseSeen, !.simSeen = s.simSeen]
          \* past: polls since anything advanced (Unset: nothing to guard), the ages
          \* of the trips that count, and the request this poll sampled.
          /\ past' = [past EXCEPT
                !.quiet = IF ~s.armed THEN Unset
                          ELSE IF s.pulseMoved \/ s.simMoved \/ @ = Unset THEN 0
                          ELSE Least(@ + elapsed, Stall),
                !.counted = IF seen.decision = "trip" /\ seen.dog.wanted
                            THEN aged \cup {0} ELSE aged,
                !.wanted = s.wanted]
    /\ UNCHANGED <<shared, gate, halt>>

\* Fault: the hold itself is left on.
FaultReleaseKeepsHeld(d) == [d EXCEPT !.tripped = FALSE, !.recover = Unset]

\* release(), on the watchdog's own state.
Released(d) == [d EXCEPT !.held = FALSE, !.tripped = FALSE, !.recover = Unset]

\* Fault: a release clears the hold but the gate is not opened for it.
FaultReleaseKeepsDecision(decision) == "none"

\* What a poll that applies a release then does.
ReleaseDecision(decision) == IF dog.held THEN "recover" ELSE decision

\* Fault: the request that was seen is not remembered.
FaultStillAsked(asked) == asked

\* Every poll that sees a request remembers it, applied or not.
StillAsked(asked) == FALSE

CheckRelease ==
    /\ poll.at = "release"
    /\ IF shared.asked /\ poll.decision = "none"
       THEN /\ dog' = IF dog.held THEN Released(dog) ELSE dog
            /\ poll' = [poll EXCEPT !.at = "publish", !.decision = ReleaseDecision(@)]
       ELSE /\ poll' = [poll EXCEPT !.at = "publish"]
            /\ UNCHANGED dog
    /\ shared' = [shared EXCEPT !.asked = StillAsked(@)]
    /\ UNCHANGED <<gate, halt, worker, world, past>>

\* watchdog_held.store; a trip or a recovery goes on to set_graphics_armed.
Publish ==
    /\ poll.at = "publish"
    /\ shared' = [shared EXCEPT !.held = dog.held]
    /\ poll' = [poll EXCEPT !.open = FALSE,
                            !.at = CASE poll.decision = "recover" -> "check"
                                     [] poll.decision = "trip"    -> "arm"
                                     [] OTHER                     -> "observe"]
    /\ UNCHANGED <<dog, gate, halt, worker, world, past>>

\* Fault: a recovery opens a halted registry.
FaultRecoveryIgnoresHalt == TRUE

RecoveryOpens == ~gate.halted

\* set_graphics_armed(true) reads admission_halted ...
CheckHalted ==
    /\ poll.at = "check"
    /\ poll' = [poll EXCEPT !.at = "arm", !.open = RecoveryOpens]
    /\ UNCHANGED <<dog, shared, gate, halt, worker, world, past>>

\* ... stores armed ...
StoreArmed ==
    /\ poll.at = "arm"
    /\ gate' = [gate EXCEPT !.armed = poll.open]
    /\ poll' = [poll EXCEPT !.at = "gate"]
    /\ UNCHANGED <<dog, shared, halt, worker, world, past>>

\* ... and sets the submission gate.
SetSubmissionGate ==
    /\ poll.at = "gate"
    /\ gate' = [gate EXCEPT !.submissions = poll.open]
    /\ poll' = [poll EXCEPT !.at = "observe", !.decision = "none"]
    /\ UNCHANGED <<dog, shared, halt, worker, world, past>>

WatchdogStep ==
    Poll \/ CheckRelease \/ Publish \/ CheckHalted \/ StoreArmed \/ SetSubmissionGate

-----------------------------------------------------------------------------
(* A render thread: halt_admission, once for the process. *)

HaltAdmission ==
    /\ MayHalt
    /\ halt # "done"
    /\ halt' = CASE halt = "none" -> "arm" [] halt = "arm" -> "gate" [] halt = "gate" -> "done"
    /\ gate' = CASE halt = "none" -> [gate EXCEPT !.halted = TRUE]
                 [] halt = "arm"  -> [gate EXCEPT !.armed = FALSE]
                 [] halt = "gate" -> [gate EXCEPT !.submissions = FALSE]
    \* past: the halt fell between a recovery's check and its stores.
    /\ past' = [past EXCEPT !.raced =
                   IF halt = "none" THEN poll.at \in {"arm", "gate"} /\ poll.open ELSE @]
    /\ UNCHANGED <<dog, poll, shared, worker, world>>

-----------------------------------------------------------------------------
(* The worker's loop, as far as the watchdog sees it. *)

\* bridge_connected.store, early in the pass.
Connect ==
    /\ worker.at = "connect"
    /\ shared' = [shared EXCEPT !.connected = world.input.connected]
    /\ worker' = [worker EXCEPT !.at = "want", !.connected = world.input.connected]
    /\ UNCHANGED <<dog, poll, gate, halt, world, past>>

\* requested_mask: the button's request holds through its grace, then reads 0.
Requested(grace) ==
    \/ world.input.manual
    \/ world.input.button /\ (world.input.fresh \/ grace)

\* Fault: nothing requested is an OFF whatever the age of the button reading.
FaultStaleReadingIsOff(connected, requested) == ~connected \/ ~requested

\* stall_hold_known_off, with buttons in use.
stall_hold_known_off(connected, requested) ==
    ~connected \/ (~requested /\ world.input.fresh)

\* History: which of the cameras that cameras_wanted is made of the pilot has on.
CamerasOn ==
    {c \in Cameras :
        /\ worker.connected /\ ~world.input.changing
        /\ c = "taxi" => world.input.manual \/ world.input.button
        /\ c = "door" => world.input.door}

\* cameras_wanted.store, and known_off for the release.
Want ==
    /\ worker.at = "want"
    /\ \E grace \in BOOLEAN :
          LET i == world.input IN
          IF i.changing
          THEN /\ shared' = [shared EXCEPT !.wanted = FALSE]
               /\ worker' = [worker EXCEPT !.at = "ask", !.off = TRUE]
          ELSE /\ shared' = [shared EXCEPT !.wanted =
                       worker.connected /\ i.ready /\ (Requested(grace) \/ i.door)]
               /\ worker' = [worker EXCEPT !.at = "ask",
                       !.off = stall_hold_known_off(worker.connected, Requested(grace))]
    \* past: the cameras the pilot had on.
    /\ past' = [past EXCEPT !.on = CamerasOn]
    /\ UNCHANGED <<dog, poll, gate, halt, world>>

\* requested_ stays set while the hold is seen.
RemainsRequested(asks) == shared.held /\ (worker.requested \/ asks)

\* StallHoldRelease::observe on a load of watchdog_held: one request per hold.
Ask ==
    /\ worker.at = "ask"
    /\ worker' =
         LET asks == shared.held /\ worker.off /\ ~worker.requested IN
         [worker EXCEPT !.at = IF asks THEN "add" ELSE "connect",
                        !.requested = RemainsRequested(asks),
                        !.polls = 0]
    /\ UNCHANGED <<dog, poll, shared, gate, halt, world, past>>

\* watchdog_release_requests.fetch_add.
Add ==
    /\ worker.at = "add"
    /\ shared' = [shared EXCEPT !.asked = TRUE]
    /\ worker' = [worker EXCEPT !.at = "connect"]
    /\ UNCHANGED <<dog, poll, gate, halt, world, past>>

WorkerStep == Connect \/ Want \/ Ask \/ Add

-----------------------------------------------------------------------------
ChangeWorld ==
    /\ \E input \in Worlds \ {world.input} : world' = [world EXCEPT !.input = input]
    /\ UNCHANGED <<dog, poll, shared, gate, halt, worker, past>>

Next == WatchdogStep \/ WorkerStep \/ HaltAdmission \/ ChangeWorld

Spec == Init /\ [][Next]_vars

FairSpec == Spec /\ WF_vars(WatchdogStep) /\ WF_vars(WorkerStep)
-----------------------------------------------------------------------------
(* Properties. *)

Ages(limit) == {Unset} \cup 0..limit

Dog == [pulse : Ages(Stall), sim : Ages(Stall), recover : Ages(Recovery),
        trips : [0..HoldTrips - 1 -> 0..HoldWindow], next : 0..HoldTrips - 1,
        tripped : BOOLEAN, held : BOOLEAN, wanted : BOOLEAN]
Decisions == {"none", "trip", "recover", "hold"}
PollState == [at : {"observe", "release", "publish", "check", "arm", "gate"},
              decision : Decisions, open : BOOLEAN]
Shared == [held : BOOLEAN, asked : BOOLEAN, connected : BOOLEAN, wanted : BOOLEAN]
Gate == [armed : BOOLEAN, submissions : BOOLEAN, halted : BOOLEAN]
Worker == [at : {"connect", "want", "ask", "add"}, connected : BOOLEAN,
           off : BOOLEAN, requested : BOOLEAN, polls : 0..MaxPass]
Past == [quiet : Ages(Stall), counted : SUBSET (0..HoldWindow), wanted : BOOLEAN,
         on : SUBSET Cameras, raced : BOOLEAN]

TypeOK ==
    /\ dog \in Dog
    /\ poll \in PollState
    /\ shared \in Shared
    /\ gate \in Gate
    /\ halt \in {"none", "arm", "gate", "done"}
    /\ worker \in Worker
    /\ world \in [pulseSeen : BOOLEAN, simSeen : BOOLEAN, input : Worlds]
    /\ past \in Past

\* A freeze trips, a quiet presentation with live simulator frames does not: the
\* watchdog trips exactly when nothing at all advanced for a stall's length.  (The
\* freeze guards' document closes the gate for a quiet pulse alone while the bridge is
\* connected; the code lets live simulator frames veto that trip.)
FreezeDetected ==
    poll.at = "release" =>
        /\ poll.decision = "trip" => past.quiet = Stall
        /\ world.pulseSeen /\ past.quiet = Stall => dog.tripped

\* Frames that resume while cameras are requested hold the gate after HoldTrips
\* counted trips inside the window, and re-arm it after fewer.
RepeatedStallsHold ==
    poll.at = "release" =>
        /\ poll.decision = "hold" => past.wanted /\ Cardinality(past.counted) >= HoldTrips
        /\ poll.decision = "recover" => ~past.wanted \/ Cardinality(past.counted) < HoldTrips

\* "Requests made before the hold were already consumed here and never release a
\* later hold": a request the watchdog has not seen was made during this hold.
RequestBelongsToHold == shared.asked => dog.held

\* Between two polls the gate is open exactly while nothing is tripped, on both
\* sides of it (until admission is halted).
GateFollowsWatchdog ==
    poll.at = "observe" /\ halt = "none" =>
        gate.armed = ~dog.tripped /\ gate.submissions = ~dog.tripped

\* "A halted registry stays disarmed for the process; the watchdog's recovery must
\* not re-open it."
HaltedStaysDisarmed ==
    halt = "done" /\ poll.at = "observe" => ~gate.armed /\ ~gate.submissions

\* The same for every halt but one that falls between a recovery's check of
\* admission_halted and its stores: trips, holds, releases and later recoveries
\* all leave the gate closed.
HaltHoldsOutsideRace == ~past.raced => HaltedStaysDisarmed

\* "The hold lasts until the pilot turns them off (a known OFF, never a readiness
\* lapse or a stale button reading)": no release is asked for over a taxi camera that
\* was on when the worker looked.  The door camera, which is wanted as well, is no
\* part of the known OFF: with it alone on, a release is asked for.
HoldLastsWhileRequested == worker.at = "add" => past.on \subseteq {"door"}

\* Nothing the pilot does keeps the cameras away when frames flow again: the gate
\* re-opens or the repeated-stall hold is announced.
RecoversWithFrames ==
    dog.tripped ~> \/ ~dog.tripped \/ dog.held
                   \/ ~world.input.flowing \/ ~world.input.connected

PilotOff ==
    LET i == world.input IN
    ~i.connected \/ (~i.manual /\ ~i.button /\ ~i.door /\ i.fresh)

\* Turning the cameras off ends the hold ("the worker requests a release on a
\* known OFF").
OffEndsHold == dog.held ~> (~dog.held \/ ~PilotOff)
=============================================================================

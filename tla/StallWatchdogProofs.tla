------------------------ MODULE StallWatchdogProofs ------------------------
(***************************************************************************)
(* For every threshold, trip count and behaviour of the pilot and the      *)
(* simulator: a release request belongs to the hold it releases, the gate  *)
(* follows the watchdog between polls, and a halt outside the one race     *)
(* keeps it closed; a trip is a stall of everything, a hold as many counted*)
(* trips as the ring remembers, and no stale reading ends one.             *)
(***************************************************************************)
EXTENDS StallWatchdog, FiniteSetTheorems, TLAPS

USE WatchdogAssumption

(***************************************************************************)
(* FreezeWatchdog.                                                         *)
(***************************************************************************)

\* Ages stay ages: unset, or at most their limit.
LEMMA OlderTypes ==
  ASSUME NEW limit \in Nat, NEW elapsed \in Nat
  PROVE  /\ \A age \in Ages(limit) : Older(age, elapsed, limit) \in Ages(limit)
         /\ \A age \in 0..limit : Older(age, elapsed, limit) \in 0..limit
  BY DEF Older, Ages, Least, Unset

LEMMA AgedTypes ==
  ASSUME NEW d \in Dog, NEW elapsed \in 1..MaxElapsed
  PROVE  /\ Aged(d, elapsed) \in Dog
         /\ Aged(d, elapsed).tripped = d.tripped /\ Aged(d, elapsed).held = d.held
<1> DEFINE trips == [i \in 0..HoldTrips - 1 |-> Older(d.trips[i], elapsed, HoldWindow)]
<1>1. elapsed \in Nat /\ Stall \in Nat /\ Recovery \in Nat /\ HoldWindow \in Nat
  OBVIOUS
<1>2. /\ Older(d.pulse, elapsed, Stall) \in Ages(Stall)
      /\ Older(d.sim, elapsed, Stall) \in Ages(Stall)
      /\ Older(d.recover, elapsed, Recovery) \in Ages(Recovery)
  BY <1>1, OlderTypes DEF Dog
<1>3. trips \in [0..HoldTrips - 1 -> 0..HoldWindow]
  BY <1>1, OlderTypes DEF Dog
<1>4. Aged(d, elapsed) = [d EXCEPT !.pulse = Older(d.pulse, elapsed, Stall),
                                   !.sim = Older(d.sim, elapsed, Stall),
                                   !.recover = Older(d.recover, elapsed, Recovery),
                                   !.trips = trips]
  BY DEF Aged
<1> HIDE DEF trips
<1>5. QED
  BY <1>2, <1>3, <1>4 DEF Dog

\* The sample's timers decide neither a trip nor a hold.
LEMMA TimedTypes ==
  ASSUME NEW d \in Dog, NEW s \in Sample
  PROVE  Timed(d, s) \in Dog /\ Timed(d, s).tripped = d.tripped /\ Timed(d, s).held = d.held
<1>1. 0 \in Ages(Stall) /\ s.wanted \in BOOLEAN
  BY DEF Ages, Sample
<1>2. QED
  BY <1>1 DEF Timed, Dog

LEMMA TrippedTypes ==
  ASSUME NEW d \in Dog
  PROVE  Tripped(d) \in Dog /\ Tripped(d).tripped /\ Tripped(d).held = d.held
<1>1. (d.next + 1) % HoldTrips \in 0..HoldTrips - 1
  BY DEF Dog
<1>2. Unset \in Ages(Recovery) /\ 0 \in 0..HoldWindow
  BY DEF Ages
<1>3. [d.trips EXCEPT ![d.next] = 0] \in [0..HoldTrips - 1 -> 0..HoldWindow]
  BY <1>2 DEF Dog
<1>4. QED
  BY <1>1, <1>2, <1>3 DEF Tripped, Dog

\* What one observe() may decide, and what it makes of tripped_ and held_.
Decides(d, r) ==
  /\ r.dog \in Dog /\ r.decision \in Decisions
  /\ r.decision = "none" => r.dog.tripped = d.tripped /\ r.dog.held = d.held
  /\ r.decision = "trip" => ~d.tripped /\ r.dog.tripped /\ r.dog.held = d.held
  /\ r.decision = "hold" => d.tripped /\ ~d.held /\ r.dog.tripped /\ r.dog.held
  /\ r.decision = "recover" => d.tripped /\ ~d.held /\ ~r.dog.tripped /\ ~r.dog.held

LEMMA DecidedTypes ==
  ASSUME NEW d \in Dog, NEW s \in Sample, NEW progressing \in BOOLEAN
  PROVE  Decides(d, Decided(d, s, progressing))
<1>0. Unset \in Ages(Recovery) /\ 0 \in Ages(Recovery)
  BY DEF Ages
<1>1. CASE ~d.tripped /\ Stalled(d, s)
  BY <1>1, TrippedTypes DEF Decided, Decides, Decisions
<1>2. CASE ~d.tripped /\ ~Stalled(d, s)
  <2>1. Decided(d, s, progressing) = [dog |-> d, decision |-> "none"]
    BY <1>2 DEF Decided
  <2>2. QED
    BY <2>1 DEF Decides, Decisions
<1>3. CASE d.tripped /\ (d.held \/ ~progressing)
  <2>1. Decided(d, s, progressing)
          = [dog |-> [d EXCEPT !.recover = Unset], decision |-> "none"]
    BY <1>3 DEF Decided
  <2> DEFINE idle == [d EXCEPT !.recover = Unset]
  <2>2. idle \in Dog /\ idle.tripped = d.tripped /\ idle.held = d.held
    BY <1>0 DEF Dog
  <2> HIDE DEF idle
  <2>3. Decided(d, s, progressing) = [dog |-> idle, decision |-> "none"]
    BY <2>1 DEF idle
  <2>4. QED
    BY <2>2, <2>3 DEF Decides, Decisions
<1>4. CASE d.tripped /\ ~d.held /\ progressing
  <2> DEFINE waiting == Recovering(d)
             holds == s.wanted /\ recent_trips(d) >= HoldTrips
             held == [d EXCEPT !.recover = Unset, !.held = TRUE]
             free == [d EXCEPT !.recover = Unset, !.tripped = FALSE]
  <2>1. waiting \in Dog /\ waiting.tripped = d.tripped /\ waiting.held = d.held
    BY <1>0 DEF Recovering, Dog
  <2>2. held \in Dog /\ held.tripped = d.tripped /\ held.held
    BY <1>0 DEF Dog
  <2>3. free \in Dog /\ free.held = d.held /\ ~free.tripped
    BY <1>0 DEF Dog
  <2>4. Decided(d, s, progressing)
          = IF waiting.recover < Recovery THEN [dog |-> waiting, decision |-> "none"]
            ELSE IF holds THEN [dog |-> held, decision |-> "hold"]
                 ELSE [dog |-> free, decision |-> "recover"]
    BY <1>4 DEF Decided
  <2> HIDE DEF waiting, holds, held, free
  <2>5. \/ Decided(d, s, progressing) = [dog |-> waiting, decision |-> "none"]
        \/ Decided(d, s, progressing) = [dog |-> held, decision |-> "hold"]
        \/ Decided(d, s, progressing) = [dog |-> free, decision |-> "recover"]
    BY <2>4
  <2>6. Decides(d, [dog |-> waiting, decision |-> "none"])
    BY <2>1 DEF Decides, Decisions
  <2>7. Decides(d, [dog |-> held, decision |-> "hold"])
    BY <1>4, <2>2 DEF Decides, Decisions
  <2>8. Decides(d, [dog |-> free, decision |-> "recover"])
    BY <1>4, <2>3 DEF Decides, Decisions
  <2>9. QED
    BY <2>5, <2>6, <2>7, <2>8
<1>5. QED
  BY <1>1, <1>2, <1>3, <1>4 DEF Dog

LEMMA ObserveTypes ==
  ASSUME NEW d \in Dog, NEW s \in Sample
  PROVE  Decides(d, observe(d, s))
<1>1. CASE ~s.armed
  <2>1. Unset \in Ages(Stall) /\ Unset \in Ages(Recovery)
    BY DEF Ages
  <2>2. QED
    BY <1>1, <2>1 DEF observe, Decides, Decisions, Dog
<1>2. CASE s.armed
  <2> DEFINE t == Timed(d, s)
             progressing == IF s.pulseSeen THEN PulseAdvanced(d, s) ELSE SimAdvanced(d, s)
  <2>1. t \in Dog /\ t.tripped = d.tripped /\ t.held = d.held
    BY TimedTypes
  <2>2. progressing \in BOOLEAN
    BY DEF PulseAdvanced, SimAdvanced, Sample
  <2>3. observe(d, s) = Decided(t, s, progressing)
    BY <1>2 DEF observe
  <2> HIDE DEF t, progressing
  <2>4. Decides(t, Decided(t, s, progressing))
    BY <2>1, <2>2, DecidedTypes
  <2>5. QED
    BY <2>1, <2>3, <2>4 DEF Decides
<1>3. QED
  BY <1>1, <1>2

(***************************************************************************)
(* The hold and its requests.                                              *)
(***************************************************************************)

\* A held watchdog is tripped.
HeldIsTripped == dog.held => dog.tripped

\* watchdog_held lags the watchdog by at most the rest of the poll.
Published ==
  /\ poll.at \notin {"release", "publish"} => shared.held = dog.held
  /\ poll.at = "release" =>
       CASE poll.decision = "none" -> shared.held = dog.held
         [] poll.decision = "hold" -> dog.held /\ ~shared.held
         [] OTHER                  -> ~dog.held /\ ~shared.held

\* A request in flight was made during this hold, and the worker remembers it; it
\* remembers it as long as the hold it released is still published.
Requests ==
  /\ shared.asked \/ worker.at = "add" => dog.held /\ shared.held /\ worker.requested
  /\ shared.held /\ ~dog.held => worker.requested
  /\ ~(shared.asked /\ worker.at = "add")

(***************************************************************************)
(* The gate.                                                               *)
(***************************************************************************)

GateIs(open) == gate.armed = open /\ gate.submissions = open

\* Where the watchdog's thread is, before any halt: the gate is what it decided, or
\* it is about to store that.
Following ==
  halt = "none" =>
    /\ ~gate.halted
    /\ poll.at = "observe" => GateIs(~dog.tripped)
    /\ poll.at \in {"release", "publish"} =>
         CASE poll.decision = "trip"    -> dog.tripped
           [] poll.decision = "recover" -> ~dog.tripped
           [] OTHER                     -> GateIs(~dog.tripped)
    /\ poll.at = "check" => ~dog.tripped
    /\ poll.at \in {"arm", "gate"} => poll.open = ~dog.tripped
    /\ poll.at = "gate" => gate.armed = poll.open

\* After a halt outside the race every store of the watchdog closes.
Halted ==
  halt # "none" /\ ~past.raced =>
    /\ gate.halted
    /\ poll.at \in {"arm", "gate"} => ~poll.open
    /\ halt \in {"gate", "done"} => ~gate.armed
    /\ halt = "done" => ~gate.submissions

\* The inductive invariant.
IInv == TypeOK /\ HeldIsTripped /\ Published /\ Requests /\ Following /\ Halted

(***************************************************************************)
(* Every step keeps the types.                                             *)
(***************************************************************************)

\* What a poll does: a decision on the aged watchdog, and history.
LEMMA PollEffect ==
  ASSUME TypeOK, Poll
  PROVE  /\ poll.at = "observe" /\ poll' = [poll EXCEPT !.at = "release", !.decision = poll'.decision]
         /\ poll' \in PollState /\ dog' \in Dog
         /\ Decides(dog, [dog |-> dog', decision |-> poll'.decision])
         /\ past'.raced = past.raced /\ past' \in Past
         /\ worker' \in Worker /\ worker'.at = worker.at /\ worker'.requested = worker.requested
         /\ world' \in [pulseSeen : BOOLEAN, simSeen : BOOLEAN, input : Worlds]
         /\ UNCHANGED <<shared, gate, halt>>
<1>1. PICK s \in Samples, elapsed \in 1..MaxElapsed :
        LET seen == observe(Aged(dog, elapsed), s)
            aged == {Least(age + elapsed, HoldWindow) : age \in past.counted} \ {HoldWindow}
        IN
        /\ dog' = seen.dog
        /\ poll' = [poll EXCEPT !.at = "release", !.decision = seen.decision]
        /\ world' = [world EXCEPT !.pulseSeen = s.pulseSeen, !.simSeen = s.simSeen]
        /\ past' = [past EXCEPT
              !.quiet = IF ~s.armed THEN Unset
                        ELSE IF s.pulseMoved \/ s.simMoved \/ @ = Unset THEN 0
                        ELSE Least(@ + elapsed, Stall),
              !.counted = IF seen.decision = "trip" /\ seen.dog.wanted
                          THEN aged \cup {0} ELSE aged,
              !.wanted = s.wanted]
  BY DEF Poll
<1> DEFINE old == Aged(dog, elapsed)
           seen == observe(old, s)
           aged == {Least(age + elapsed, HoldWindow) : age \in past.counted} \ {HoldWindow}
<1>2. s \in Sample
  BY DEF Samples
<1>3. old \in Dog /\ old.tripped = dog.tripped /\ old.held = dog.held
  BY AgedTypes DEF TypeOK
<1>4. Decides(old, seen)
  BY <1>2, <1>3, ObserveTypes
<1>5. aged \subseteq 0..HoldWindow
  <2>1. \A age \in past.counted : age \in 0..HoldWindow
    BY DEF TypeOK, Past
  <2>2. QED
    BY <2>1 DEF Least
<1>6. past' \in Past /\ past'.raced = past.raced
  <2> DEFINE quiet == IF ~s.armed THEN Unset
                      ELSE IF s.pulseMoved \/ s.simMoved \/ past.quiet = Unset THEN 0
                      ELSE Least(past.quiet + elapsed, Stall)
             counted == IF seen.decision = "trip" /\ seen.dog.wanted THEN aged \cup {0} ELSE aged
  <2>1. past.quiet \in Ages(Stall)
    BY DEF TypeOK, Past
  <2>2. quiet \in Ages(Stall)
    BY <2>1 DEF Ages, Least, Unset
  <2> HIDE DEF aged, seen
  <2>3. counted \subseteq 0..HoldWindow
    BY <1>5
  <2>4. s.wanted \in BOOLEAN
    BY <1>2 DEF Sample
  <2>5. past' = [past EXCEPT !.quiet = quiet, !.counted = counted, !.wanted = s.wanted]
    BY <1>1 DEF aged, seen
  <2> HIDE DEF quiet, counted
  <2>6. QED
    BY <2>2, <2>3, <2>4, <2>5 DEF TypeOK, Past
<1>7. dog' = seen.dog /\ poll' = [poll EXCEPT !.at = "release", !.decision = seen.decision]
  BY <1>1
<1> HIDE DEF seen, old, aged
<1>8. poll' \in PollState /\ poll'.decision = seen.decision
  BY <1>4, <1>7 DEF TypeOK, PollState, Decides
<1>9. dog' \in Dog /\ Decides(dog, [dog |-> dog', decision |-> poll'.decision])
  BY <1>3, <1>4, <1>7, <1>8 DEF Decides
<1>10. world' \in [pulseSeen : BOOLEAN, simSeen : BOOLEAN, input : Worlds]
  BY <1>1, <1>2 DEF TypeOK, Sample
<1>11. worker' \in Worker /\ worker'.at = worker.at /\ worker'.requested = worker.requested
  BY DEF Poll, TypeOK, Worker
<1>12. poll.at = "observe" /\ UNCHANGED <<shared, gate, halt>>
  BY DEF Poll
<1>13. QED
  BY <1>6, <1>7, <1>8, <1>9, <1>10, <1>11, <1>12

LEMMA ReleaseTypes ==
  ASSUME NEW d \in Dog
  PROVE  Released(d) \in Dog /\ ~Released(d).held /\ ~Released(d).tripped
<1>1. Unset \in Ages(Recovery)
  BY DEF Ages
<1>2. QED
  BY <1>1 DEF Released, Dog

LEMMA StepTyped ==
  ASSUME TypeOK, Next
  PROVE  TypeOK'
<1>1. CASE Poll
  BY <1>1, PollEffect DEF TypeOK
<1>2. CASE CheckRelease
  <2>1. dog' \in Dog
    BY <1>2, ReleaseTypes DEF CheckRelease, TypeOK
  <2>2. poll' \in PollState
    BY <1>2 DEF CheckRelease, ReleaseDecision, TypeOK, PollState, Decisions
  <2>3. shared' \in Shared
    BY <1>2 DEF CheckRelease, StillAsked, TypeOK, Shared
  <2>4. QED
    BY <1>2, <2>1, <2>2, <2>3 DEF CheckRelease, TypeOK
<1>3. CASE Publish
  <2>1. shared' \in Shared
    BY <1>3 DEF Publish, TypeOK, Shared, Dog
  <2>2. poll' \in PollState
    BY <1>3 DEF Publish, TypeOK, PollState
  <2>3. QED
    BY <1>3, <2>1, <2>2 DEF Publish, TypeOK
<1>4. CASE CheckHalted \/ StoreArmed \/ SetSubmissionGate
  <2>1. poll' \in PollState /\ gate' \in Gate
    BY <1>4 DEF CheckHalted, StoreArmed, SetSubmissionGate, RecoveryOpens, TypeOK,
                PollState, Decisions, Gate
  <2>2. QED
    BY <1>4, <2>1 DEF CheckHalted, StoreArmed, SetSubmissionGate, TypeOK
<1>5. CASE HaltAdmission
  <2>1. gate' \in Gate
    BY <1>5 DEF HaltAdmission, TypeOK, Gate
  <2>2. past' \in Past
    BY <1>5 DEF HaltAdmission, TypeOK, Past, PollState
  <2>3. QED
    BY <1>5, <2>1, <2>2 DEF HaltAdmission, TypeOK
<1>6. CASE WorkerStep
  <2>0. world.input \in World
    BY DEF TypeOK
  <2>1. CASE Connect
    <3>1. shared' \in Shared /\ worker' \in Worker
      BY <2>0, <2>1 DEF Connect, TypeOK, Shared, Worker, World
    <3>2. QED
      BY <2>1, <3>1 DEF Connect, TypeOK
  <2>2. CASE Want
    <3>1. shared' \in Shared
      <4>1. PICK wanted \in BOOLEAN : shared' = [shared EXCEPT !.wanted = wanted]
        BY <2>0, <2>2 DEF Want, Requested, TypeOK, Worker, World
      <4>2. QED
        BY <4>1 DEF TypeOK, Shared
    <3>2. worker' \in Worker
      <4>1. PICK off \in BOOLEAN : worker' = [worker EXCEPT !.at = "ask", !.off = off]
        BY <2>0, <2>2 DEF Want, Requested, stall_hold_known_off, TypeOK, Worker, World
      <4>2. QED
        BY <4>1 DEF TypeOK, Worker
    <3>3. past' \in Past
      <4>1. past' = [past EXCEPT !.on = CamerasOn]
        BY <2>2 DEF Want
      <4>2. CamerasOn \in SUBSET Cameras
        BY DEF CamerasOn
      <4>3. QED
        BY <4>1, <4>2 DEF TypeOK, Past
    <3>4. QED
      BY <2>2, <3>1, <3>2, <3>3 DEF Want, TypeOK
  <2>3. CASE Ask
    <3> DEFINE asks == shared.held /\ worker.off /\ ~worker.requested
               at == IF asks THEN "add" ELSE "connect"
               requested == RemainsRequested(asks)
    <3>1. worker' = [worker EXCEPT !.at = at, !.requested = requested, !.polls = 0]
      BY <2>3 DEF Ask
    <3>2. at \in {"add", "connect"}
      OBVIOUS
    <3>3. requested \in BOOLEAN
      <4>1. requested = TRUE \/ requested = FALSE
        BY DEF RemainsRequested, TypeOK, Shared, Worker
      <4>2. QED
        BY <4>1
    <3> HIDE DEF asks, at, requested
    <3>4. worker \in Worker /\ 0 \in 0..MaxPass
      BY DEF TypeOK
    <3>5. PICK a \in {"add", "connect"}, r \in BOOLEAN :
            worker' = [worker EXCEPT !.at = a, !.requested = r, !.polls = 0]
      BY <3>1, <3>2, <3>3
    <3>6. worker' \in Worker
      BY <3>4, <3>5 DEF Worker
    <3>7. QED
      BY <2>3, <3>6 DEF Ask, TypeOK
  <2>4. CASE Add
    BY <2>4 DEF Add, TypeOK, Worker, Shared
  <2>5. QED
    BY <1>6, <2>1, <2>2, <2>3, <2>4 DEF WorkerStep
<1>7. CASE ChangeWorld
  BY <1>7 DEF ChangeWorld, TypeOK
<1>8. QED
  BY <1>1, <1>2, <1>3, <1>4, <1>5, <1>6, <1>7 DEF Next, WatchdogStep

(***************************************************************************)
(* The steps of the watchdog's thread.                                     *)
(***************************************************************************)

\* What a release check does: nothing, or the end of the hold.
LEMMA CheckReleaseEffect ==
  ASSUME IInv, CheckRelease
  PROVE  /\ poll.at = "release" /\ poll'.at = "publish" /\ poll'.open = poll.open
         /\ shared' = [shared EXCEPT !.asked = FALSE]
         /\ \/ /\ dog' = dog /\ poll'.decision = poll.decision /\ ~shared.asked
            \/ /\ ~dog'.held /\ ~dog'.tripped /\ poll'.decision = "recover"
               /\ shared.asked /\ dog.held /\ shared.held
         /\ UNCHANGED <<gate, halt, worker, past>>
<1>1. /\ poll.at = "release" /\ poll'.at = "publish" /\ poll'.open = poll.open
      /\ UNCHANGED <<gate, halt, worker, past>>
  BY DEF CheckRelease, IInv, TypeOK, PollState
<1>2. shared' = [shared EXCEPT !.asked = FALSE]
  BY DEF CheckRelease, StillAsked
<1>3. CASE shared.asked
  <2>1. dog.held /\ shared.held
    BY <1>3 DEF IInv, Requests
  <2>2. poll.decision = "none"
    BY <1>1, <2>1 DEF IInv, Published, TypeOK, PollState, Decisions
  <2>3. dog' = Released(dog)
    BY <1>3, <2>1, <2>2 DEF CheckRelease
  <2>4. ~dog'.held /\ ~dog'.tripped
    BY <2>3, ReleaseTypes DEF IInv, TypeOK
  <2>5. poll'.decision = "recover"
    BY <1>3, <2>1, <2>2 DEF CheckRelease, ReleaseDecision, IInv, TypeOK, PollState
  <2>6. QED
    BY <1>1, <1>2, <1>3, <2>1, <2>4, <2>5
<1>4. CASE ~shared.asked
  <2>1. dog' = dog /\ poll'.decision = poll.decision
    BY <1>4 DEF CheckRelease, IInv, TypeOK, PollState
  <2>2. QED
    BY <1>1, <1>2, <1>4, <2>1
<1>5. QED
  BY <1>3, <1>4

LEMMA PollKeeps ==
  ASSUME IInv, Poll
  PROVE  HeldIsTripped' /\ Published' /\ Requests' /\ Following' /\ Halted'
<1>1. /\ poll.at = "observe" /\ poll'.at = "release" /\ poll'.decision \in Decisions
      /\ Decides(dog, [dog |-> dog', decision |-> poll'.decision])
      /\ past'.raced = past.raced
      /\ worker'.at = worker.at /\ worker'.requested = worker.requested
      /\ UNCHANGED <<shared, gate, halt>>
  BY PollEffect DEF IInv, TypeOK, PollState
<1>2. HeldIsTripped'
  BY <1>1 DEF IInv, HeldIsTripped, Decides, Decisions
<1>3. shared.held = dog.held
  BY <1>1 DEF IInv, Published
<1>4. Published'
  BY <1>1, <1>3 DEF IInv, HeldIsTripped, Published, Decides, Decisions
<1>5. Requests'
  BY <1>1, <1>3 DEF IInv, HeldIsTripped, Requests, Decides, Decisions
<1>6. Following'
  BY <1>1 DEF IInv, Following, GateIs, Decides, Decisions
<1>7. Halted'
  BY <1>1 DEF IInv, Halted
<1>8. QED
  BY <1>2, <1>4, <1>5, <1>6, <1>7

LEMMA CheckReleaseKeeps ==
  ASSUME IInv, CheckRelease
  PROVE  HeldIsTripped' /\ Published' /\ Requests' /\ Following' /\ Halted'
<1>1. shared'.held = shared.held /\ ~shared'.asked
  BY CheckReleaseEffect DEF IInv, TypeOK, Shared
<1>2. HeldIsTripped'
  BY CheckReleaseEffect DEF IInv, HeldIsTripped
<1>3. Published'
  BY CheckReleaseEffect DEF Published
<1>4. Requests'
  BY <1>1, CheckReleaseEffect DEF IInv, Requests
<1>5. Following'
  BY CheckReleaseEffect DEF IInv, Following, GateIs
<1>6. Halted'
  BY CheckReleaseEffect DEF IInv, Halted
<1>7. QED
  BY <1>2, <1>3, <1>4, <1>5, <1>6

LEMMA PublishKeeps ==
  ASSUME IInv, Publish
  PROVE  HeldIsTripped' /\ Published' /\ Requests' /\ Following' /\ Halted'
<1>1. /\ poll.at = "publish" /\ ~poll'.open
      /\ poll'.at = CASE poll.decision = "recover" -> "check"
                      [] poll.decision = "trip"    -> "arm"
                      [] OTHER                     -> "observe"
      /\ shared'.held = dog.held /\ shared'.asked = shared.asked
      /\ UNCHANGED <<dog, gate, halt, worker, past>>
  BY DEF Publish, IInv, TypeOK, PollState, Shared
<1>2. HeldIsTripped' /\ Published'
  BY <1>1 DEF IInv, HeldIsTripped, Published
<1>3. Requests'
  BY <1>1 DEF IInv, Requests
<1>4. Following'
  <2>1. CASE poll.decision = "recover"
    BY <1>1, <2>1 DEF IInv, Following
  <2>2. CASE poll.decision = "trip"
    <3>1. poll'.at = "arm" /\ (halt = "none" => ~gate.halted /\ dog.tripped)
      BY <1>1, <2>2 DEF IInv, Following
    <3>2. dog.tripped \in BOOLEAN /\ poll'.open \in BOOLEAN
      BY DEF Publish, IInv, TypeOK, Dog, PollState
    <3>3. QED
      BY <1>1, <3>1, <3>2 DEF Following
  <2>3. CASE poll.decision \notin {"recover", "trip"}
    <3>1. poll'.at = "observe"
      BY <1>1, <2>3
    <3>2. halt = "none" => ~gate.halted /\ GateIs(~dog.tripped)
      BY <1>1, <2>3 DEF IInv, Following
    <3>3. QED
      BY <1>1, <3>1, <3>2 DEF Following, GateIs
  <2>4. QED
    BY <2>1, <2>2, <2>3
<1>5. Halted'
  BY <1>1 DEF IInv, Halted
<1>6. QED
  BY <1>2, <1>3, <1>4, <1>5

LEMMA StoresKeep ==
  ASSUME IInv, CheckHalted \/ StoreArmed \/ SetSubmissionGate
  PROVE  HeldIsTripped' /\ Published' /\ Requests' /\ Following' /\ Halted'
<1>1. /\ poll.at \notin {"release", "publish"} /\ poll'.at \notin {"release", "publish"}
      /\ UNCHANGED <<dog, shared, halt, worker, past>>
  BY DEF CheckHalted, StoreArmed, SetSubmissionGate, IInv, TypeOK, PollState
<1>2. HeldIsTripped' /\ Published' /\ Requests'
  BY <1>1 DEF IInv, HeldIsTripped, Published, Requests
<1>3. CASE CheckHalted
  <2>1. /\ poll.at = "check" /\ poll'.at = "arm" /\ poll'.open = ~gate.halted
        /\ UNCHANGED gate
    BY <1>3 DEF CheckHalted, RecoveryOpens, IInv, TypeOK, PollState
  <2>2. Following' /\ Halted'
    BY <1>1, <2>1 DEF IInv, Following, Halted
  <2>3. QED
    BY <1>2, <2>2
<1>4. CASE StoreArmed
  <2>1. /\ poll.at = "arm" /\ poll'.at = "gate" /\ poll'.open = poll.open
        /\ gate'.armed = poll.open
        /\ gate'.halted = gate.halted /\ gate'.submissions = gate.submissions
    BY <1>4 DEF StoreArmed, IInv, TypeOK, PollState, Gate
  <2>2. Following' /\ Halted'
    BY <1>1, <2>1 DEF IInv, Following, Halted
  <2>3. QED
    BY <1>2, <2>2
<1>5. CASE SetSubmissionGate
  <2>1. /\ poll.at = "gate" /\ poll'.at = "observe" /\ poll'.open = poll.open
        /\ gate'.submissions = poll.open
        /\ gate'.halted = gate.halted /\ gate'.armed = gate.armed
    BY <1>5 DEF SetSubmissionGate, IInv, TypeOK, PollState, Gate
  <2>2. Following' /\ Halted'
    BY <1>1, <2>1 DEF IInv, Following, GateIs, Halted
  <2>3. QED
    BY <1>2, <2>2
<1>6. QED
  BY <1>3, <1>4, <1>5

(***************************************************************************)
(* The steps of the other threads.                                         *)
(***************************************************************************)

LEMMA HaltKeeps ==
  ASSUME IInv, HaltAdmission
  PROVE  HeldIsTripped' /\ Published' /\ Requests' /\ Following' /\ Halted'
<1>1. UNCHANGED <<dog, poll, shared, worker>>
  BY DEF HaltAdmission
<1>2. HeldIsTripped' /\ Published' /\ Requests'
  BY <1>1 DEF IInv, HeldIsTripped, Published, Requests
<1>3. halt' # "none"
  BY DEF HaltAdmission, IInv, TypeOK
<1>4. Following'
  BY <1>3 DEF Following
<1>5. CASE halt = "none"
  <2>1. /\ halt' = "arm" /\ gate'.halted
        /\ past'.raced = (poll.at \in {"arm", "gate"} /\ poll.open)
    BY <1>5 DEF HaltAdmission, IInv, TypeOK, Gate, Past
  <2>2. QED
    BY <1>1, <1>2, <1>4, <2>1 DEF Halted
<1>6. CASE halt \in {"arm", "gate"}
  <2>1. /\ past'.raced = past.raced /\ gate'.halted = gate.halted
        /\ \/ halt = "arm" /\ halt' = "gate" /\ ~gate'.armed
           \/ halt = "gate" /\ halt' = "done" /\ gate'.armed = gate.armed /\ ~gate'.submissions
    BY <1>6 DEF HaltAdmission, IInv, TypeOK, Gate, Past
  <2>2. QED
    BY <1>1, <1>2, <1>4, <1>6, <2>1 DEF IInv, Halted
<1>7. QED
  BY <1>5, <1>6 DEF HaltAdmission, IInv, TypeOK

LEMMA WorkerKeeps ==
  ASSUME IInv, WorkerStep
  PROVE  HeldIsTripped' /\ Published' /\ Requests' /\ Following' /\ Halted'
<1>1. /\ UNCHANGED <<dog, poll, gate, halt>>
      /\ past'.raced = past.raced /\ shared'.held = shared.held
  BY DEF WorkerStep, Connect, Want, Ask, Add, IInv, TypeOK, Shared, Past
<1>2. HeldIsTripped' /\ Published' /\ Following' /\ Halted'
  BY <1>1 DEF IInv, HeldIsTripped, Published, Following, GateIs, Halted
<1>3. CASE Connect \/ Want
  <2>1. /\ worker.at # "add" /\ worker'.at # "add"
        /\ worker'.requested = worker.requested /\ shared'.asked = shared.asked
    BY <1>3 DEF Connect, Want, IInv, TypeOK, Worker, Shared
  <2>2. QED
    BY <1>1, <1>2, <2>1 DEF IInv, Requests
<1>4. CASE Ask
  <2> DEFINE asks == shared.held /\ worker.off /\ ~worker.requested
  <2>1. UNCHANGED shared /\ worker.at # "add"
    BY <1>4 DEF Ask
  <2>2. worker'.at = IF asks THEN "add" ELSE "connect"
    BY <1>4 DEF Ask, IInv, TypeOK, Worker
  <2>3. worker'.requested <=> shared.held /\ (worker.requested \/ asks)
    BY <1>4 DEF Ask, RemainsRequested, IInv, TypeOK, Worker
  <2>4. CASE asks
    <3>1. dog.held /\ ~shared.asked
      BY <2>4 DEF IInv, Requests
    <3>2. QED
      BY <1>1, <1>2, <2>1, <2>2, <2>3, <2>4, <3>1 DEF Requests
  <2>5. CASE ~asks
    <3>1. worker'.at = "connect"
      BY <2>2, <2>5
    <3>2. QED
      BY <1>1, <1>2, <2>1, <2>3, <3>1 DEF IInv, Requests
  <2>6. QED
    BY <2>4, <2>5
<1>5. CASE Add
  <2>1. worker.at = "add" /\ worker'.at = "connect" /\ worker'.requested = worker.requested
    BY <1>5 DEF Add, IInv, TypeOK, Worker
  <2>2. QED
    BY <1>1, <1>2, <2>1 DEF IInv, Requests
<1>6. QED
  BY <1>3, <1>4, <1>5 DEF WorkerStep

(***************************************************************************)
(* The inductive invariant.                                                *)
(***************************************************************************)

LEMMA InitInv ==
  ASSUME Init
  PROVE  IInv
<1>1. Unset \in Ages(Stall) /\ Unset \in Ages(Recovery) /\ 0 \in Ages(Stall)
  BY DEF Ages
<1>2. dog \in Dog
  BY <1>1 DEF Init, Dog
<1>3. past \in Past
  <2>1. past = [quiet |-> Unset, counted |-> {}, wanted |-> FALSE, on |-> {},
                raced |-> FALSE]
    BY DEF Init
  <2>2. {} \in SUBSET (0..HoldWindow)
    OBVIOUS
  <2>3. QED
    BY <1>1, <2>1, <2>2 DEF Past
<1>4. TypeOK
  <2>1. world \in [pulseSeen : BOOLEAN, simSeen : BOOLEAN, input : Worlds]
    BY DEF Init
  <2>2. poll \in PollState /\ shared \in Shared /\ gate \in Gate /\ worker \in Worker
    BY DEF Init, PollState, Decisions, Shared, Gate, Worker
  <2>3. halt = "none"
    BY DEF Init
  <2>4. QED
    BY <1>2, <1>3, <2>1, <2>2, <2>3 DEF TypeOK
<1>5. HeldIsTripped /\ Published /\ Requests /\ Following /\ Halted
  BY DEF Init, HeldIsTripped, Published, Requests, Following, GateIs, Halted
<1>6. QED
  BY <1>4, <1>5 DEF IInv

LEMMA StepInv ==
  ASSUME IInv, [Next]_vars
  PROVE  IInv'
<1>1. CASE Next
  <2>1. TypeOK'
    BY <1>1, StepTyped DEF IInv
  <2>2. CASE ChangeWorld
    <3>1. UNCHANGED <<dog, poll, shared, gate, halt, worker, past>>
      BY <2>2 DEF ChangeWorld
    <3>2. HeldIsTripped' /\ Published' /\ Requests' /\ Following' /\ Halted'
      BY <3>1 DEF IInv, HeldIsTripped, Published, Requests, Following, GateIs, Halted
    <3>3. QED
      BY <2>1, <3>2 DEF IInv
  <2>3. \/ HeldIsTripped' /\ Published' /\ Requests' /\ Following' /\ Halted'
        \/ ChangeWorld
    BY <1>1, PollKeeps, CheckReleaseKeeps, PublishKeeps, StoresKeep, HaltKeeps, WorkerKeeps
       DEF Next, WatchdogStep
  <2>4. QED
    BY <2>1, <2>2, <2>3 DEF IInv
<1>2. CASE UNCHANGED vars
  BY <1>2 DEF vars, IInv, TypeOK, HeldIsTripped, Published, Requests, Following, GateIs, Halted
<1>3. QED
  BY <1>1, <1>2

LEMMA AlwaysInv == Spec => []IInv
<1>1. Init => IInv
  BY InitInv
<1>2. IInv /\ [Next]_vars => IInv'
  BY StepInv
<1>3. QED
  BY <1>1, <1>2, PTL DEF Spec

(***************************************************************************)
(* The theorems.                                                           *)
(***************************************************************************)

\* Every age stays within its threshold and every thread at one of its points, for
\* every threshold of the watchdog.
THEOREM TypeCorrect == Spec => []TypeOK
<1>1. IInv => TypeOK
  BY DEF IInv
<1>2. QED
  BY <1>1, AlwaysInv, PTL

\* A release request the watchdog has not read was made for the hold it is in, so
\* none releases a later hold (StallHoldRelease and the per-poll read of requests).
THEOREM RequestOfThisHold == Spec => []RequestBelongsToHold
<1>1. IInv => RequestBelongsToHold
  BY DEF IInv, Requests, RequestBelongsToHold
<1>2. QED
  BY <1>1, AlwaysInv, PTL

\* Between two polls both sides of the gate follow the watchdog's tripped_, until a
\* render thread halts admission.
THEOREM GateInStep == Spec => []GateFollowsWatchdog
<1>1. IInv => GateFollowsWatchdog
  BY DEF IInv, Following, GateIs, GateFollowsWatchdog
<1>2. QED
  BY <1>1, AlwaysInv, PTL

\* A halt that does not fall between a recovery's check of admission_halted and its
\* stores keeps the gate closed for the process.
THEOREM HaltHolds == Spec => []HaltHoldsOutsideRace
<1>1. IInv => HaltHoldsOutsideRace
  BY DEF IInv, Halted, HaltHoldsOutsideRace, HaltedStaysDisarmed
<1>2. QED
  BY <1>1, AlwaysInv, PTL

(***************************************************************************)
(* Stalls: what the two timers say of the time since anything advanced.    *)
(***************************************************************************)

\* The timers against past.quiet.  Neither is ahead of it, once its counter was
\* seen, and one of them is exactly it: a timer restarts alone only for a counter
\* that moved, and the two start together when the worker connects.
Clock(pulse, sim, quiet, pulseSeen, simSeen) ==
  IF quiet = Unset THEN pulse = Unset /\ sim = Unset
  ELSE /\ pulse # Unset /\ sim # Unset
       /\ quiet <= sim /\ (pulseSeen => quiet <= pulse)
       /\ quiet = sim \/ (pulseSeen /\ quiet = pulse)
       /\ pulseSeen /\ ~simSeen => quiet = pulse

Clocked == Clock(dog.pulse, dog.sim, past.quiet, world.pulseSeen, world.simSeen)

\* The two timers and past.quiet after a poll that found the worker connected.
LEMMA ClockStep ==
  ASSUME NEW pulse \in Ages(Stall), NEW sim \in Ages(Stall), NEW quiet \in Ages(Stall),
         NEW pulseSeen \in BOOLEAN, NEW simSeen \in BOOLEAN,
         NEW s \in Sample, NEW elapsed \in 1..MaxElapsed,
         Clock(pulse, sim, quiet, pulseSeen, simSeen),
         s.pulseMoved => s.pulseSeen, s.simMoved => s.simSeen,
         s.pulseSeen => pulseSeen \/ s.pulseMoved, s.simSeen => simSeen \/ s.simMoved,
         pulseSeen => s.pulseSeen, simSeen => s.simSeen,
         NEW pulse2, NEW sim2, NEW quiet2,
         pulse2 = (IF (s.pulseSeen /\ (pulse = Unset \/ s.pulseMoved)) \/ ~s.pulseSeen THEN 0
                   ELSE Older(pulse, elapsed, Stall)),
         sim2 = (IF sim = Unset \/ s.simMoved THEN 0 ELSE Older(sim, elapsed, Stall)),
         quiet2 = (IF s.pulseMoved \/ s.simMoved \/ quiet = Unset THEN 0
                   ELSE Least(quiet + elapsed, Stall))
  PROVE  /\ Clock(pulse2, sim2, quiet2, s.pulseSeen, s.simSeen)
         /\ pulse2 \in 0..Stall /\ sim2 \in 0..Stall /\ quiet2 \in 0..Stall
         /\ quiet2 = Stall /\ s.pulseSeen => pulse # Unset /\ ~s.pulseMoved
<1>1. s.pulseSeen \in BOOLEAN /\ s.simSeen \in BOOLEAN
      /\ s.pulseMoved \in BOOLEAN /\ s.simMoved \in BOOLEAN
  BY DEF Sample
<1>2. elapsed \in Nat \ {0} /\ Stall \in Nat \ {0}
  OBVIOUS
<1>3. pulse2 \in 0..Stall /\ sim2 \in 0..Stall /\ quiet2 \in 0..Stall
  BY <1>1, <1>2 DEF Clock, Older, Least, Ages, Unset
<1>4. Clock(pulse2, sim2, quiet2, s.pulseSeen, s.simSeen)
  <2>1. CASE quiet = Unset
    <3>1. pulse2 = 0 /\ sim2 = 0 /\ quiet2 = 0
      BY <1>1, <2>1 DEF Clock
    <3>2. QED
      BY <3>1 DEF Clock, Unset
  <2>2. CASE quiet # Unset
    <3>1. /\ pulse \in 0..Stall /\ sim \in 0..Stall /\ quiet \in 0..Stall
          /\ quiet <= sim /\ (pulseSeen => quiet <= pulse)
          /\ quiet = sim \/ (pulseSeen /\ quiet = pulse)
          /\ pulseSeen /\ ~simSeen => quiet = pulse
      BY <2>2 DEF Clock, Ages
    <3>2. /\ pulse2 = IF s.pulseMoved \/ ~s.pulseSeen THEN 0 ELSE Least(pulse + elapsed, Stall)
          /\ sim2 = IF s.simMoved THEN 0 ELSE Least(sim + elapsed, Stall)
          /\ quiet2 = IF s.pulseMoved \/ s.simMoved THEN 0 ELSE Least(quiet + elapsed, Stall)
      BY <1>1, <2>2, <3>1 DEF Older, Unset
    <3>3. \/ quiet2 = 0
          \/ quiet2 = Least(quiet + elapsed, Stall) /\ ~s.pulseMoved /\ ~s.simMoved
      BY <3>2
    <3>4. quiet2 <= sim2 /\ (s.pulseSeen => quiet2 <= pulse2)
      BY <1>1, <1>2, <1>3, <3>1, <3>2 DEF Least
    <3>5. quiet2 = sim2 \/ (s.pulseSeen /\ quiet2 = pulse2)
      BY <1>1, <1>2, <3>1, <3>2 DEF Least
    <3>6. s.pulseSeen /\ ~s.simSeen => quiet2 = pulse2
      BY <1>1, <1>2, <3>1, <3>2 DEF Least
    <3>7. QED
      BY <1>3, <3>4, <3>5, <3>6 DEF Clock, Unset
  <2>3. QED
    BY <2>1, <2>2
<1>5. quiet2 = Stall /\ s.pulseSeen => pulse # Unset /\ ~s.pulseMoved
  BY <1>1, <1>2 DEF Clock
<1>6. QED
  BY <1>3, <1>4, <1>5

\* What the rest of observe() makes of the timers, the ring of trips and a stall.
LEMMA DecidedEffect ==
  ASSUME NEW d \in Dog, NEW s \in Sample, NEW progressing \in BOOLEAN,
         NEW r, r = Decided(d, s, progressing)
  PROVE  /\ r.dog.pulse = d.pulse /\ r.dog.sim = d.sim /\ r.dog.wanted = d.wanted
         /\ r.decision = "trip" => Stalled(d, s) /\ r.dog = Tripped(d)
         /\ r.decision # "trip" => r.dog.trips = d.trips /\ r.dog.next = d.next
         /\ Stalled(d, s) /\ ~progressing => r.dog.tripped
         /\ r.decision = "hold" => s.wanted /\ recent_trips(d) >= HoldTrips
         /\ r.decision = "recover" => ~(s.wanted /\ recent_trips(d) >= HoldTrips)
<1>1. CASE ~d.tripped /\ Stalled(d, s)
  <2>1. r = [dog |-> Tripped(d), decision |-> "trip"]
    BY <1>1 DEF Decided
  <2>2. /\ Tripped(d).pulse = d.pulse /\ Tripped(d).sim = d.sim
        /\ Tripped(d).wanted = d.wanted /\ Tripped(d).tripped
    BY DEF Tripped, Dog
  <2>3. QED
    BY <1>1, <2>1, <2>2
<1>2. CASE ~d.tripped /\ ~Stalled(d, s)
  BY <1>2 DEF Decided
<1>3. CASE d.tripped /\ (d.held \/ ~progressing)
  BY <1>3 DEF Decided, Dog
<1>4. CASE d.tripped /\ ~d.held /\ progressing
  <2> DEFINE waiting == Recovering(d)
             holds == s.wanted /\ recent_trips(d) >= HoldTrips
             held == [d EXCEPT !.recover = Unset, !.held = TRUE]
             free == [d EXCEPT !.recover = Unset, !.tripped = FALSE]
             Same(x) == /\ x.pulse = d.pulse /\ x.sim = d.sim /\ x.wanted = d.wanted
                        /\ x.trips = d.trips /\ x.next = d.next
  <2>1. Same(waiting) /\ Same(held) /\ Same(free)
    BY DEF Recovering, Dog
  <2>2. r = IF waiting.recover < Recovery THEN [dog |-> waiting, decision |-> "none"]
            ELSE IF holds THEN [dog |-> held, decision |-> "hold"]
                 ELSE [dog |-> free, decision |-> "recover"]
    BY <1>4 DEF Decided
  <2>3. /\ r.dog = waiting \/ r.dog = held \/ r.dog = free
        /\ r.decision \in {"none", "hold", "recover"}
        /\ r.decision = "hold" => holds
        /\ r.decision = "recover" => ~holds
    BY <2>2
  <2>4. Same(r.dog)
    BY <2>1, <2>3
  <2>5. QED
    BY <1>4, <2>3, <2>4
<1>5. QED
  BY <1>1, <1>2, <1>3, <1>4 DEF Dog

\* A poll by its parts: the sample, the time that passed, and what came of them.
Polled(s, elapsed, t, r) ==
  /\ s \in Samples /\ elapsed \in 1..MaxElapsed
  /\ t = Timed(Aged(dog, elapsed), s)
  /\ r = observe(Aged(dog, elapsed), s)
  /\ dog' = r.dog /\ poll'.at = "release" /\ poll'.decision = r.decision
  /\ world'.pulseSeen = s.pulseSeen /\ world'.simSeen = s.simSeen
  /\ past'.quiet = (IF ~s.armed THEN Unset
                    ELSE IF s.pulseMoved \/ s.simMoved \/ past.quiet = Unset THEN 0
                    ELSE Least(past.quiet + elapsed, Stall))
  /\ past'.counted = (IF r.decision = "trip" /\ r.dog.wanted
                      THEN ({Least(age + elapsed, HoldWindow) : age \in past.counted}
                              \ {HoldWindow}) \cup {0}
                      ELSE {Least(age + elapsed, HoldWindow) : age \in past.counted}
                              \ {HoldWindow})
  /\ past'.wanted = s.wanted

LEMMA PollParts ==
  ASSUME TypeOK, Poll
  PROVE  \E s \in Sample, elapsed \in 1..MaxElapsed : \E t, r : Polled(s, elapsed, t, r)
<1>1. PICK s \in Samples, elapsed \in 1..MaxElapsed :
        LET seen == observe(Aged(dog, elapsed), s)
            aged == {Least(age + elapsed, HoldWindow) : age \in past.counted} \ {HoldWindow}
        IN
        /\ dog' = seen.dog
        /\ poll' = [poll EXCEPT !.at = "release", !.decision = seen.decision]
        /\ world' = [world EXCEPT !.pulseSeen = s.pulseSeen, !.simSeen = s.simSeen]
        /\ past' = [past EXCEPT
              !.quiet = IF ~s.armed THEN Unset
                        ELSE IF s.pulseMoved \/ s.simMoved \/ @ = Unset THEN 0
                        ELSE Least(@ + elapsed, Stall),
              !.counted = IF seen.decision = "trip" /\ seen.dog.wanted
                          THEN aged \cup {0} ELSE aged,
              !.wanted = s.wanted]
  BY DEF Poll
<1> DEFINE t == Timed(Aged(dog, elapsed), s)
           r == observe(Aged(dog, elapsed), s)
           aged == {Least(age + elapsed, HoldWindow) : age \in past.counted} \ {HoldWindow}
           quiet == IF ~s.armed THEN Unset
                    ELSE IF s.pulseMoved \/ s.simMoved \/ past.quiet = Unset THEN 0
                    ELSE Least(past.quiet + elapsed, Stall)
           counted == IF r.decision = "trip" /\ r.dog.wanted THEN aged \cup {0} ELSE aged
<1>2. /\ dog' = r.dog
      /\ poll' = [poll EXCEPT !.at = "release", !.decision = r.decision]
      /\ world' = [world EXCEPT !.pulseSeen = s.pulseSeen, !.simSeen = s.simSeen]
      /\ past' = [past EXCEPT !.quiet = quiet, !.counted = counted, !.wanted = s.wanted]
  BY <1>1
<1> HIDE DEF r, quiet, counted
<1>3. poll'.at = "release" /\ poll'.decision = r.decision
  BY <1>2 DEF TypeOK, PollState
<1>4. world'.pulseSeen = s.pulseSeen /\ world'.simSeen = s.simSeen
  BY <1>2 DEF TypeOK
<1>5. past'.quiet = quiet /\ past'.counted = counted /\ past'.wanted = s.wanted
  BY <1>2 DEF TypeOK, Past
<1>6. Polled(s, elapsed, t, r)
  BY <1>2, <1>3, <1>4, <1>5 DEF Polled, r, quiet, counted
<1>7. s \in Sample
  BY DEF Samples
<1>8. QED
  BY <1>6, <1>7

\* The rest of a poll, once the worker is connected.
LEMMA ArmedPoll ==
  ASSUME TypeOK, NEW s \in Sample, NEW elapsed \in 1..MaxElapsed, NEW t, NEW r,
         Polled(s, elapsed, t, r), s.armed
  PROVE  /\ t \in Dog /\ Aged(dog, elapsed) \in Dog
         /\ r = Decided(t, s, IF s.pulseSeen THEN PulseAdvanced(Aged(dog, elapsed), s)
                                             ELSE SimAdvanced(Aged(dog, elapsed), s))
         /\ (IF s.pulseSeen THEN PulseAdvanced(Aged(dog, elapsed), s)
                            ELSE SimAdvanced(Aged(dog, elapsed), s)) \in BOOLEAN
<1>1. Aged(dog, elapsed) \in Dog
  BY AgedTypes DEF TypeOK
<1>2. t \in Dog
  BY <1>1, TimedTypes DEF Polled
<1>3. QED
  BY <1>1, <1>2 DEF Polled, observe, PulseAdvanced, SimAdvanced, Sample

\* A poll keeps the timers in step with past.quiet and trips on a stall only.
LEMMA PollKeepsClock ==
  ASSUME TypeOK, Clocked, Poll
  PROVE  Clocked' /\ FreezeDetected'
<1>0. PICK s \in Sample, elapsed \in 1..MaxElapsed : \E t, r : Polled(s, elapsed, t, r)
  BY PollParts
<1>1. PICK t, r : Polled(s, elapsed, t, r)
  BY <1>0
<1>2. CASE ~s.armed
  <2>1. r.dog = [Aged(dog, elapsed) EXCEPT !.pulse = Unset, !.sim = Unset, !.recover = Unset]
        /\ r.decision = "none"
    BY <1>1, <1>2 DEF Polled, observe
  <2>2. Aged(dog, elapsed) \in Dog
    BY AgedTypes DEF TypeOK
  <2>3. dog'.pulse = Unset /\ dog'.sim = Unset /\ past'.quiet = Unset /\ poll'.decision = "none"
    BY <1>1, <1>2, <2>1, <2>2 DEF Polled, Dog
  <2>4. Clocked'
    BY <2>3 DEF Clocked, Clock
  <2>5. QED
    BY <2>3, <2>4 DEF FreezeDetected, Unset
<1>3. CASE s.armed
  <2> DEFINE old == Aged(dog, elapsed)
             progressing == IF s.pulseSeen THEN PulseAdvanced(old, s) ELSE SimAdvanced(old, s)
  <2>1. t \in Dog /\ old \in Dog /\ progressing \in BOOLEAN /\ r = Decided(t, s, progressing)
    BY <1>1, <1>3, ArmedPoll
  <2>2. old.pulse = Older(dog.pulse, elapsed, Stall) /\ old.sim = Older(dog.sim, elapsed, Stall)
    BY DEF Aged, TypeOK, Dog
  <2>3. /\ dog.pulse \in Ages(Stall) /\ dog.sim \in Ages(Stall) /\ past.quiet \in Ages(Stall)
        /\ world.pulseSeen \in BOOLEAN /\ world.simSeen \in BOOLEAN
    BY DEF TypeOK, Dog, Past
  <2>4. /\ old.pulse = Unset <=> dog.pulse = Unset
        /\ old.sim = Unset <=> dog.sim = Unset
    BY <2>2, <2>3 DEF Older, Least, Ages, Unset
  <2>5. /\ t.pulse = IF PulseAdvanced(old, s) \/ ~s.pulseSeen THEN 0 ELSE old.pulse
        /\ t.sim = IF SimAdvanced(old, s) THEN 0 ELSE old.sim
    <3>1. t = Timed(old, s)
      BY <1>1 DEF Polled
    <3> HIDE DEF old
    <3>2. QED
      BY <2>1, <3>1 DEF Timed, Dog
  <2>6. /\ dog'.pulse = t.pulse /\ dog'.sim = t.sim
        /\ poll'.decision = "trip" => Stalled(t, s)
        /\ Stalled(t, s) /\ ~progressing => dog'.tripped
    <3> HIDE DEF progressing
    <3>1. QED
      BY <1>1, <2>1, DecidedEffect DEF Polled
  <2>7. /\ s.pulseMoved => s.pulseSeen
        /\ s.simMoved => s.simSeen
        /\ s.pulseSeen => world.pulseSeen \/ s.pulseMoved
        /\ s.simSeen => world.simSeen \/ s.simMoved
        /\ world.pulseSeen => s.pulseSeen
        /\ world.simSeen => s.simSeen
    BY <1>1 DEF Polled, Samples
  <2>8. /\ t.pulse = (IF (s.pulseSeen /\ (dog.pulse = Unset \/ s.pulseMoved)) \/ ~s.pulseSeen THEN 0
                      ELSE Older(dog.pulse, elapsed, Stall))
        /\ t.sim = (IF dog.sim = Unset \/ s.simMoved THEN 0 ELSE Older(dog.sim, elapsed, Stall))
    <3> HIDE DEF old
    <3>1. QED
      BY <2>2, <2>4, <2>5 DEF PulseAdvanced, SimAdvanced
  <2>9. past'.quiet = (IF s.pulseMoved \/ s.simMoved \/ past.quiet = Unset THEN 0
                       ELSE Least(past.quiet + elapsed, Stall))
    BY <1>1, <1>3 DEF Polled
  <2>10. /\ Clock(t.pulse, t.sim, past'.quiet, s.pulseSeen, s.simSeen)
         /\ t.pulse \in 0..Stall /\ t.sim \in 0..Stall /\ past'.quiet \in 0..Stall
         /\ past'.quiet = Stall /\ s.pulseSeen => dog.pulse # Unset /\ ~s.pulseMoved
    <3>1. Clock(dog.pulse, dog.sim, past.quiet, world.pulseSeen, world.simSeen)
      BY DEF Clocked
    <3> HIDE DEF old, progressing
    <3>2. QED
      BY <2>3, <2>7, <2>8, <2>9, <3>1, ClockStep, SMTT(20)
  <2>11. world'.pulseSeen = s.pulseSeen /\ world'.simSeen = s.simSeen
    BY <1>1 DEF Polled
  <2>12. Clocked'
    BY <2>6, <2>10, <2>11 DEF Clocked
  <2>13. Stalled(t, s) => past'.quiet = Stall
    BY <2>10 DEF Stalled, Clock, Unset
  <2>14. world'.pulseSeen /\ past'.quiet = Stall => dog'.tripped
    <3>1. SUFFICES ASSUME s.pulseSeen, past'.quiet = Stall PROVE dog'.tripped
      BY <2>11
    <3>2. Stalled(t, s)
      BY <2>10, <3>1 DEF Stalled, Clock, Unset
    <3>3. ~progressing
      BY <2>4, <2>10, <3>1 DEF PulseAdvanced
    <3>4. QED
      BY <2>6, <3>2, <3>3
  <2>15. QED
    BY <2>6, <2>12, <2>13, <2>14 DEF FreezeDetected
<1>4. QED
  BY <1>2, <1>3

(***************************************************************************)
(* Repeated stalls: the ring of trips and the trips that count.            *)
(***************************************************************************)

Entries == 0..HoldTrips - 1

\* Entry i was written before entry j: the ring goes round from "next".
Before(d, i, j) == IF i < d.next THEN i < j /\ j < d.next ELSE j < d.next \/ i < j

\* The ring against past.counted.  Its entries are in the order they were written,
\* those inside the window are trips that count, and a trip that counts was
\* overwritten only by newer ones: the whole ring is then newer than it.
Ring(d, counted) ==
  /\ \A i, j \in Entries : Before(d, i, j) => d.trips[j] < d.trips[i] \/ d.trips[i] = HoldWindow
  /\ \A i \in Entries : d.trips[i] < HoldWindow => d.trips[i] \in counted
  /\ \A age \in counted :
        /\ age \in 0..HoldWindow - 1
        /\ (\E i \in Entries : d.trips[i] = age) \/ (\A i \in Entries : d.trips[i] < age)

AgedTrips(counted, elapsed) ==
  {Least(age + elapsed, HoldWindow) : age \in counted} \ {HoldWindow}

\* Time leaves the order as it is and takes what leaves the window from both.
LEMMA AgedRing ==
  ASSUME NEW d \in Dog, NEW counted \in SUBSET (0..HoldWindow), NEW elapsed \in 1..MaxElapsed,
         Ring(d, counted)
  PROVE  /\ Ring(Aged(d, elapsed), AgedTrips(counted, elapsed))
         /\ \A i \in Entries : Aged(d, elapsed).trips[i] \in 1..HoldWindow
         /\ AgedTrips(counted, elapsed) \subseteq 1..HoldWindow - 1
<1> DEFINE a == Aged(d, elapsed)
           aged == AgedTrips(counted, elapsed)
<1>1. elapsed \in Nat \ {0} /\ HoldWindow \in Nat \ {0}
  OBVIOUS
<1>2. \A i \in Entries : d.trips[i] \in 0..HoldWindow
  BY DEF Dog, Entries
<1>3. a.next = d.next /\ \A i \in Entries : a.trips[i] = Older(d.trips[i], elapsed, HoldWindow)
  BY DEF Aged, Dog, Entries
<1>4. \A i \in Entries : a.trips[i] = Least(d.trips[i] + elapsed, HoldWindow)
  BY <1>2, <1>3 DEF Older, Unset
<1> HIDE DEF a
<1>5. \A i \in Entries : a.trips[i] \in 1..HoldWindow
  BY <1>1, <1>2, <1>4 DEF Least
<1>6. \A age \in aged : \E old \in counted : age = old + elapsed /\ age < HoldWindow
  BY <1>1 DEF AgedTrips, Least
<1>7. \A old \in counted : old + elapsed < HoldWindow => old + elapsed \in aged
  BY <1>1 DEF AgedTrips, Least
<1> HIDE DEF aged
<1>8. aged \subseteq 1..HoldWindow - 1
  BY <1>1, <1>6
<1>9. \A i, j \in Entries : Before(a, i, j) => a.trips[j] < a.trips[i] \/ a.trips[i] = HoldWindow
  <2> SUFFICES ASSUME NEW i \in Entries, NEW j \in Entries, Before(a, i, j)
               PROVE  a.trips[j] < a.trips[i] \/ a.trips[i] = HoldWindow
    OBVIOUS
  <2>1. d.trips[j] < d.trips[i] \/ d.trips[i] = HoldWindow
    BY <1>3 DEF Ring, Before
  <2>2. QED
    BY <1>1, <1>2, <1>4, <2>1 DEF Least
<1>10. \A i \in Entries : a.trips[i] < HoldWindow => a.trips[i] \in aged
  <2> SUFFICES ASSUME NEW i \in Entries, a.trips[i] < HoldWindow
               PROVE  a.trips[i] \in aged
    OBVIOUS
  <2>1. a.trips[i] = d.trips[i] + elapsed /\ d.trips[i] < HoldWindow
    BY <1>1, <1>2, <1>4 DEF Least
  <2>2. d.trips[i] \in counted
    BY <2>1 DEF Ring
  <2>3. QED
    BY <1>7, <2>1, <2>2
<1>11. ASSUME NEW age \in aged
       PROVE  (\E i \in Entries : a.trips[i] = age) \/ (\A i \in Entries : a.trips[i] < age)
  <2>1. PICK old \in counted : age = old + elapsed /\ age < HoldWindow
    BY <1>6
  <2>2. old \in 0..HoldWindow
    OBVIOUS
  <2>3. CASE \E i \in Entries : d.trips[i] = old
    <3>1. PICK i \in Entries : d.trips[i] = old
      BY <2>3
    <3>2. a.trips[i] = age
      BY <1>1, <1>4, <2>1, <2>2, <3>1 DEF Least
    <3>3. QED
      BY <3>2
  <2>4. CASE \A i \in Entries : d.trips[i] < old
    <3>1. ASSUME NEW i \in Entries PROVE a.trips[i] < age
      <4>1. d.trips[i] < old /\ d.trips[i] \in 0..HoldWindow
            /\ a.trips[i] = Least(d.trips[i] + elapsed, HoldWindow)
        BY <1>2, <1>4, <2>4
      <4>2. QED
        BY <1>1, <2>1, <2>2, <4>1 DEF Least
    <3>2. QED
      BY <3>1
  <2>5. QED
    BY <2>3, <2>4 DEF Ring
<1>12. Ring(a, aged)
  <2>1. \A age \in aged : age \in 0..HoldWindow - 1
    BY <1>8
  <2>2. QED
    BY <1>9, <1>10, <1>11, <2>1 DEF Ring
<1>13. QED
  BY <1>5, <1>8, <1>12 DEF a, aged

\* A counted trip overwrites the oldest entry.
LEMMA TrippedRing ==
  ASSUME NEW d \in Dog, NEW counted \in SUBSET (1..HoldWindow - 1), Ring(d, counted),
         \A i \in Entries : d.trips[i] \in 1..HoldWindow
  PROVE  Ring(Tripped(d), IF d.wanted THEN counted \cup {0} ELSE counted)
<1> DEFINE p == Tripped(d)
<1>1. HoldWindow \in Nat \ {0} /\ HoldTrips \in Nat \ {0} /\ d.next \in Entries
  BY DEF Dog, Entries
<1>2. CASE ~d.wanted
  <2>1. p.trips = d.trips /\ p.next = d.next
    BY <1>2 DEF Tripped, Dog
  <2>2. QED
    BY <1>2, <2>1 DEF Ring, Before
<1>3. CASE d.wanted
  <2> DEFINE all == counted \cup {0}
  <2>1. /\ p.trips = [d.trips EXCEPT ![d.next] = 0]
        /\ p.next = (d.next + 1) % HoldTrips
    BY <1>3 DEF Tripped, Dog
  <2>2. p.next = IF d.next = HoldTrips - 1 THEN 0 ELSE d.next + 1
    BY <1>1, <2>1 DEF Entries
  <2>3. \A i \in Entries : p.trips[i] = IF i = d.next THEN 0 ELSE d.trips[i]
    BY <1>1, <2>1 DEF Dog, Entries
  <2> HIDE DEF p
  <2>4. ASSUME NEW i \in Entries, NEW j \in Entries, Before(p, i, j)
        PROVE  p.trips[j] < p.trips[i] \/ p.trips[i] = HoldWindow
    <3>1. i # d.next
      BY <1>1, <2>2, <2>4 DEF Before, Entries
    <3>2. p.trips[i] = d.trips[i] /\ d.trips[i] \in 1..HoldWindow
      BY <2>3, <3>1
    <3>3. CASE j = d.next
      BY <2>3, <3>2, <3>3
    <3>4. CASE j # d.next
      <4>1. Before(d, i, j)
        BY <1>1, <2>2, <2>4, <3>1, <3>4 DEF Before, Entries
      <4>2. d.trips[j] < d.trips[i] \/ d.trips[i] = HoldWindow
        BY <4>1 DEF Ring
      <4>3. QED
        BY <2>3, <3>2, <3>4, <4>2
    <3>5. QED
      BY <3>3, <3>4
  <2>5. \A i \in Entries : p.trips[i] < HoldWindow => p.trips[i] \in all
    BY <2>3 DEF Ring
  <2>6. ASSUME NEW age \in all
        PROVE  (\E i \in Entries : p.trips[i] = age) \/ (\A i \in Entries : p.trips[i] < age)
    <3>1. CASE age = 0
      BY <1>1, <2>3, <3>1
    <3>2. CASE age # 0
      <4>1. age \in counted /\ age \in 1..HoldWindow - 1
        BY <3>2
      <4>2. CASE \E i \in Entries : i # d.next /\ d.trips[i] = age
        BY <2>3, <4>2
      <4>3. CASE \A i \in Entries : d.trips[i] < age
        BY <2>3, <4>1, <4>3
      <4>4. CASE d.trips[d.next] = age
        <5>1. ASSUME NEW i \in Entries, i # d.next PROVE d.trips[i] < age
          <6>1. Before(d, d.next, i)
            BY <1>1, <5>1 DEF Before, Entries
          <6>2. d.trips[i] < d.trips[d.next] \/ d.trips[d.next] = HoldWindow
            BY <1>1, <6>1 DEF Ring
          <6>3. QED
            BY <4>1, <4>4, <6>2
        <5>2. QED
          BY <2>3, <4>1, <5>1
      <4>5. QED
        BY <4>1, <4>2, <4>3, <4>4 DEF Ring
    <3>3. QED
      BY <3>1, <3>2
  <2>7. all \subseteq 0..HoldWindow - 1
    BY <1>1
  <2>8. Ring(p, all)
    BY <2>4, <2>5, <2>6, <2>7 DEF Ring
  <2>9. QED
    BY <1>3, <2>8 DEF p
<1>4. QED
  BY <1>2, <1>3 DEF Dog

\* The ring is full of trips inside the window exactly when that many count.
LEMMA RingCounts ==
  ASSUME NEW d \in Dog, NEW counted \in SUBSET (0..HoldWindow), Ring(d, counted)
  PROVE  recent_trips(d) >= HoldTrips <=> Cardinality(counted) >= HoldTrips
<1> DEFINE recent == {i \in Entries : d.trips[i] < HoldWindow}
<1>1. HoldTrips \in Nat \ {0} /\ HoldWindow \in Nat \ {0}
  OBVIOUS
<1>2. IsFiniteSet(Entries) /\ Cardinality(Entries) = HoldTrips
  <2>1. 0 \in Int /\ HoldTrips - 1 \in Int /\ ~(0 > HoldTrips - 1) /\ (HoldTrips - 1) - 0 + 1 = HoldTrips
    BY <1>1
  <2>2. QED
    BY <2>1, FS_Interval DEF Entries
<1>3. IsFiniteSet(counted) /\ Cardinality(counted) \in Nat
  <2>1. IsFiniteSet(0..HoldWindow)
    BY <1>1, FS_Interval
  <2>2. IsFiniteSet(counted)
    BY <2>1, FS_Subset
  <2>3. QED
    BY <2>2, FS_CardinalityType
<1>4. /\ IsFiniteSet(recent) /\ Cardinality(recent) \in Nat
      /\ Cardinality(recent) <= HoldTrips
      /\ Cardinality(recent) = HoldTrips => recent = Entries
  <2>1. recent \in SUBSET Entries
    OBVIOUS
  <2>2. /\ IsFiniteSet(recent) /\ Cardinality(recent) <= Cardinality(Entries)
        /\ Cardinality(Entries) = Cardinality(recent) => Entries = recent
    BY <1>2, <2>1, FS_Subset
  <2>3. Cardinality(recent) \in Nat
    BY <2>2, FS_CardinalityType
  <2>4. QED
    BY <1>2, <2>2, <2>3
<1>5. recent_trips(d) = Cardinality(recent)
  BY DEF recent_trips, Entries
<1>6. \A i \in Entries : d.trips[i] \in 0..HoldWindow
  BY DEF Dog, Entries
<1>7. ASSUME NEW i \in Entries, NEW j \in Entries, i # j, d.trips[i] < HoldWindow, d.trips[j] < HoldWindow
      PROVE  d.trips[i] # d.trips[j]
  <2>1. Before(d, i, j) \/ Before(d, j, i)
    BY <1>1, <1>7 DEF Before, Entries, Dog
  <2>2. d.trips[j] < d.trips[i] \/ d.trips[i] < d.trips[j]
    BY <1>1, <1>6, <1>7, <2>1 DEF Ring
  <2>3. QED
    BY <1>6, <2>2
<1>8. CASE recent = Entries
  <2> DEFINE f == [i \in Entries |-> d.trips[i]]
  <2>1. \A i \in Entries : d.trips[i] < HoldWindow /\ d.trips[i] \in counted
    BY <1>8 DEF Ring
  <2>2. f \in Injection(Entries, counted)
    <3>1. f \in [Entries -> counted]
      BY <2>1
    <3>2. \A i, j \in Entries : f[i] = f[j] => i = j
      BY <1>7, <2>1
    <3>3. QED
      BY <3>1, <3>2 DEF Injection, IsInjective
  <2>3. Cardinality(Entries) <= Cardinality(counted)
    BY <1>2, <1>3, <2>2, FS_Injection
  <2>4. QED
    BY <1>1, <1>2, <1>3, <1>5, <1>8, <2>3
<1>9. CASE recent # Entries
  <2> DEFINE f == [i \in recent |-> d.trips[i]]
  <2>1. PICK out \in Entries : ~(d.trips[out] < HoldWindow)
    BY <1>9
  <2>2. \A age \in counted : \E i \in recent : d.trips[i] = age
    <3> SUFFICES ASSUME NEW age \in counted PROVE \E i \in recent : d.trips[i] = age
      OBVIOUS
    <3>1. age \in 0..HoldWindow - 1
      BY DEF Ring
    <3>2. ~(d.trips[out] < age)
      BY <1>1, <1>6, <2>1, <3>1
    <3>3. PICK i \in Entries : d.trips[i] = age
      BY <3>2 DEF Ring
    <3>4. i \in recent
      BY <1>1, <3>1, <3>3
    <3>5. QED
      BY <3>3, <3>4
  <2>3. f \in Surjection(recent, counted)
    <3>1. f \in [recent -> counted]
      BY DEF Ring
    <3>2. \A age \in counted : \E i \in recent : f[i] = age
      BY <2>2
    <3>3. QED
      BY <3>1, <3>2 DEF Surjection
  <2>4. Cardinality(counted) <= Cardinality(recent)
    BY <1>4, <2>3, FS_Surjection
  <2>5. Cardinality(recent) < HoldTrips
    BY <1>1, <1>4, <1>9
  <2>6. QED
    BY <1>1, <1>3, <1>4, <1>5, <2>4, <2>5
<1>10. QED
  BY <1>8, <1>9

Counted == Ring(dog, past.counted)

\* A poll keeps the ring in step with the trips that count, and holds exactly when
\* enough of them do.
LEMMA PollKeepsRing ==
  ASSUME TypeOK, Counted, Poll
  PROVE  Counted' /\ RepeatedStallsHold'
<1>0. PICK s \in Sample, elapsed \in 1..MaxElapsed : \E t, r : Polled(s, elapsed, t, r)
  BY PollParts
<1>1. PICK t, r : Polled(s, elapsed, t, r)
  BY <1>0
<1> DEFINE old == Aged(dog, elapsed)
           aged == AgedTrips(past.counted, elapsed)
<1>2. old \in Dog
  BY AgedTypes DEF TypeOK
<1>3. past.counted \in SUBSET (0..HoldWindow) /\ dog \in Dog
  BY DEF TypeOK, Past
<1>4. /\ Ring(old, aged) /\ aged \subseteq 1..HoldWindow - 1
      /\ \A i \in Entries : old.trips[i] \in 1..HoldWindow
  BY <1>3, AgedRing DEF Counted
<1>5. past'.counted = IF r.decision = "trip" /\ r.dog.wanted THEN aged \cup {0} ELSE aged
  BY <1>1 DEF Polled, AgedTrips
<1>6. dog' = r.dog /\ poll'.decision = r.decision /\ past'.wanted = s.wanted
  BY <1>1 DEF Polled
<1>7. CASE ~s.armed
  <2>1. r = [dog |-> [old EXCEPT !.pulse = Unset, !.sim = Unset, !.recover = Unset],
             decision |-> "none"]
    BY <1>1, <1>7 DEF Polled, observe
  <2> HIDE DEF old, aged
  <2>2. r.dog.trips = old.trips /\ r.dog.next = old.next /\ r.decision = "none"
    BY <1>2, <2>1 DEF Dog
  <2>3. Ring(dog', past'.counted)
    BY <1>4, <1>5, <1>6, <2>2 DEF Ring, Before
  <2>4. QED
    BY <1>6, <2>2, <2>3 DEF Counted, RepeatedStallsHold
<1>8. CASE s.armed
  <2> DEFINE progressing == IF s.pulseSeen THEN PulseAdvanced(old, s) ELSE SimAdvanced(old, s)
  <2>1. t \in Dog /\ progressing \in BOOLEAN /\ r = Decided(t, s, progressing)
    BY <1>1, <1>8, ArmedPoll
  <2> HIDE DEF progressing
  <2>2. t.trips = old.trips /\ t.next = old.next
    <3>1. t = Timed(old, s)
      BY <1>1 DEF Polled
    <3> HIDE DEF old
    <3>2. QED
      BY <1>2, <3>1 DEF Timed, Dog
  <2> HIDE DEF old, aged
  <2>3. Ring(t, aged) /\ \A i \in Entries : t.trips[i] \in 1..HoldWindow
    BY <1>4, <2>2 DEF Ring, Before
  <2>4. aged \in SUBSET (1..HoldWindow - 1) /\ aged \in SUBSET (0..HoldWindow)
    BY <1>4
  <2>5. /\ r.dog.wanted = t.wanted
        /\ r.decision = "trip" => r.dog = Tripped(t)
        /\ r.decision # "trip" => r.dog.trips = t.trips /\ r.dog.next = t.next
        /\ r.decision = "hold" => s.wanted /\ recent_trips(t) >= HoldTrips
        /\ r.decision = "recover" => ~(s.wanted /\ recent_trips(t) >= HoldTrips)
    BY <2>1, DecidedEffect
  <2>6. Ring(dog', past'.counted)
    <3>1. CASE r.decision = "trip"
      <4>1. Ring(Tripped(t), IF t.wanted THEN aged \cup {0} ELSE aged)
        BY <2>1, <2>3, <2>4, TrippedRing
      <4>2. dog' = Tripped(t) /\ past'.counted = IF t.wanted THEN aged \cup {0} ELSE aged
        BY <1>5, <1>6, <2>5, <3>1
      <4>3. QED
        BY <4>1, <4>2
    <3>2. CASE r.decision # "trip"
      <4>1. dog'.trips = t.trips /\ dog'.next = t.next /\ past'.counted = aged
        BY <1>5, <1>6, <2>5, <3>2
      <4>2. QED
        BY <2>3, <4>1 DEF Ring, Before
    <3>3. QED
      BY <3>1, <3>2
  <2>7. recent_trips(t) >= HoldTrips <=> Cardinality(aged) >= HoldTrips
    BY <2>1, <2>3, <2>4, RingCounts
  <2>8. Cardinality(aged) \in Nat /\ HoldTrips \in Nat
    <3>1. IsFiniteSet(0..HoldWindow)
      BY FS_Interval
    <3>2. IsFiniteSet(aged)
      BY <2>4, <3>1, FS_Subset
    <3>3. QED
      BY <3>2, FS_CardinalityType
  <2>9. poll'.decision \in {"hold", "recover"} => past'.counted = aged
    BY <1>5, <1>6
  <2>10. RepeatedStallsHold'
    BY <1>6, <2>5, <2>7, <2>8, <2>9 DEF RepeatedStallsHold
  <2>11. QED
    BY <2>6, <2>10 DEF Counted
<1>9. QED
  BY <1>7, <1>8

(***************************************************************************)
(* The other steps leave the timers and the ring alone.                    *)
(***************************************************************************)

LEMMA OthersLeaveTimes ==
  ASSUME TypeOK, [Next]_vars, ~Poll
  PROVE  /\ dog'.pulse = dog.pulse /\ dog'.sim = dog.sim
         /\ dog'.trips = dog.trips /\ dog'.next = dog.next
         /\ past'.quiet = past.quiet /\ past'.counted = past.counted
         /\ past'.wanted = past.wanted
         /\ world'.pulseSeen = world.pulseSeen /\ world'.simSeen = world.simSeen
         /\ \/ poll'.at # "release"
            \/ poll' = poll /\ dog' = dog
<1>1. CASE CheckRelease
  <2>1. dog' = dog \/ dog' = Released(dog)
    BY <1>1 DEF CheckRelease
  <2>2. /\ Released(dog).pulse = dog.pulse /\ Released(dog).sim = dog.sim
        /\ Released(dog).trips = dog.trips /\ Released(dog).next = dog.next
    BY DEF Released, TypeOK, Dog
  <2>3. poll'.at = "publish" /\ UNCHANGED <<past, world>>
    BY <1>1 DEF CheckRelease, TypeOK, PollState
  <2>4. QED
    BY <2>1, <2>2, <2>3
<1>2. CASE Publish \/ CheckHalted \/ StoreArmed \/ SetSubmissionGate
  BY <1>2 DEF Publish, CheckHalted, StoreArmed, SetSubmissionGate, TypeOK, PollState
<1>3. CASE HaltAdmission
  BY <1>3 DEF HaltAdmission, TypeOK, Past
<1>4. CASE WorkerStep
  <2>1. UNCHANGED <<dog, poll, world>>
    BY <1>4 DEF WorkerStep, Connect, Want, Ask, Add
  <2>2. /\ past'.quiet = past.quiet /\ past'.counted = past.counted
        /\ past'.wanted = past.wanted
    BY <1>4 DEF WorkerStep, Connect, Want, Ask, Add, TypeOK, Past
  <2>3. QED
    BY <2>1, <2>2
<1>5. CASE ChangeWorld
  BY <1>5 DEF ChangeWorld, TypeOK
<1>6. CASE UNCHANGED vars
  BY <1>6 DEF vars
<1>7. QED
  BY <1>1, <1>2, <1>3, <1>4, <1>5, <1>6 DEF Next, WatchdogStep

\* The inductive invariant of the thresholds.
Timely == Clocked /\ Counted /\ FreezeDetected /\ RepeatedStallsHold

LEMMA AlwaysTimely == Spec => []Timely
<1>1. Init => Timely
  <2> SUFFICES ASSUME Init PROVE Timely
    OBVIOUS
  <2>1. Clocked
    BY DEF Init, Clocked, Clock
  <2>2. /\ \A i \in Entries : dog.trips[i] = HoldWindow
        /\ past.counted = {} /\ poll.at = "observe"
    BY DEF Init, Entries
  <2>3. Counted
    BY <2>2 DEF Counted, Ring
  <2>4. QED
    BY <2>1, <2>2, <2>3 DEF Timely, FreezeDetected, RepeatedStallsHold
<1>2. TypeOK /\ Timely /\ [Next]_vars => Timely'
  <2> SUFFICES ASSUME TypeOK, Timely, [Next]_vars PROVE Timely'
    OBVIOUS
  <2>1. CASE Poll
    BY <2>1, PollKeepsClock, PollKeepsRing DEF Timely
  <2>2. CASE ~Poll
    <3>1. Clocked'
      BY <2>2, OthersLeaveTimes DEF Timely, Clocked
    <3>2. Counted'
      BY <2>2, OthersLeaveTimes DEF Timely, Counted, Ring, Before
    <3>3. FreezeDetected'
      BY <2>2, OthersLeaveTimes DEF Timely, FreezeDetected
    <3>4. RepeatedStallsHold'
      BY <2>2, OthersLeaveTimes DEF Timely, RepeatedStallsHold
    <3>5. QED
      BY <3>1, <3>2, <3>3, <3>4 DEF Timely
  <2>3. QED
    BY <2>1, <2>2
<1>3. IInv => TypeOK
  BY DEF IInv
<1>4. QED
  BY <1>1, <1>2, <1>3, AlwaysInv, PTL DEF Spec

(***************************************************************************)
(* What the worker asks for.                                               *)
(***************************************************************************)

\* The inductive invariant: an OFF the worker goes by was one of the taxi cameras.
KnownOff ==
  /\ worker.at = "ask" /\ worker.off => past.on \subseteq {"door"}
  /\ worker.at = "add" => past.on \subseteq {"door"}

LEMMA WantFindsOff ==
  ASSUME TypeOK, Want
  PROVE  worker'.at = "ask" /\ (worker'.off => past'.on \subseteq {"door"})
<1>1. PICK grace \in BOOLEAN :
        worker' = [worker EXCEPT !.at = "ask",
          !.off = \/ world.input.changing
                  \/ stall_hold_known_off(worker.connected, Requested(grace))]
  <2>1. PICK grace \in BOOLEAN :
          worker' = IF world.input.changing
                    THEN [worker EXCEPT !.at = "ask", !.off = TRUE]
                    ELSE [worker EXCEPT !.at = "ask",
                            !.off = stall_hold_known_off(worker.connected, Requested(grace))]
    BY DEF Want
  <2>2. stall_hold_known_off(worker.connected, Requested(grace)) \in BOOLEAN
        /\ world.input.changing \in BOOLEAN
    BY DEF TypeOK, Worker, World, stall_hold_known_off
  <2>3. QED
    BY <2>1, <2>2
<1>2. /\ worker'.at = "ask"
      /\ worker'.off = (\/ world.input.changing
                        \/ stall_hold_known_off(worker.connected, Requested(grace)))
  BY <1>1 DEF TypeOK, Worker
<1>3. past'.on = CamerasOn
  BY DEF Want, TypeOK, Past
<1>4. worker'.off => "taxi" \notin CamerasOn
  BY <1>2 DEF stall_hold_known_off, Requested, CamerasOn
<1>5. QED
  BY <1>2, <1>3, <1>4 DEF CamerasOn, Cameras

(***************************************************************************)
(* The theorems about thresholds and holds.                                *)
(***************************************************************************)

\* The watchdog trips exactly when nothing at all advanced for a stall's length: a
\* freeze is found by the first poll past it, a quiet presentation with simulator
\* frames that go on is none (FreezeWatchdog::observe and its stall timers).
THEOREM FreezeFound == Spec => []FreezeDetected
<1>1. Timely => FreezeDetected
  BY DEF Timely
<1>2. QED
  BY <1>1, AlwaysTimely, PTL

\* A recovery holds exactly when as many counted trips as trips_ remembers lie inside
\* the window: the ring loses none that matters (recent_trips and the hold in
\* FreezeWatchdog::observe).
THEOREM HoldAfterRepeats == Spec => []RepeatedStallsHold
<1>1. Timely => RepeatedStallsHold
  BY DEF Timely
<1>2. QED
  BY <1>1, AlwaysTimely, PTL

\* Whatever the pilot and the simulator do, no release is asked for over a taxi camera
\* that was on when the worker looked: a readiness lapse or a stale button reading is
\* no OFF (stall_hold_known_off).  The door camera alone does not keep the hold.
THEOREM HoldLasts == Spec => []HoldLastsWhileRequested
<1>1. Init => KnownOff
  BY DEF Init, KnownOff
<1>2. TypeOK /\ KnownOff /\ [Next]_vars => KnownOff'
  <2> SUFFICES ASSUME TypeOK, KnownOff, [Next]_vars PROVE KnownOff'
    OBVIOUS
  <2>1. CASE Poll
    <3>1. worker'.at = worker.at /\ worker'.off = worker.off
      BY <2>1 DEF Poll, TypeOK, Worker
    <3>2. past'.on = past.on
      BY <2>1 DEF Poll, TypeOK, Past
    <3>3. QED
      BY <3>1, <3>2 DEF KnownOff
  <2>2. CASE CheckRelease \/ Publish \/ CheckHalted \/ StoreArmed \/ SetSubmissionGate \/ ChangeWorld
    BY <2>2 DEF CheckRelease, Publish, CheckHalted, StoreArmed, SetSubmissionGate, ChangeWorld, KnownOff
  <2>3. CASE HaltAdmission
    BY <2>3 DEF HaltAdmission, TypeOK, Past, KnownOff
  <2>4. CASE Connect
    BY <2>4 DEF Connect, TypeOK, Worker, KnownOff
  <2>5. CASE Want
    BY <2>5, WantFindsOff DEF KnownOff
  <2>6. CASE Ask
    <3>1. worker.at = "ask" /\ UNCHANGED past
          /\ worker'.at = IF shared.held /\ worker.off /\ ~worker.requested THEN "add" ELSE "connect"
      BY <2>6 DEF Ask, TypeOK, Worker
    <3>2. QED
      BY <3>1 DEF KnownOff
  <2>7. CASE Add
    BY <2>7 DEF Add, TypeOK, Worker, KnownOff
  <2>8. CASE UNCHANGED vars
    BY <2>8 DEF vars, KnownOff
  <2>9. QED
    BY <2>1, <2>2, <2>3, <2>4, <2>5, <2>6, <2>7, <2>8 DEF Next, WatchdogStep, WorkerStep
<1>3. KnownOff => HoldLastsWhileRequested
  BY DEF KnownOff, HoldLastsWhileRequested
<1>4. IInv => TypeOK
  BY DEF IInv
<1>5. QED
  BY <1>1, <1>2, <1>3, <1>4, AlwaysInv, PTL DEF Spec
=============================================================================

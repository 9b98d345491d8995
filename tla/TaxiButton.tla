----------------------------- MODULE TaxiButton -----------------------------
(***************************************************************************)
(* A camera shortcut on an aircraft with TAXI buttons.  The companion      *)
(* turns it into a numbered request (shared/manual_camera_intent.hpp), the *)
(* bridge worker hands that to TaxiButtonCommand                           *)
(* (camera/taxi_button_command.hpp) and reports back, the telemetry thread *)
(* presses the aircraft's buttons over SimConnect                          *)
(* (camera/body_pose_provider.cpp) and waits to see their lamps change.    *)
(*                                                                         *)
(* A press is a toggle: sent twice it undoes itself.  Masks are sets of    *)
(* sides; times are ages in ticks that saturate at the limit they are      *)
(* compared with.  An aircraft whose latch is written directly is the      *)
(* easier case and is left out, as is the manual request (follow_taxi off).*)
(***************************************************************************)
EXTENDS Integers, FiniteSets, Sequences

CONSTANTS
    Sides,          \* display sides with a TAXI button
    Actions,        \* the sides each shortcut affects
    PermissionAge,  \* PermissionAgeMs in ticks, also the freshness of a lamp
    Lifetime,       \* RequestLifetimeMs in ticks
    MaxSerial,      \* the largest std::uint64_t
    MaxPolls,       \* bound: lamp samples under way
    Outcomes,       \* bound: what can become of a press
    MaxHands,       \* bound: presses by hand
    MaxResets       \* bound: resets by profile selections, and session changes

ASSUME ButtonAssumption ==
    /\ IsFiniteSet(Sides)
    /\ Actions \subseteq SUBSET Sides
    /\ Outcomes \subseteq {"flips", "refused", "ignored"} /\ "flips" \in Outcomes
    /\ PermissionAge \in Nat /\ Lifetime \in Nat \ {0}
    /\ MaxSerial \in Nat /\ MaxPolls \in Nat /\ MaxHands \in Nat /\ MaxResets \in Nat

VARIABLES
    command,        \* TaxiButtonCommand
    session,        \* aircraft_session.epoch()
    lamps,          \* taxi_left, taxi_right, taxi_sd and the age of taxi_ms
    telemetry,      \* the telemetry thread and the decision it carries out
    bridge,         \* the bridge worker's pass
    settings,       \* the companion's request
    status,         \* what the worker published last
    sim,            \* the buttons and both directions of the connection
    past            \* history

vars == <<command, session, lamps, telemetry, bridge, settings, status, sim, past>>

-----------------------------------------------------------------------------
Serials == 1..MaxSerial
Epochs == 1..MaxResets + 1

Request == [serial : 0..MaxSerial, epoch : Epochs, selected : SUBSET Sides, desired : SUBSET Sides]
NoRequest == [serial |-> 0, epoch |-> 1, selected |-> {}, desired |-> {}]

\* newer: a sample later than the send has arrived.
Flight == [active : BOOLEAN, desired : BOOLEAN, newer : BOOLEAN, serial : 0..MaxSerial]
NoFlight == [active |-> FALSE, desired |-> FALSE, newer |-> FALSE, serial |-> 0]

\* The commands that SimConnect was given and the samples it was asked for.
Message == [kind : {"press", "poll"}, side : SUBSET Sides, serial : 0..MaxSerial]
Reply == [kind : {"lamps", "refused"}, sides : SUBSET Sides, serial : 0..MaxSerial]

Older(age, limit) == IF age < limit THEN age + 1 ELSE age

Init ==
    /\ command = [latest |-> NoRequest, pending |-> {}, failed |-> FALSE,
                  flights |-> [s \in Sides |-> NoFlight],
                  permission |-> FALSE, permissionAge |-> 0, age |-> 0]
    /\ session = 1
    /\ lamps = [valid |-> FALSE, on |-> {}, age |-> 0]
    /\ telemetry = [at |-> "loop", todo |-> {}, serial |-> 0, desired |-> {}, side |-> {},
                    accepted |-> FALSE, packets |-> [s \in Sides |-> 0]]
    /\ bridge = [at |-> "update", epoch |-> 1, seen |-> 0, pending |-> {}]
    /\ settings = NoRequest
    /\ status = [valid |-> FALSE, epoch |-> 1, mask |-> {}, seen |-> 0, pending |-> {}]
    /\ sim \in [on : SUBSET Sides, line : {<< >>}, replies : {<< >>}]
    /\ past = [sends |-> [n \in Serials |-> [s \in Sides |-> 0]], intent |-> sim.on,
               failed |-> FALSE, hands |-> 0, resets |-> 0]

\* History: a request failed at some time.
Seen(c) == past' = [past EXCEPT !.failed = @ \/ c.failed]

-----------------------------------------------------------------------------
(* TaxiButtonCommand.  status_.serial is always latest_.serial. *)

reject(c) == [c EXCEPT !.pending = {}, !.failed = TRUE]
fail(c) == IF c.pending # {} THEN reject(c) ELSE c

\* A newer request replaces the last one, refused or not.  (The settings are
\* valid and the profile's buttons can be commanded: its other refusals.)
Consumed(c, r, permitted) ==
    LET next == [c EXCEPT !.latest = r, !.pending = r.selected, !.failed = FALSE, !.age = 0]
    IN IF r.selected # {} /\ (~permitted \/ r.epoch # session) THEN reject(next) ELSE next

\* Fault: every pass of the worker gives the request its whole time again.
FaultUpdateRestartsLife(c, r, permitted) ==
    LET p == [c EXCEPT !.permission = permitted, !.permissionAge = 0, !.age = 0]
    IN CASE r.serial = 0             -> fail(p)
         [] r.serial > p.latest.serial -> Consumed(IF permitted THEN p ELSE fail(p), r, permitted)
         [] OTHER -> IF permitted THEN p ELSE fail(p)

\* Fault: a request already consumed is taken up again.
FaultUpdateReplays(c, r, permitted) ==
    LET p == [c EXCEPT !.permission = permitted, !.permissionAge = 0]
    IN IF r.serial = 0 THEN fail(p) ELSE Consumed(p, r, permitted)

update(c, r, permitted) ==
    LET p == [c EXCEPT !.permission = permitted, !.permissionAge = 0]
        q == IF permitted THEN p ELSE fail(p)
    IN CASE r.serial = 0              -> fail(q)
         [] r.serial > q.latest.serial -> Consumed(q, r, permitted)
         [] OTHER -> IF r.serial = q.latest.serial /\ r # q.latest THEN fail(q) ELSE q

reset_session(c) ==
    [fail(c) EXCEPT !.permission = FALSE, !.flights = [s \in Sides |-> NoFlight]]

Permitted(c) == c.permission /\ c.permissionAge <= PermissionAge

\* The failures step() finds before it looks at a lamp.
Expired(c) ==
    IF ~Permitted(c) \/ c.latest.epoch # session \/ c.age >= Lifetime THEN fail(c) ELSE c

Acknowledged(c, s) ==
    LET f == c.flights[s] IN f.active /\ f.newer /\ (s \in lamps.on) = f.desired

\* Fault: a side is not held back by the press under way for it.
FaultIdleIgnoresFlights(c) == Sides

\* Sides no accepted press is under way for, as far as the lamps show.
Idle(c) == {s \in Sides : ~c.flights[s].active \/ Acknowledged(c, s)}
Done(c) == {s \in Idle(c) \cap c.pending : s \in lamps.on <=> s \in c.latest.desired}

\* step() on fresh lamps of the right aircraft.
Observed(c) ==
    [c EXCEPT !.flights = [s \in Sides |-> IF Acknowledged(c, s) THEN NoFlight ELSE @[s]],
              !.pending = @ \ Done(c)]
ToSend(c) == (Idle(c) \cap c.pending) \ Done(c)

\* current(), on the side that is about to be pressed.
current(s) ==
    /\ ~command.flights[s].active
    /\ Permitted(command)
    /\ telemetry.serial = command.latest.serial
    /\ s \in command.pending

sent(c, s) ==
    IF telemetry.accepted
    THEN [c EXCEPT !.flights[s] = [active |-> TRUE, desired |-> s \in telemetry.desired,
                                   newer |-> FALSE, serial |-> telemetry.serial]]
    ELSE IF telemetry.serial = c.latest.serial THEN fail(c) ELSE c

rejected(c, s) ==
    LET cleared == [c EXCEPT !.flights[s] = NoFlight]
    IN CASE ~c.flights[s].active -> c
         [] c.flights[s].active /\ c.flights[s].serial = c.latest.serial -> fail(cleared)
         [] OTHER -> cleared

-----------------------------------------------------------------------------
(* The telemetry thread. *)

Polls == Cardinality({i \in DOMAIN sim.line : sim.line[i].kind = "poll"})
         + Cardinality({i \in DOMAIN sim.replies : sim.replies[i].kind = "lamps"})

RequestLamps ==
    /\ telemetry.at = "loop"
    /\ Polls < MaxPolls
    /\ sim' = [sim EXCEPT !.line = Append(@, [kind |-> "poll", side |-> {}, serial |-> 0])]
    /\ UNCHANGED <<command, session, lamps, telemetry, bridge, settings, status, past>>

\* accept_taxi_packet; with values that are no lamps the sample is dropped.  A
\* sample within the millisecond of the send is not later than it.
ReceiveLamps(valid, later) ==
    /\ telemetry.at = "loop"
    /\ sim.replies # << >> /\ Head(sim.replies).kind = "lamps"
    /\ lamps' = IF valid THEN [valid |-> TRUE, on |-> Head(sim.replies).sides, age |-> 0]
                         ELSE [lamps EXCEPT !.valid = FALSE]
    /\ command' = [command EXCEPT !.flights =
                     [s \in Sides |-> [command.flights[s] EXCEPT !.newer =
                         @ \/ (valid /\ later /\ command.flights[s].active)]]]
    /\ sim' = [sim EXCEPT !.replies = Tail(@)]
    /\ UNCHANGED <<session, telemetry, bridge, settings, status, past>>

\* A SimConnect exception on a command: taxi_failure, then rejected() for the
\* side whose last command it names.
ReceiveRefusal ==
    LET reply == Head(sim.replies)
        named == {s \in reply.sides : telemetry.packets[s] = reply.serial}
    IN
    /\ telemetry.at = "loop"
    /\ sim.replies # << >> /\ reply.kind = "refused"
    /\ IF named = {}
       THEN UNCHANGED <<command, lamps, telemetry, past>>
       ELSE /\ \E s \in named :
                 /\ command' = rejected(command, s)
                 /\ telemetry' = [telemetry EXCEPT !.packets[s] = 0]
            /\ lamps' = [lamps EXCEPT !.valid = FALSE]
            /\ Seen(command')
    /\ sim' = [sim EXCEPT !.replies = Tail(@)]
    /\ UNCHANGED <<session, bridge, settings, status>>

\* A new flight or aircraft: a new epoch, and reset_session_locked.
ChangeSession ==
    /\ telemetry.at = "loop"
    /\ past.resets < MaxResets
    /\ session' = session + 1
    /\ command' = reset_session(command)
    /\ lamps' = [lamps EXCEPT !.valid = FALSE]
    /\ past' = [past EXCEPT !.resets = @ + 1, !.failed = @ \/ command'.failed]
    /\ UNCHANGED <<telemetry, bridge, settings, status, sim>>

\* Readiness and identity are as they happen to be.
Step(identity) ==
    /\ telemetry.at = "loop"
    /\ LET c == Expired(command)
           usable == identity /\ lamps.valid /\ lamps.age <= PermissionAge
       IN /\ command' = IF usable THEN Observed(c) ELSE c
          /\ telemetry' = IF usable /\ ToSend(c) # {}
                          THEN [telemetry EXCEPT !.at = "check", !.todo = ToSend(c),
                                                 !.serial = c.latest.serial,
                                                 !.desired = c.latest.desired]
                          ELSE telemetry
    /\ Seen(command')
    /\ UNCHANGED <<session, lamps, bridge, settings, status, sim>>

\* The next side of the decision, checked again under the lock.
Check(ready) ==
    /\ telemetry.at = "check"
    /\ \E s \in telemetry.todo :
          LET rest == telemetry.todo \ {s}
          IN telemetry' = IF ready /\ current(s)
                          THEN [telemetry EXCEPT !.at = "press", !.todo = rest, !.side = {s}]
                          ELSE [telemetry EXCEPT !.at = IF rest = {} THEN "loop" ELSE "check",
                                                 !.todo = rest]
    /\ UNCHANGED <<command, session, lamps, bridge, settings, status, sim, past>>

\* The SimConnect call, without the lock.
Press(accepted) ==
    /\ telemetry.at = "press"
    /\ \E s \in telemetry.side :
          /\ telemetry' = [telemetry EXCEPT !.at = "sent", !.accepted = accepted,
                                            !.packets[s] = IF accepted THEN telemetry.serial ELSE 0]
          /\ sim' = IF accepted
                    THEN [sim EXCEPT !.line = Append(@, [kind |-> "press", side |-> {s},
                                                         serial |-> telemetry.serial])]
                    ELSE sim
          /\ past' = IF accepted
                     THEN [past EXCEPT !.sends[telemetry.serial][s] = IF @ < 2 THEN @ + 1 ELSE 2]
                     ELSE past
    /\ UNCHANGED <<command, session, lamps, bridge, settings, status>>

Sent ==
    /\ telemetry.at = "sent"
    /\ \E s \in telemetry.side : command' = sent(command, s)
    /\ telemetry' = [telemetry EXCEPT !.at = IF telemetry.todo = {} THEN "loop" ELSE "check",
                                      !.side = {}]
    /\ Seen(command')
    /\ UNCHANGED <<session, lamps, bridge, settings, status, sim>>

TelemetryStep ==
    \/ RequestLamps
    \/ \E valid, later \in BOOLEAN : ReceiveLamps(valid, later)
    \/ ReceiveRefusal
    \/ ChangeSession
    \/ \E identity \in BOOLEAN : Step(identity)
    \/ \E ready \in BOOLEAN : Check(ready)
    \/ \E accepted \in BOOLEAN : Press(accepted)
    \/ Sent

-----------------------------------------------------------------------------
(* The bridge worker's pass. *)

\* update_taxi_button_request with the companion's settings, or without any
\* when it is gone; whether commands are permitted is as it happens to be.
Update(connected, permitted) ==
    /\ bridge.at = "update"
    /\ command' = update(command, IF connected THEN settings ELSE NoRequest, connected /\ permitted)
    /\ bridge' = [bridge EXCEPT !.at = "acknowledge", !.epoch = session]
    /\ Seen(command')
    /\ UNCHANGED <<session, lamps, telemetry, settings, status, sim>>

\* The pass selects the worker's own profile again: reset_session_locked.
SelectProfile ==
    /\ bridge.at = "acknowledge"
    /\ past.resets < MaxResets
    /\ command' = reset_session(command)
    /\ lamps' = [lamps EXCEPT !.valid = FALSE]
    /\ past' = [past EXCEPT !.resets = @ + 1, !.failed = @ \/ command'.failed]
    /\ UNCHANGED <<session, telemetry, bridge, settings, status, sim>>

\* "Read acknowledgement first": the request's state, then the lamps.
Acknowledge ==
    /\ bridge.at = "acknowledge"
    /\ bridge' = [bridge EXCEPT !.at = "publish", !.seen = command.latest.serial,
                                !.pending = command.pending]
    /\ UNCHANGED <<command, session, lamps, telemetry, settings, status, sim, past>>

Publish ==
    /\ bridge.at = "publish"
    /\ LET fresh == lamps.valid /\ lamps.age <= PermissionAge
       IN status' = [valid |-> fresh, epoch |-> bridge.epoch,
                     mask |-> IF fresh THEN lamps.on ELSE {},
                     seen |-> bridge.seen, pending |-> bridge.pending]
    /\ bridge' = [bridge EXCEPT !.at = "update"]
    /\ UNCHANGED <<command, session, lamps, telemetry, settings, sim, past>>

BridgeStep ==
    \/ \E connected, permitted \in BOOLEAN : Update(connected, permitted)
    \/ SelectProfile
    \/ Acknowledge
    \/ Publish

-----------------------------------------------------------------------------
(* The companion. *)

\* reset_aircraft_session, when the published epoch is not the settings'.
Synced ==
    IF status.epoch = settings.epoch THEN settings
    ELSE [serial |-> IF settings.serial \in {0, MaxSerial} THEN settings.serial
                                                         ELSE settings.serial + 1,
          epoch |-> status.epoch, selected |-> {}, desired |-> {}]

SyncSession ==
    /\ status.epoch # settings.epoch
    /\ settings' = Synced
    /\ UNCHANGED <<command, session, lamps, telemetry, bridge, status, sim, past>>

toggle_sides(mask, affected) ==
    IF affected \subseteq mask THEN mask \ affected ELSE mask \cup affected

\* The sides whose last request the lamps cannot show yet.
Unanswered(s) ==
    CASE s.serial > status.seen -> s.selected
      [] s.serial = status.seen -> s.selected \cap status.pending
      [] OTHER -> {}

\* Fault: a new shortcut drops what another side still waits for.
FaultKeptNothing(s, waiting, affected) == {}

\* What sides the shortcut does not affect still wait for.
Kept(s, waiting, affected) == (s.desired \cap waiting) \ affected

\* Fault: the last serial is not refused.
FaultSerialLeft(last) == TRUE

\* The comparison with the largest std::uint64_t.
SerialLeft(last) == last < MaxSerial

\* toggle_camera_from_hotkey.  The age limit on the published sample only
\* removes presses and is left out.
Shortcut(affected) ==
    LET s == Synced
        waiting == Unanswered(s)
        mask == (status.mask \ waiting) \cup (s.desired \cap waiting)
        target == toggle_sides(mask, affected)
        last == IF s.serial > status.seen THEN s.serial ELSE status.seen
    IN
    /\ status.valid
    /\ SerialLeft(last)
    /\ settings' = [serial |-> last + 1, epoch |-> s.epoch, selected |-> waiting \cup affected,
                    desired |-> Kept(s, waiting, affected) \cup (target \cap affected)]
    /\ past' = [past EXCEPT !.intent = toggle_sides(@, affected)]
    /\ UNCHANGED <<command, session, lamps, telemetry, bridge, status, sim>>

-----------------------------------------------------------------------------
(* The simulator and the pilot's hand. *)

\* Messages are handled in order.  A press flips the button, is refused, or is
\* ignored by the aircraft.
Handle(outcome) ==
    LET message == Head(sim.line) IN
    /\ sim.line # << >>
    /\ outcome # "flips" => message.kind = "press"
    /\ sim' = [on |-> IF message.kind = "press" /\ outcome = "flips"
                      THEN (sim.on \ message.side) \cup (message.side \ sim.on) ELSE sim.on,
               line |-> Tail(sim.line),
               replies |-> CASE message.kind = "poll" ->
                                  Append(sim.replies, [kind |-> "lamps", sides |-> sim.on, serial |-> 0])
                             [] message.kind = "press" /\ outcome = "refused" ->
                                  Append(sim.replies, [kind |-> "refused", sides |-> message.side,
                                                       serial |-> message.serial])
                             [] OTHER -> sim.replies]
    /\ UNCHANGED <<command, session, lamps, telemetry, bridge, settings, status, past>>

HandPress(s) ==
    /\ past.hands < MaxHands
    /\ sim' = [sim EXCEPT !.on = (@ \ {s}) \cup ({s} \ @)]
    /\ past' = [past EXCEPT !.hands = @ + 1]
    /\ UNCHANGED <<command, session, lamps, telemetry, bridge, settings, status>>

Tick ==
    /\ command' = [command EXCEPT !.permissionAge = Older(@, PermissionAge + 1),
                                  !.age = Older(@, Lifetime)]
    /\ lamps' = [lamps EXCEPT !.age = Older(@, PermissionAge + 1)]
    /\ UNCHANGED <<session, telemetry, bridge, settings, status, sim, past>>

Next ==
    \/ TelemetryStep
    \/ BridgeStep
    \/ SyncSession
    \/ \E affected \in Actions : Shortcut(affected)
    \/ \E outcome \in Outcomes : Handle(outcome)
    \/ \E s \in Sides : HandPress(s)
    \/ Tick

Spec == Init /\ [][Next]_vars

\* The telemetry thread's loop goes on, and so does time.
Dispatch == (\E identity \in BOOLEAN : Step(identity)) \/ (\E ready \in BOOLEAN : Check(ready))
            \/ (\E accepted \in BOOLEAN : Press(accepted)) \/ Sent

FairSpec == Spec /\ WF_vars(Dispatch) /\ WF_vars(Tick)
-----------------------------------------------------------------------------
(* Properties. *)

Command == [latest : Request, pending : SUBSET Sides, failed : BOOLEAN,
            flights : [Sides -> Flight], permission : BOOLEAN,
            permissionAge : 0..PermissionAge + 1, age : 0..Lifetime]
Lamps == [valid : BOOLEAN, on : SUBSET Sides, age : 0..PermissionAge + 1]
Telemetry == [at : {"loop", "check", "press", "sent"}, todo : SUBSET Sides,
              serial : 0..MaxSerial, desired : SUBSET Sides, side : SUBSET Sides,
              accepted : BOOLEAN, packets : [Sides -> 0..MaxSerial]]

TypeOK ==
    /\ command \in Command
    /\ session \in Epochs
    /\ lamps \in Lamps
    /\ telemetry \in Telemetry
    /\ bridge \in [at : {"update", "acknowledge", "publish"}, epoch : Epochs,
                   seen : 0..MaxSerial, pending : SUBSET Sides]
    /\ settings \in Request
    /\ status \in [valid : BOOLEAN, epoch : Epochs, mask : SUBSET Sides,
                   seen : 0..MaxSerial, pending : SUBSET Sides]
    /\ sim \in [on : SUBSET Sides, line : Seq(Message), replies : Seq(Reply)]
    /\ past \in [sends : [Serials -> [Sides -> 0..2]], intent : SUBSET Sides,
                 failed : BOOLEAN, hands : 0..MaxHands, resets : 0..MaxResets]

\* No request presses a button twice, whatever timed out, was refused, reset,
\* superseded or pressed by hand between its two looks at the lamps.
OncePerRequest == \A n \in Serials, s \in Sides : past.sends[n][s] < 2

\* Only Taxi Cam's own presses move the buttons, in one session.
Undisturbed == past.hands = 0 /\ past.resets = 0

Presses(s) == {i \in DOMAIN sim.line : sim.line[i].kind = "press" /\ sim.line[i].side = {s}}

\* A request retired without a failure is done: the aircraft's buttons are as it
\* asked, and no press that would move them again is under way.
RetiredMeansDone ==
    Undisturbed /\ ~command.failed =>
        \A s \in command.latest.selected \ command.pending :
            /\ Presses(s) = {}
            /\ s \in sim.on <=> s \in command.latest.desired

\* "A retired command must never be paired with the earlier rendering sample from
\* before its lamp change was observed": until a request fails, each shortcut asks
\* for the opposite of the one before, however fast they follow each other.
ShortcutReverses ==
    Undisturbed /\ ~past.failed => settings.desired = past.intent \cap settings.selected

\* A request is retired within its lifetime, also when the worker keeps permitting
\* it and the aircraft never answers.
RequestRetires ==
    \A n \in Serials :
        (command.latest.serial = n /\ command.pending # {})
            ~> (command.latest.serial # n \/ command.pending = {})
=============================================================================

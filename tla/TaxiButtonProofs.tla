-------------------------- MODULE TaxiButtonProofs --------------------------
(***************************************************************************)
(* For any sides, shortcuts, serials, ages and samples under way: every    *)
(* field keeps its type, no serial leaves its width, and no request        *)
(* presses a button twice.  While only Taxi Cam presses the buttons, what  *)
(* the telemetry thread knows of each side follows the connection, so a    *)
(* request retired without a failure is done, and each shortcut asks for   *)
(* the opposite of the one before until a request fails.                   *)
(***************************************************************************)
EXTENDS TaxiButton, SequenceTheorems, TLAPS

USE ButtonAssumption

(***************************************************************************)
(* TaxiButtonCommand keeps its type.                                       *)
(***************************************************************************)

LEMMA EmptyTypes == NoRequest \in Request /\ NoFlight \in Flight
  BY DEF NoRequest, Request, Epochs, NoFlight, Flight

\* Ages that saturate stay ages.
LEMMA OlderTypes ==
  ASSUME NEW limit \in Nat, NEW age \in 0..limit
  PROVE  Older(age, limit) \in 0..limit
  BY DEF Older

LEMMA FailTypes ==
  ASSUME NEW c \in Command
  PROVE  reject(c) \in Command /\ fail(c) \in Command
  BY DEF reject, fail, Command

LEMMA UpdateTypes ==
  ASSUME NEW c \in Command, NEW r \in Request, NEW permitted \in BOOLEAN
  PROVE  update(c, r, permitted) \in Command
<1> DEFINE p == [c EXCEPT !.permission = permitted, !.permissionAge = 0]
           q == IF permitted THEN p ELSE fail(p)
<1>0. 0 \in 0..PermissionAge + 1 /\ 0 \in 0..Lifetime
  OBVIOUS
<1>1. p \in Command
  BY <1>0 DEF Command
<1>2. q \in Command /\ fail(q) \in Command
  BY <1>1, FailTypes
<1>3. Consumed(q, r, permitted) \in Command
  <2> HIDE DEF q
  <2> DEFINE next == [q EXCEPT !.latest = r, !.pending = r.selected, !.failed = FALSE, !.age = 0]
  <2>1. next \in Command
    BY <1>0, <1>2 DEF Command, Request
  <2>2. reject(next) \in Command
    BY <2>1, FailTypes
  <2>3. QED
    BY <2>1, <2>2 DEF Consumed
<1>4. update(c, r, permitted) \in {q, fail(q), Consumed(q, r, permitted)}
  BY DEF update
<1>5. QED
  BY <1>2, <1>3, <1>4

LEMMA ResetTypes == ASSUME NEW c \in Command PROVE reset_session(c) \in Command
<1>1. fail(c) \in Command /\ [s \in Sides |-> NoFlight] \in [Sides -> Flight]
  BY FailTypes, EmptyTypes
<1>2. QED
  BY <1>1 DEF reset_session, Command

LEMMA StepTypes ==
  ASSUME NEW c \in Command
  PROVE  Expired(c) \in Command /\ Observed(c) \in Command /\ ToSend(c) \subseteq Sides
<1>1. Expired(c) \in Command
  BY FailTypes DEF Expired
<1>2. [s \in Sides |-> IF Acknowledged(c, s) THEN NoFlight ELSE c.flights[s]] \in [Sides -> Flight]
  BY EmptyTypes DEF Command
<1>3. Observed(c) \in Command
  BY <1>2 DEF Observed, Command
<1>4. QED
  BY <1>1, <1>3 DEF ToSend, Idle

LEMMA SentTypes ==
  ASSUME NEW c \in Command, NEW s \in Sides, telemetry \in Telemetry
  PROVE  sent(c, s) \in Command
<1> DEFINE f == [active |-> TRUE, desired |-> s \in telemetry.desired,
                 newer |-> FALSE, serial |-> telemetry.serial]
<1>1. f \in Flight
  BY DEF Flight, Telemetry
<1>2. [c EXCEPT !.flights[s] = f] \in Command
  <2> HIDE DEF f
  <2> QED BY <1>1 DEF Command
<1>3. sent(c, s) \in {[c EXCEPT !.flights[s] = f], fail(c), c}
  BY DEF sent
<1>4. QED
  BY <1>2, <1>3, FailTypes

LEMMA RejectedTypes ==
  ASSUME NEW c \in Command, NEW s \in Sides PROVE rejected(c, s) \in Command
<1> DEFINE cleared == [c EXCEPT !.flights[s] = NoFlight]
<1>1. cleared \in Command
  BY EmptyTypes DEF Command
<1>2. rejected(c, s) \in {c, cleared, fail(cleared)}
  BY DEF rejected
<1>3. QED
  BY <1>1, <1>2, FailTypes

(***************************************************************************)
(* Every step keeps the types.  A session's epoch is paid for by a reset.  *)
(***************************************************************************)
Bridge == [at : {"update", "acknowledge", "publish"}, epoch : Epochs,
           seen : 0..MaxSerial, pending : SUBSET Sides]
Status == [valid : BOOLEAN, epoch : Epochs, mask : SUBSET Sides,
           seen : 0..MaxSerial, pending : SUBSET Sides]
Connection == [on : SUBSET Sides, line : Seq(Message), replies : Seq(Reply)]
Past == [sends : [Serials -> [Sides -> 0..2]], intent : SUBSET Sides,
         failed : BOOLEAN, hands : 0..MaxHands, resets : 0..MaxResets]

Typed == TypeOK /\ session <= past.resets + 1

\* A request's failure is remembered.
LEMMA SeenTypes ==
  ASSUME past \in Past, NEW c \in Command, Seen(c)
  PROVE  past' \in Past /\ past'.resets = past.resets /\ past'.sends = past.sends
<1>1. past' = [past EXCEPT !.failed = past.failed \/ c.failed]
  BY DEF Seen
<1>2. (past.failed \/ c.failed) \in BOOLEAN
  OBVIOUS
<1>3. QED
  BY <1>1, <1>2 DEF Past

LEMMA HeadTail ==
  ASSUME NEW S, NEW q \in Seq(S), q # << >>
  PROVE  Head(q) \in S /\ Tail(q) \in Seq(S)
  OBVIOUS

LEMMA RequestLampsTyped == ASSUME Typed, RequestLamps PROVE Typed'
<1> DEFINE m == [kind |-> "poll", side |-> {}, serial |-> 0]
<1>1. m \in Message
  BY DEF Message
<1>2. sim' = [sim EXCEPT !.line = Append(sim.line, m)]
  BY DEF RequestLamps
<1>3. sim' \in Connection
  <2> HIDE DEF m
  <2>1. sim \in Connection /\ Append(sim.line, m) \in Seq(Message)
    BY <1>1 DEF Typed, TypeOK, Connection
  <2>2. QED
    BY <1>2, <2>1 DEF Connection
<1>4. QED
  BY <1>3 DEF RequestLamps, Typed, TypeOK, Connection

LEMMA ReceiveLampsTyped ==
  ASSUME Typed, NEW valid \in BOOLEAN, NEW later \in BOOLEAN, ReceiveLamps(valid, later)
  PROVE  Typed'
<1> DEFINE r == Head(sim.replies)
<1>1. sim \in Connection /\ lamps \in Lamps /\ command \in Command
  BY DEF Typed, TypeOK, Connection
<1>2. r \in Reply /\ Tail(sim.replies) \in Seq(Reply)
  BY <1>1, HeadTail DEF ReceiveLamps, Connection
<1>3. sim' \in Connection
  <2>1. sim' = [sim EXCEPT !.replies = Tail(sim.replies)]
    BY DEF ReceiveLamps
  <2>2. QED
    BY <1>1, <1>2, <2>1 DEF Connection
<1>4. lamps' \in Lamps
  <2>1. lamps' = IF valid THEN [valid |-> TRUE, on |-> r.sides, age |-> 0]
                          ELSE [lamps EXCEPT !.valid = FALSE]
    BY DEF ReceiveLamps
  <2>2. r.sides \subseteq Sides /\ 0 \in 0..PermissionAge + 1
    BY <1>2 DEF Reply
  <2> HIDE DEF r
  <2>3. [valid |-> TRUE, on |-> r.sides, age |-> 0] \in Lamps
    BY <2>2 DEF Lamps
  <2>4. [lamps EXCEPT !.valid = FALSE] \in Lamps
    BY <1>1 DEF Lamps
  <2>5. QED
    BY <2>1, <2>3, <2>4
<1>5. command' \in Command
  <2> DEFINE newer(s) == command.flights[s].newer \/ (valid /\ later /\ command.flights[s].active)
             flights == [s \in Sides |-> [command.flights[s] EXCEPT !.newer = newer(s)]]
  <2>1. command' = [command EXCEPT !.flights = flights]
    BY Zenon DEF ReceiveLamps
  <2>2. flights \in [Sides -> Flight]
    <3>1. SUFFICES ASSUME NEW s \in Sides
                   PROVE  [command.flights[s] EXCEPT !.newer = newer(s)] \in Flight
      OBVIOUS
    <3>2. command.flights[s] \in Flight /\ newer(s) \in BOOLEAN
      BY <1>1 DEF Command
    <3> HIDE DEF newer
    <3>3. QED
      BY <3>2 DEF Flight
  <2> HIDE DEF flights
  <2>3. QED
    BY <1>1, <2>1, <2>2 DEF Command
<1>6. QED
  BY <1>3, <1>4, <1>5 DEF ReceiveLamps, Typed, TypeOK, Connection

LEMMA ReceiveRefusalTyped == ASSUME Typed, ReceiveRefusal PROVE Typed'
<1> DEFINE reply == Head(sim.replies)
           named == {s \in reply.sides : telemetry.packets[s] = reply.serial}
<1>1. /\ sim \in Connection /\ lamps \in Lamps /\ command \in Command
      /\ telemetry \in Telemetry /\ past \in Past
  BY DEF Typed, TypeOK, Connection, Past
<1>2. reply \in Reply /\ Tail(sim.replies) \in Seq(Reply)
  BY <1>1, HeadTail DEF ReceiveRefusal, Connection
<1>3. named \subseteq Sides
  BY <1>2 DEF Reply
<1>4. sim' \in Connection
  <2>1. sim' = [sim EXCEPT !.replies = Tail(sim.replies)]
    BY DEF ReceiveRefusal
  <2>2. QED
    BY <1>1, <1>2, <2>1 DEF Connection
<1>5. /\ command' \in Command /\ lamps' \in Lamps /\ telemetry' \in Telemetry
      /\ past' \in Past /\ past'.resets = past.resets
  <2>1. CASE named = {}
    <3>1. UNCHANGED <<command, lamps, telemetry, past>>
      BY <2>1 DEF ReceiveRefusal
    <3>2. QED
      BY <1>1, <3>1
  <2>2. CASE named # {}
    <3>1. PICK s \in named : /\ command' = rejected(command, s)
                             /\ telemetry' = [telemetry EXCEPT !.packets[s] = 0]
      BY <2>2 DEF ReceiveRefusal
    <3>2. s \in Sides
      BY <1>3, <3>1
    <3>3. command' \in Command
      BY <1>1, <3>1, <3>2, RejectedTypes
    <3>4. telemetry' \in Telemetry
      BY <1>1, <3>1, <3>2 DEF Telemetry
    <3>5. lamps' = [lamps EXCEPT !.valid = FALSE] /\ Seen(command')
      BY <2>2 DEF ReceiveRefusal
    <3>6. lamps' \in Lamps
      BY <1>1, <3>5 DEF Lamps
    <3>7. QED
      BY <1>1, <3>3, <3>4, <3>5, <3>6, SeenTypes
  <2>3. QED
    BY <2>1, <2>2
<1>6. QED
  BY <1>4, <1>5 DEF ReceiveRefusal, Typed, TypeOK, Connection, Past

LEMMA ChangeSessionTyped == ASSUME Typed, ChangeSession PROVE Typed'
<1>1. /\ command \in Command /\ lamps \in Lamps /\ past \in Past /\ session \in Epochs
      /\ session <= past.resets + 1
  BY DEF Typed, TypeOK, Past
<1>2. command' = reset_session(command) /\ command' \in Command
  BY <1>1, ResetTypes DEF ChangeSession
<1>3. lamps' \in Lamps
  <2>1. lamps' = [lamps EXCEPT !.valid = FALSE]
    BY DEF ChangeSession
  <2>2. QED
    BY <1>1, <2>1 DEF Lamps
<1>4. past' \in Past /\ past'.resets = past.resets + 1
  <2>1. past' = [past EXCEPT !.resets = past.resets + 1, !.failed = past.failed \/ command'.failed]
    BY DEF ChangeSession
  <2>2. (past.failed \/ command'.failed) \in BOOLEAN
    OBVIOUS
  <2>3. past.resets + 1 \in 0..MaxResets
    BY <1>1 DEF ChangeSession, Past
  <2>4. QED
    BY <1>1, <2>1, <2>2, <2>3 DEF Past
<1>5. session' \in Epochs /\ session' <= past'.resets + 1
  <2>1. session' = session + 1 /\ past.resets < MaxResets /\ past.resets \in Nat
    BY <1>1 DEF ChangeSession, Past
  <2>2. QED
    BY <1>1, <1>4, <2>1 DEF Epochs
<1>6. QED
  BY <1>2, <1>3, <1>4, <1>5 DEF ChangeSession, Typed, TypeOK, Past

LEMMA SelectProfileTyped == ASSUME Typed, SelectProfile PROVE Typed'
<1>1. command \in Command /\ lamps \in Lamps /\ past \in Past /\ session <= past.resets + 1
      /\ session \in Epochs
  BY DEF Typed, TypeOK, Past
<1>2. command' = reset_session(command) /\ command' \in Command
  BY <1>1, ResetTypes DEF SelectProfile
<1>3. lamps' \in Lamps
  <2>1. lamps' = [lamps EXCEPT !.valid = FALSE]
    BY DEF SelectProfile
  <2>2. QED
    BY <1>1, <2>1 DEF Lamps
<1>4. past' \in Past /\ past'.resets = past.resets + 1
  <2>1. past' = [past EXCEPT !.resets = past.resets + 1, !.failed = past.failed \/ command'.failed]
    BY DEF SelectProfile
  <2>2. (past.failed \/ command'.failed) \in BOOLEAN
    OBVIOUS
  <2>3. past.resets + 1 \in 0..MaxResets
    BY <1>1 DEF SelectProfile, Past
  <2>4. QED
    BY <1>1, <2>1, <2>2, <2>3 DEF Past
<1>5. session' <= past'.resets + 1
  <2>1. session' = session /\ past.resets \in Nat
    BY <1>1 DEF SelectProfile, Past
  <2>2. QED
    BY <1>1, <1>4, <2>1 DEF Epochs
<1>6. QED
  BY <1>2, <1>3, <1>4, <1>5 DEF SelectProfile, Typed, TypeOK, Past

LEMMA StepTyped == ASSUME Typed, NEW identity \in BOOLEAN, Step(identity) PROVE Typed'
<1> DEFINE c == Expired(command)
           usable == identity /\ lamps.valid /\ lamps.age <= PermissionAge
<1>1. command \in Command /\ telemetry \in Telemetry /\ past \in Past
  BY DEF Typed, TypeOK, Past
<1>2. c \in Command /\ Observed(c) \in Command /\ ToSend(c) \subseteq Sides
  BY <1>1, StepTypes
<1>3. command' \in Command
  BY <1>2 DEF Step
<1>4. telemetry' \in Telemetry
  <2>1. telemetry' \in {telemetry, [telemetry EXCEPT !.at = "check", !.todo = ToSend(c),
                                      !.serial = c.latest.serial, !.desired = c.latest.desired]}
    BY DEF Step
  <2> HIDE DEF c
  <2>2. c.latest.serial \in 0..MaxSerial /\ c.latest.desired \in SUBSET Sides
    BY <1>2 DEF Command, Request
  <2>3. [telemetry EXCEPT !.at = "check", !.todo = ToSend(c),
                          !.serial = c.latest.serial, !.desired = c.latest.desired] \in Telemetry
    BY <1>1, <1>2, <2>2 DEF Telemetry
  <2>4. QED
    BY <1>1, <2>1, <2>3
<1>5. past' \in Past /\ past'.resets = past.resets
  BY <1>1, <1>3, SeenTypes DEF Step
<1>6. QED
  BY <1>3, <1>4, <1>5 DEF Step, Typed, TypeOK, Past

LEMMA CheckTyped == ASSUME Typed, NEW ready \in BOOLEAN, Check(ready) PROVE Typed'
<1>1. telemetry \in Telemetry
  BY DEF Typed, TypeOK
<1>2. PICK s \in telemetry.todo :
        telemetry' \in {[telemetry EXCEPT !.at = "press", !.todo = telemetry.todo \ {s}, !.side = {s}],
                        [telemetry EXCEPT !.at = "loop", !.todo = telemetry.todo \ {s}],
                        [telemetry EXCEPT !.at = "check", !.todo = telemetry.todo \ {s}]}
  BY DEF Check
<1>3. {s} \in SUBSET Sides /\ telemetry.todo \ {s} \in SUBSET Sides
  BY <1>1 DEF Telemetry
<1>4. telemetry' \in Telemetry
  <2> DEFINE rest == telemetry.todo \ {s}
  <2>1. /\ [telemetry EXCEPT !.at = "press", !.todo = rest, !.side = {s}] \in Telemetry
        /\ [telemetry EXCEPT !.at = "loop", !.todo = rest] \in Telemetry
        /\ [telemetry EXCEPT !.at = "check", !.todo = rest] \in Telemetry
    <3>1. rest \in SUBSET Sides
      BY <1>3
    <3> HIDE DEF rest
    <3>2. QED
      BY <1>1, <1>3, <3>1 DEF Telemetry
  <2>2. QED
    BY <1>2, <2>1
<1>5. QED
  BY <1>4 DEF Check, Typed, TypeOK

LEMMA PressTyped == ASSUME Typed, NEW accepted \in BOOLEAN, Press(accepted) PROVE Typed'
<1>1. telemetry \in Telemetry /\ sim \in Connection /\ past \in Past
  BY DEF Typed, TypeOK, Connection, Past
<1> DEFINE m(s) == [kind |-> "press", side |-> {s}, serial |-> telemetry.serial]
           n == telemetry.serial
<1>2. PICK s \in telemetry.side :
        /\ telemetry' = [telemetry EXCEPT !.at = "sent", !.accepted = accepted,
                                          !.packets[s] = IF accepted THEN n ELSE 0]
        /\ sim' \in {sim, [sim EXCEPT !.line = Append(sim.line, m(s))]}
        /\ past' \in {past, [past EXCEPT !.sends[n][s] =
                               IF past.sends[n][s] < 2 THEN past.sends[n][s] + 1 ELSE 2]}
  BY DEF Press
<1>3. s \in Sides /\ m(s) \in Message /\ n \in 0..MaxSerial
  BY <1>1, <1>2 DEF Telemetry, Message
<1>4. telemetry' \in Telemetry
  <2>1. (IF accepted THEN n ELSE 0) \in 0..MaxSerial
    BY <1>3
  <2>2. QED
    BY <1>1, <1>2, <1>3, <2>1 DEF Telemetry
<1>5. sim' \in Connection
  <2> HIDE DEF m
  <2>1. sim.line \in Seq(Message) /\ Append(sim.line, m(s)) \in Seq(Message)
    BY <1>1, <1>3 DEF Connection
  <2>2. QED
    BY <1>1, <1>2, <2>1 DEF Connection
<1>6. past' \in Past /\ past'.resets = past.resets
  <2> DEFINE more == IF past.sends[n][s] < 2 THEN past.sends[n][s] + 1 ELSE 2
  <2>1. CASE n \notin Serials
    <3>1. [past.sends EXCEPT ![n][s] = more] = past.sends
      BY <1>1, <2>1 DEF Past
    <3>2. QED
      BY <1>1, <1>2, <3>1 DEF Past
  <2>2. CASE n \in Serials
    <3>1. more \in 0..2
      BY <1>1, <1>3, <2>2 DEF Past
    <3> HIDE DEF more
    <3>2. [past.sends EXCEPT ![n][s] = more] \in [Serials -> [Sides -> 0..2]]
      BY <1>1, <1>3, <2>2, <3>1 DEF Past
    <3>3. past' \in {past, [past EXCEPT !.sends[n][s] = more]}
      BY <1>2 DEF more
    <3>4. QED
      BY <1>1, <3>2, <3>3 DEF Past
  <2>3. QED
    BY <2>1, <2>2
<1>7. QED
  BY <1>4, <1>5, <1>6 DEF Press, Typed, TypeOK, Connection, Past

LEMMA SentTyped == ASSUME Typed, Sent PROVE Typed'
<1>1. telemetry \in Telemetry /\ command \in Command /\ past \in Past
  BY DEF Typed, TypeOK, Past
<1>2. command' \in Command
  BY <1>1, SentTypes DEF Sent, Telemetry
<1>3. telemetry' \in Telemetry
  <2>1. telemetry' \in {[telemetry EXCEPT !.at = "loop", !.side = {}],
                        [telemetry EXCEPT !.at = "check", !.side = {}]}
    BY DEF Sent
  <2>2. QED
    BY <1>1, <2>1 DEF Telemetry
<1>4. past' \in Past /\ past'.resets = past.resets
  BY <1>1, <1>2, SeenTypes DEF Sent
<1>5. QED
  BY <1>2, <1>3, <1>4 DEF Sent, Typed, TypeOK, Past

LEMMA UpdateTyped ==
  ASSUME Typed, NEW connected \in BOOLEAN, NEW permitted \in BOOLEAN, Update(connected, permitted)
  PROVE  Typed'
<1>1. command \in Command /\ settings \in Request /\ past \in Past /\ session \in Epochs
      /\ bridge \in Bridge
  BY DEF Typed, TypeOK, Past, Bridge
<1> DEFINE r == IF connected THEN settings ELSE NoRequest
<1>2. r \in Request /\ (connected /\ permitted) \in BOOLEAN
  BY <1>1, EmptyTypes
<1>3. command' = update(command, r, connected /\ permitted)
  BY DEF Update
<1> HIDE DEF r
<1>4. command' \in Command
  BY <1>1, <1>2, <1>3, UpdateTypes
<1>5. past' \in Past /\ past'.resets = past.resets
  BY <1>1, <1>4, SeenTypes DEF Update
<1>6. bridge' \in Bridge
  BY <1>1 DEF Update, Bridge
<1>7. QED
  BY <1>4, <1>5, <1>6 DEF Update, Typed, TypeOK, Past, Bridge

LEMMA PassTyped ==
  ASSUME Typed, Acknowledge \/ Publish
  PROVE  Typed'
<1>1. command \in Command /\ bridge \in Bridge /\ lamps \in Lamps
  BY DEF Typed, TypeOK, Bridge
<1>2. CASE Acknowledge
  <2>1. command.latest.serial \in 0..MaxSerial /\ command.pending \in SUBSET Sides
    BY <1>1 DEF Command, Request
  <2>2. bridge' \in Bridge
    BY <1>1, <1>2, <2>1 DEF Acknowledge, Bridge
  <2>3. QED
    BY <1>2, <2>2 DEF Acknowledge, Typed, TypeOK, Bridge
<1>3. CASE Publish
  <2> DEFINE fresh == lamps.valid /\ lamps.age <= PermissionAge
             mask == IF fresh THEN lamps.on ELSE {}
  <2>1. fresh \in BOOLEAN /\ mask \in SUBSET Sides
    BY <1>1 DEF Lamps
  <2>2. status' = [valid |-> fresh, epoch |-> bridge.epoch, mask |-> mask,
                   seen |-> bridge.seen, pending |-> bridge.pending]
    BY <1>3 DEF Publish
  <2> HIDE DEF fresh, mask
  <2>3. status' \in Status
    BY <1>1, <2>1, <2>2 DEF Bridge, Status
  <2>4. bridge' \in Bridge
    BY <1>1, <1>3 DEF Publish, Bridge
  <2>5. QED
    BY <1>3, <2>3, <2>4 DEF Publish, Typed, TypeOK, Bridge, Status
<1>4. QED
  BY <1>2, <1>3

\* The companion's settings for the published session.
LEMMA SyncedTypes ==
  ASSUME settings \in Request, status \in Status
  PROVE  Synced \in Request
<1> DEFINE n == IF settings.serial \in {0, MaxSerial} THEN settings.serial ELSE settings.serial + 1
<1>1. n \in 0..MaxSerial
  BY DEF Request
<1>2. Synced \in {settings, [serial |-> n, epoch |-> status.epoch, selected |-> {}, desired |-> {}]}
  BY DEF Synced
<1> HIDE DEF n
<1>3. QED
  BY <1>1, <1>2 DEF Request, Status

LEMMA CompanionTyped ==
  ASSUME Typed, SyncSession \/ (\E affected \in Actions : Shortcut(affected))
  PROVE  Typed'
<1>1. settings \in Request /\ status \in Status /\ past \in Past
  BY DEF Typed, TypeOK, Status, Past
<1>2. Synced \in Request
  BY <1>1, SyncedTypes
<1>3. CASE SyncSession
  BY <1>2, <1>3 DEF SyncSession, Typed, TypeOK
<1>4. ASSUME NEW affected \in Actions, Shortcut(affected)
      PROVE  Typed'
  <2> DEFINE s == Synced
             waiting == Unanswered(s)
             mask == (status.mask \ waiting) \cup (s.desired \cap waiting)
             target == toggle_sides(mask, affected)
             last == IF s.serial > status.seen THEN s.serial ELSE status.seen
             chosen == Kept(s, waiting, affected) \cup (target \cap affected)
  <2>1. affected \in SUBSET Sides /\ waiting \in SUBSET Sides /\ s \in Request
    BY <1>1, <1>2 DEF Unanswered, Request, Status
  <2>2. last + 1 \in 0..MaxSerial
    <3>1. last \in 0..MaxSerial
      BY <1>1, <2>1 DEF Request, Status
    <3>2. last < MaxSerial
      BY <1>4 DEF Shortcut, SerialLeft
    <3> HIDE DEF last
    <3>3. QED
      BY <3>1, <3>2
  <2>3. chosen \in SUBSET Sides /\ waiting \cup affected \in SUBSET Sides
    BY <2>1 DEF Kept, Request
  <2>4. settings' = [serial |-> last + 1, epoch |-> s.epoch, selected |-> waiting \cup affected,
                     desired |-> chosen]
    BY <1>4 DEF Shortcut
  <2>5. settings' \in Request
    <3> HIDE DEF s, waiting, last, chosen
    <3>1. QED
      BY <2>1, <2>2, <2>3, <2>4 DEF Request
  <2>6. past' \in Past /\ past'.resets = past.resets
    <3>1. past' = [past EXCEPT !.intent = toggle_sides(past.intent, affected)]
      BY <1>4 DEF Shortcut
    <3>2. toggle_sides(past.intent, affected) \in SUBSET Sides
      BY <1>1, <2>1 DEF toggle_sides, Past
    <3>3. QED
      BY <1>1, <3>1, <3>2 DEF Past
  <2>7. QED
    BY <1>4, <2>5, <2>6 DEF Shortcut, Typed, TypeOK, Past
<1>5. QED
  BY <1>3, <1>4

LEMMA HandleTyped == ASSUME Typed, NEW outcome \in Outcomes, Handle(outcome) PROVE Typed'
<1> DEFINE m == Head(sim.line)
           lampsReply == [kind |-> "lamps", sides |-> sim.on, serial |-> 0]
           refusal == [kind |-> "refused", sides |-> m.side, serial |-> m.serial]
           toggled == (sim.on \ m.side) \cup (m.side \ sim.on)
<1>1. sim \in Connection
  BY DEF Typed, TypeOK, Connection
<1>2. m \in Message /\ Tail(sim.line) \in Seq(Message)
  BY <1>1, HeadTail DEF Handle, Connection
<1>3. lampsReply \in Reply /\ refusal \in Reply /\ toggled \in SUBSET Sides
  BY <1>1, <1>2 DEF Connection, Message, Reply
<1>4. /\ sim'.on \in {toggled, sim.on} /\ sim'.line = Tail(sim.line)
      /\ sim'.replies \in {sim.replies, Append(sim.replies, lampsReply), Append(sim.replies, refusal)}
      /\ sim' = [on |-> sim'.on, line |-> sim'.line, replies |-> sim'.replies]
  BY DEF Handle
<1>5. sim'.replies \in Seq(Reply)
  <2> HIDE DEF lampsReply, refusal
  <2>1. sim.replies \in Seq(Reply)
    BY <1>1 DEF Connection
  <2>2. Append(sim.replies, lampsReply) \in Seq(Reply) /\ Append(sim.replies, refusal) \in Seq(Reply)
    <3> DEFINE replies == sim.replies
    <3> HIDE DEF replies
    <3>1. replies \in Seq(Reply)
      BY <2>1 DEF replies
    <3>2. \A r \in Reply : Append(replies, r) \in Seq(Reply)
      <4> DEFINE R == Reply
      <4> HIDE DEF R
      <4>1. \A r \in R : Append(replies, r) \in Seq(R)
        BY <3>1, AppendProperties DEF R
      <4>2. QED
        BY <4>1 DEF R
    <3>3. QED
      BY <1>3, <3>2 DEF replies
  <2>3. QED
    BY <1>4, <2>1, <2>2
<1>6. sim'.on \in SUBSET Sides /\ sim'.line \in Seq(Message)
  <2> HIDE DEF toggled
  <2>1. QED
    BY <1>1, <1>2, <1>3, <1>4 DEF Connection
<1>7. sim' \in Connection
  BY <1>4, <1>5, <1>6 DEF Connection
<1>8. QED
  BY <1>7 DEF Handle, Typed, TypeOK, Connection

LEMMA HandPressTyped == ASSUME Typed, NEW s \in Sides, HandPress(s) PROVE Typed'
<1>1. sim \in Connection /\ past \in Past
  BY DEF Typed, TypeOK, Connection, Past
<1>2. sim' \in Connection
  <2>1. sim' = [sim EXCEPT !.on = (sim.on \ {s}) \cup ({s} \ sim.on)]
    BY DEF HandPress
  <2>2. QED
    BY <1>1, <2>1 DEF Connection
<1>3. past' \in Past /\ past'.resets = past.resets
  <2>1. past' = [past EXCEPT !.hands = past.hands + 1] /\ past.hands + 1 \in 0..MaxHands
    BY <1>1 DEF HandPress, Past
  <2>2. QED
    BY <1>1, <2>1 DEF Past
<1>4. QED
  BY <1>2, <1>3 DEF HandPress, Typed, TypeOK, Connection, Past

LEMMA TickTyped == ASSUME Typed, Tick PROVE Typed'
<1>1. command \in Command /\ lamps \in Lamps
  BY DEF Typed, TypeOK
<1>2. /\ Older(command.permissionAge, PermissionAge + 1) \in 0..PermissionAge + 1
      /\ Older(command.age, Lifetime) \in 0..Lifetime
      /\ Older(lamps.age, PermissionAge + 1) \in 0..PermissionAge + 1
  BY <1>1, OlderTypes DEF Command, Lamps
<1>3. command' \in Command
  BY <1>1, <1>2 DEF Tick, Command
<1>4. lamps' \in Lamps
  BY <1>1, <1>2 DEF Tick, Lamps
<1>5. QED
  BY <1>3, <1>4 DEF Tick, Typed, TypeOK

LEMMA NextTyped == ASSUME Typed, Next PROVE Typed'
<1>1. CASE TelemetryStep
  BY <1>1, RequestLampsTyped, ReceiveLampsTyped, ReceiveRefusalTyped, ChangeSessionTyped,
     StepTyped, CheckTyped, PressTyped, SentTyped DEF TelemetryStep
<1>2. CASE BridgeStep
  BY <1>2, UpdateTyped, SelectProfileTyped, PassTyped DEF BridgeStep
<1>3. CASE SyncSession \/ (\E affected \in Actions : Shortcut(affected))
  BY <1>3, CompanionTyped
<1>4. CASE (\E outcome \in Outcomes : Handle(outcome)) \/ (\E s \in Sides : HandPress(s)) \/ Tick
  BY <1>4, HandleTyped, HandPressTyped, TickTyped
<1>5. QED
  BY <1>1, <1>2, <1>3, <1>4 DEF Next

LEMMA TypedAlways == Spec => []Typed
<1>1. Init => Typed
  <2> SUFFICES ASSUME Init PROVE Typed
    OBVIOUS
  <2>1. command \in Command
    BY EmptyTypes DEF Init, Command
  <2>2. lamps \in Lamps /\ telemetry \in Telemetry
    BY DEF Init, Lamps, Telemetry
  <2>3. bridge \in Bridge /\ status \in Status /\ session \in Epochs
    BY DEF Init, Bridge, Status, Epochs
  <2>4. settings \in Request
    BY EmptyTypes DEF Init
  <2>5. sim \in Connection
    <3>1. << >> \in Seq(Message) /\ << >> \in Seq(Reply)
      BY EmptySeq
    <3>2. sim \in [on : SUBSET Sides, line : {<< >>}, replies : {<< >>}]
      BY DEF Init
    <3>3. \A line \in Seq(Message), replies \in Seq(Reply) :
            [on : SUBSET Sides, line : {line}, replies : {replies}] \subseteq Connection
      <4> DEFINE LM == Seq(Message)  LR == Seq(Reply)
      <4> HIDE DEF LM, LR
      <4>1. \A line \in LM, replies \in LR :
              [on : SUBSET Sides, line : {line}, replies : {replies}]
                \subseteq [on : SUBSET Sides, line : LM, replies : LR]
        OBVIOUS
      <4>2. QED
        BY <4>1 DEF LM, LR, Connection
    <3>4. QED
      BY <3>1, <3>2, <3>3
  <2>6. past \in Past /\ session <= past.resets + 1
    <3>1. [n \in Serials |-> [s \in Sides |-> 0]] \in [Serials -> [Sides -> 0..2]]
      OBVIOUS
    <3>2. QED
      BY <2>5, <3>1 DEF Init, Past, Connection
  <2>7. QED
    BY <2>1, <2>2, <2>3, <2>4, <2>5, <2>6 DEF Typed, TypeOK, Bridge, Status, Connection, Past
<1>2. Typed /\ [Next]_vars => Typed'
  <2> SUFFICES ASSUME Typed, [Next]_vars PROVE Typed'
    OBVIOUS
  <2>1. CASE Next
    BY <2>1, NextTyped
  <2>2. CASE UNCHANGED vars
    BY <2>2 DEF vars, Typed, TypeOK
  <2>3. QED
    BY <2>1, <2>2
<1>3. QED
  BY <1>1, <1>2, PTL DEF Spec

(***************************************************************************)
(* Every field keeps its type; no serial leaves its width.                 *)
(***************************************************************************)
\* The serials of requests never pass the largest std::uint64_t, the ages stay in
\* their ranges and masks within the sides.
THEOREM TypeCorrect == Spec => []TypeOK
<1>1. Typed => TypeOK
  BY DEF Typed
<1>2. QED
  BY <1>1, TypedAlways, PTL
-----------------------------------------------------------------------------
(* No request presses a button twice. *)

Requested == command.latest.serial

\* The press of the last request for s is under way, as far as is known.
Flying(s) ==
    /\ command.flights[s].active
    /\ command.flights[s].serial = Requested
    /\ command.flights[s].desired = (s \in command.latest.desired)

\* It has left and sent() is still to record it.
Leaving(s) ==
    /\ telemetry.at = "sent" /\ telemetry.accepted
    /\ telemetry.side = {s} /\ telemetry.serial = Requested

AtMostOnce == \A n \in Serials, s \in Sides : past.sends[n][s] <= 1

\* Requests not yet consumed have sent nothing.
FutureUnsent == \A n \in Serials, s \in Sides : n > Requested => past.sends[n][s] = 0

\* What the last request still waits for is unsent, or its press is accounted for.
Accounted ==
    \A s \in command.pending :
        Requested \in Serials /\ (past.sends[Requested][s] = 0 \/ Flying(s) \/ Leaving(s))

\* The decision being carried out is the last request's, or one that was
\* superseded before it pressed anything.
Decided ==
    telemetry.at # "loop" =>
        /\ telemetry.serial \in 1..Requested
        /\ telemetry.serial = Requested => telemetry.desired = command.latest.desired
        /\ telemetry.serial < Requested => \A s \in Sides : past.sends[Requested][s] = 0

\* The side about to be pressed was not pressed for the decision.
Pressing ==
    /\ telemetry.at \in {"press", "sent"} => \E s \in Sides : telemetry.side = {s}
    /\ telemetry.at = "press" => \A s \in telemetry.side : past.sends[telemetry.serial][s] = 0

Counted == AtMostOnce /\ FutureUnsent /\ Accounted /\ Decided /\ Pressing

LEMMA InitCounted == ASSUME Init PROVE Counted
<1>1. \A n \in Serials, s \in Sides : past.sends[n][s] = 0
  BY DEF Init
<1>2. command.pending = {} /\ telemetry.at = "loop"
  BY DEF Init
<1>3. QED
  BY <1>1, <1>2 DEF Counted, AtMostOnce, FutureUnsent, Accounted, Decided, Pressing

\* The last request, the decision and the presses stay; sides are only retired,
\* and no press of a side still waited for is forgotten.
LEMMA SameRequest ==
  ASSUME Counted,
         command'.latest = command.latest, command'.pending \subseteq command.pending,
         \A s \in command'.pending : Flying(s) => Flying(s)',
         telemetry' = telemetry, past'.sends = past.sends
  PROVE  Counted'
<1>1. Requested' = Requested
  BY DEF Requested
<1>2. \A s : Leaving(s)' = Leaving(s)
  BY <1>1 DEF Leaving
<1>3. AtMostOnce' /\ FutureUnsent'
  BY <1>1 DEF Counted, AtMostOnce, FutureUnsent
<1>4. Accounted'
  BY <1>1, <1>2 DEF Counted, Accounted
<1>5. Decided' /\ Pressing'
  BY <1>1 DEF Counted, Decided, Pressing
<1>6. QED
  BY <1>3, <1>4, <1>5 DEF Counted

\* The steps that leave the command and the decision alone.
LEMMA IdleCounted ==
  ASSUME Counted, UNCHANGED <<command, telemetry>>, past'.sends = past.sends
  PROVE  Counted'
<1>1. \A s : Flying(s)' = Flying(s)
  BY DEF Flying, Requested
<1>2. QED
  BY <1>1, SameRequest

\* fail() and reject() keep the request and its presses; they retire every side.
LEMMA FailKeeps ==
  ASSUME NEW c \in Command
  PROVE  fail(c).latest = c.latest /\ fail(c).flights = c.flights /\ fail(c).pending = {}
  BY DEF fail, reject, Command

LEMMA UpdateCounted ==
  ASSUME Typed, Counted, NEW connected \in BOOLEAN, NEW permitted \in BOOLEAN,
         Update(connected, permitted)
  PROVE  Counted'
<1> DEFINE r == IF connected THEN settings ELSE NoRequest
           ok == connected /\ permitted
           p == [command EXCEPT !.permission = ok, !.permissionAge = 0]
           q == IF ok THEN p ELSE fail(p)
           next == [q EXCEPT !.latest = r, !.pending = r.selected, !.failed = FALSE, !.age = 0]
<1>1. command \in Command /\ r \in Request /\ ok \in BOOLEAN
  BY EmptyTypes DEF Typed, TypeOK
<1>2. command' = update(command, r, ok) /\ telemetry' = telemetry
  BY DEF Update
<1>3. past'.sends = past.sends
  BY DEF Update, Seen, Typed, TypeOK
<1>4. p \in Command
  <2>1. 0 \in 0..PermissionAge + 1
    OBVIOUS
  <2>2. QED
    BY <1>1, <2>1 DEF Command
<1>5. /\ q \in Command /\ q.latest = command.latest /\ q.flights = command.flights
      /\ q.pending \subseteq command.pending
  <2>1. p.latest = command.latest /\ p.flights = command.flights /\ p.pending = command.pending
    BY <1>1 DEF Command
  <2> HIDE DEF p, ok
  <2>2. QED
    BY <1>4, <2>1, FailKeeps, FailTypes
<1>6. CASE r.serial # 0 /\ r.serial > q.latest.serial
  <2>1. command' = IF r.selected # {} /\ (~ok \/ r.epoch # session) THEN reject(next) ELSE next
    <3> HIDE DEF r, ok
    <3>1. command' = Consumed(q, r, ok)
      BY <1>2, <1>6 DEF update
    <3>2. QED
      BY <3>1 DEF Consumed
  <2>2. next \in Command /\ next.latest = r /\ next.flights = q.flights
    <3> HIDE DEF r, q
    <3>1. 0 \in 0..Lifetime
      OBVIOUS
    <3>2. QED
      BY <1>1, <1>5, <3>1 DEF Command, Request
  <2>3. command'.latest = r
    <3> HIDE DEF next, r, ok
    <3>1. QED
      BY <2>1, <2>2 DEF reject, Command
  <2>4. /\ Requested' = r.serial /\ Requested' \in Serials /\ Requested' > Requested
        /\ Requested \in 0..MaxSerial
    <3> HIDE DEF r, q
    <3>1. QED
      BY <1>1, <1>5, <1>6, <2>3 DEF Requested, Request, Serials, Command
  <2>5. \A s \in Sides : past.sends[Requested'][s] = 0
    BY <2>4 DEF Counted, FutureUnsent
  <2>6. command'.pending \subseteq Sides
    <3> HIDE DEF next, r, ok
    <3>1. command' \in Command
      BY <2>1, <2>2, FailTypes
    <3>2. QED
      BY <3>1 DEF Command
  <2>7. AtMostOnce'
    BY <1>3 DEF Counted, AtMostOnce
  <2>8. FutureUnsent'
    <3>1. \A n \in Serials : n > Requested' => n > Requested
      BY <2>4 DEF Serials
    <3>2. QED
      BY <1>3, <3>1 DEF Counted, FutureUnsent
  <2>9. Accounted'
    BY <1>3, <2>4, <2>5, <2>6 DEF Accounted
  <2>10. Decided'
    <3>1. telemetry.at # "loop" =>
            telemetry.serial \in 1..Requested' /\ telemetry.serial < Requested'
      BY <2>4 DEF Counted, Decided, Serials
    <3>2. QED
      BY <1>2, <1>3, <2>4, <2>5, <3>1 DEF Decided, Serials
  <2>11. Pressing'
    BY <1>2, <1>3 DEF Counted, Pressing
  <2>12. QED
    BY <2>7, <2>8, <2>9, <2>10, <2>11 DEF Counted
<1>7. CASE ~(r.serial # 0 /\ r.serial > q.latest.serial)
  <2>1. command' \in {q, fail(q)}
    <3>1. update(command, r, ok) \in {q, fail(q)}
      <4> HIDE DEF r, ok
      <4>1. r.serial \in Nat /\ q.latest.serial \in Nat
        BY <1>1, <1>5 DEF Request, Command
      <4>2. QED
        BY <1>7, <4>1 DEF update
    <3>2. QED
      BY <1>2, <3>1
  <2>2. /\ command'.latest = command.latest /\ command'.flights = command.flights
        /\ command'.pending \subseteq command.pending
    <3> HIDE DEF q
    <3>1. QED
      BY <1>5, <2>1, FailKeeps
  <2>3. \A s : Flying(s) => Flying(s)'
    BY <2>2 DEF Flying, Requested
  <2>4. QED
    BY <1>2, <1>3, <2>2, <2>3, SameRequest
<1>8. QED
  BY <1>6, <1>7

LEMMA ResetCounted ==
  ASSUME Typed, Counted, command' = reset_session(command),
         telemetry' = telemetry, past'.sends = past.sends
  PROVE  Counted'
<1>1. command'.latest = command.latest /\ command'.pending = {}
  BY FailTypes, FailKeeps, ZenonT(30) DEF reset_session, Typed, TypeOK, Command
<1>2. QED
  BY <1>1, SameRequest

LEMMA ReceiveLampsCounted ==
  ASSUME Typed, Counted, NEW valid \in BOOLEAN, NEW later \in BOOLEAN, ReceiveLamps(valid, later)
  PROVE  Counted'
<1>1. /\ command'.latest = command.latest /\ command'.pending = command.pending
      /\ \A s \in Sides : /\ command'.flights[s].active = command.flights[s].active
                          /\ command'.flights[s].serial = command.flights[s].serial
                          /\ command'.flights[s].desired = command.flights[s].desired
  <2> DEFINE flying(s) == [command.flights[s] EXCEPT
                             !.newer = @ \/ (valid /\ later /\ command.flights[s].active)]
  <2>1. command' = [command EXCEPT !.flights = [s \in Sides |-> flying(s)]]
    BY DEF ReceiveLamps
  <2>2. command \in Command
    BY DEF Typed, TypeOK
  <2>3. \A s \in Sides : /\ flying(s).active = command.flights[s].active
                         /\ flying(s).serial = command.flights[s].serial
                         /\ flying(s).desired = command.flights[s].desired
    BY <2>2 DEF Command, Flight
  <2> HIDE DEF flying
  <2>4. /\ command'.latest = command.latest /\ command'.pending = command.pending
        /\ \A s \in Sides : command'.flights[s] = flying(s)
    BY <2>1, <2>2 DEF Command
  <2>5. QED
    BY <2>3, <2>4
<1>2. command.pending \subseteq Sides
  BY DEF Typed, TypeOK, Command
<1>3. \A s \in command'.pending : Flying(s) => Flying(s)'
  BY <1>1, <1>2 DEF Flying, Requested
<1>4. UNCHANGED <<telemetry, past>>
  BY DEF ReceiveLamps
<1>5. QED
  BY <1>1, <1>3, <1>4, SameRequest

\* A refused press of the last request fails it.
LEMMA ReceiveRefusalCounted == ASSUME Typed, Counted, ReceiveRefusal PROVE Counted'
<1> DEFINE reply == Head(sim.replies)
           named == {s \in reply.sides : telemetry.packets[s] = reply.serial}
<1>1. CASE named = {}
  BY <1>1, IdleCounted DEF ReceiveRefusal
<1>2. CASE named # {}
  <2>1. PICK s \in named : /\ command' = rejected(command, s)
                           /\ telemetry' = [telemetry EXCEPT !.packets[s] = 0]
    BY <1>2 DEF ReceiveRefusal
  <2>2. s \in Sides
    <3>1. reply \in Reply
      BY HeadTail DEF ReceiveRefusal, Typed, TypeOK
    <3>2. QED
      BY <2>1, <3>1 DEF Reply
  <2>3. /\ telemetry'.at = telemetry.at /\ telemetry'.at = "loop"
    BY <2>1 DEF ReceiveRefusal, Typed, TypeOK, Telemetry
  <2>4. past'.sends = past.sends
    BY <1>2 DEF ReceiveRefusal, Seen, Typed, TypeOK
  <2> DEFINE cleared == [command EXCEPT !.flights[s] = NoFlight]
  <2>5. /\ cleared \in Command /\ cleared.latest = command.latest
        /\ cleared.pending = command.pending
        /\ \A t \in Sides \ {s} : cleared.flights[t] = command.flights[t]
    BY <2>2, EmptyTypes DEF Typed, TypeOK, Command
  <2>6. /\ command'.latest = command.latest /\ command'.pending \subseteq command.pending
        /\ \A t \in command'.pending : Flying(t) => Flying(t)'
    <3>1. CASE ~command.flights[s].active
      BY <2>1, <3>1 DEF rejected, Flying, Requested
    <3>2. CASE command.flights[s].active /\ command.flights[s].serial = command.latest.serial
      <4>1. command' = fail(cleared)
        BY <2>1, <3>2 DEF rejected
      <4> HIDE DEF cleared
      <4>2. QED
        BY <2>5, <4>1, FailKeeps
    <3>3. CASE command.flights[s].active /\ command.flights[s].serial # command.latest.serial
      <4>1. command' = cleared
        BY <2>1, <3>3 DEF rejected
      <4>2. command'.latest = command.latest /\ command'.pending = command.pending
        BY <2>5, <4>1
      <4>3. ~Flying(s)
        BY <3>3 DEF Flying, Requested
      <4>4. \A t \in Sides \ {s} : Flying(t) => Flying(t)'
        BY <2>5, <4>1 DEF Flying, Requested
      <4>5. command.pending \subseteq Sides
        BY DEF Typed, TypeOK, Command
      <4>6. QED
        BY <4>2, <4>3, <4>4, <4>5
    <3>4. QED
      BY <3>1, <3>2, <3>3 DEF Typed, TypeOK, Command, Flight
  <2>7. Requested' = Requested
    BY <2>6 DEF Requested
  <2>8. AtMostOnce' /\ FutureUnsent'
    BY <2>4, <2>7 DEF Counted, AtMostOnce, FutureUnsent
  <2>9. Accounted'
    BY <2>3, <2>4, <2>6, <2>7 DEF Counted, Accounted, Leaving
  <2>10. Decided' /\ Pressing'
    BY <2>3 DEF Decided, Pressing
  <2>11. QED
    BY <2>8, <2>9, <2>10 DEF Counted
<1>3. QED
  BY <1>1, <1>2

\* A side that step() still waits for keeps its press under way: one whose lamp
\* acknowledges the last request's press is done.
LEMMA StepCounted == ASSUME Typed, Counted, NEW identity \in BOOLEAN, Step(identity) PROVE Counted'
<1> DEFINE c == Expired(command)
           usable == identity /\ lamps.valid /\ lamps.age <= PermissionAge
<1>1. /\ c \in Command /\ c.latest = command.latest /\ c.flights = command.flights
      /\ c.pending \subseteq command.pending
  BY FailTypes, FailKeeps DEF Expired, Typed, TypeOK
<1>2. telemetry.at = "loop" /\ past'.sends = past.sends
  BY DEF Step, Seen, Typed, TypeOK
<1>3. command' = IF usable THEN Observed(c) ELSE c
  BY DEF Step
<1>4. telemetry' \in {telemetry, [telemetry EXCEPT !.at = "check", !.todo = ToSend(c),
                                   !.serial = c.latest.serial, !.desired = c.latest.desired]}
  BY DEF Step
<1>5. telemetry' = telemetry \/ ToSend(c) # {}
  BY DEF Step
<1>6. command'.latest = command.latest /\ command'.pending \subseteq command.pending
  <2> HIDE DEF c, usable
  <2>1. QED
    BY <1>1, <1>3 DEF Observed, Command
<1>7. \A s \in command'.pending : Flying(s) => Flying(s)'
  <2> SUFFICES ASSUME NEW s \in command'.pending, Flying(s) PROVE Flying(s)'
    OBVIOUS
  <2> HIDE DEF c, usable
  <2>1. s \in Sides /\ s \in command.pending
    BY <1>6 DEF Typed, TypeOK, Command
  <2>2. CASE usable
    <3>1. command'.flights[s] = IF Acknowledged(c, s) THEN NoFlight ELSE c.flights[s]
      BY <1>1, <1>3, <2>1, <2>2 DEF Observed, Command
    <3>2. s \in c.pending /\ s \notin Done(c)
      BY <1>1, <1>3, <2>2 DEF Observed, Command
    <3>3. ~Acknowledged(c, s)
      <4> SUFFICES ASSUME Acknowledged(c, s) PROVE FALSE
        OBVIOUS
      <4>1. c.flights[s].desired = (s \in c.latest.desired)
        BY <1>1 DEF Flying
      <4>2. (s \in lamps.on) = (s \in c.latest.desired)
        BY <4>1 DEF Acknowledged
      <4>3. s \in Idle(c) \cap c.pending
        BY <2>1, <3>2 DEF Idle
      <4>4. QED
        BY <3>2, <4>2, <4>3 DEF Done
    <3>4. QED
      BY <1>1, <1>6, <3>1, <3>3 DEF Flying, Requested
  <2>3. CASE ~usable
    BY <1>1, <1>3, <2>3 DEF Flying, Requested
  <2>4. QED
    BY <2>2, <2>3
<1>8. CASE telemetry' = telemetry
  BY <1>2, <1>6, <1>7, <1>8, SameRequest
<1>9. CASE telemetry' # telemetry
  <2> HIDE DEF c, usable
  <2>1. /\ telemetry'.at = "check" /\ telemetry'.serial = Requested
        /\ telemetry'.desired = command.latest.desired
    <3>1. telemetry \in Telemetry
      BY DEF Typed, TypeOK
    <3>2. telemetry' = [telemetry EXCEPT !.at = "check", !.todo = ToSend(c),
                                         !.serial = c.latest.serial, !.desired = c.latest.desired]
      BY <1>4, <1>9
    <3>3. /\ telemetry'.at = "check" /\ telemetry'.serial = c.latest.serial
          /\ telemetry'.desired = c.latest.desired
      BY <3>1, <3>2 DEF Telemetry
    <3>4. QED
      BY <1>1, <3>3 DEF Requested
  <2>2. Requested \in Serials /\ Requested' = Requested
    <3>1. ToSend(c) \subseteq command.pending
      BY <1>1 DEF ToSend
    <3>2. QED
      BY <1>5, <1>6, <1>9, <3>1 DEF Counted, Accounted, Requested
  <2>3. AtMostOnce' /\ FutureUnsent'
    BY <1>2, <2>2 DEF Counted, AtMostOnce, FutureUnsent
  <2>4. Accounted'
    BY <1>2, <1>6, <1>7, <2>2 DEF Counted, Accounted, Leaving
  <2>5. Decided' /\ Pressing'
    BY <1>6, <2>1, <2>2 DEF Decided, Pressing, Serials
  <2>6. QED
    BY <2>3, <2>4, <2>5 DEF Counted
<1>10. QED
  BY <1>8, <1>9

\* A side that is current and has no press under way was not pressed.
LEMMA CheckCounted == ASSUME Typed, Counted, NEW ready \in BOOLEAN, Check(ready) PROVE Counted'
<1>1. PICK s \in telemetry.todo :
        telemetry' = IF ready /\ current(s)
                     THEN [telemetry EXCEPT !.at = "press", !.todo = telemetry.todo \ {s},
                                            !.side = {s}]
                     ELSE [telemetry EXCEPT !.at = IF telemetry.todo \ {s} = {} THEN "loop"
                                                                              ELSE "check",
                                            !.todo = telemetry.todo \ {s}]
  BY DEF Check
<1>2. telemetry.at = "check" /\ UNCHANGED <<command, past>> /\ s \in Sides
  BY DEF Check, Typed, TypeOK, Telemetry
<1>3. Requested' = Requested /\ (\A t : Flying(t)' = Flying(t))
  BY <1>2 DEF Requested, Flying
<1>4. /\ telemetry'.serial = telemetry.serial /\ telemetry'.desired = telemetry.desired
      /\ telemetry'.at \in {"loop", "check", "press"}
      /\ telemetry'.at = "press" => current(s) /\ telemetry'.side = {s}
  BY <1>1 DEF Typed, TypeOK, Telemetry
<1>5. AtMostOnce' /\ FutureUnsent'
  BY <1>2, <1>3 DEF Counted, AtMostOnce, FutureUnsent
<1>6. Accounted'
  <2>1. \A t : ~Leaving(t)
    BY <1>2 DEF Leaving
  <2>2. QED
    BY <1>2, <1>3, <2>1 DEF Counted, Accounted
<1>7. Decided'
  BY <1>2, <1>3, <1>4 DEF Counted, Decided
<1>8. Pressing'
  <2>1. current(s) => past.sends[telemetry.serial][s] = 0
    <3> SUFFICES ASSUME current(s) PROVE past.sends[Requested][s] = 0
      BY DEF current, Requested
    <3>1. s \in command.pending /\ ~Flying(s) /\ ~Leaving(s)
      BY <1>2 DEF current, Flying, Leaving
    <3>2. QED
      BY <3>1 DEF Counted, Accounted
  <2>2. QED
    BY <1>2, <1>4, <2>1 DEF Pressing
<1>9. QED
  BY <1>5, <1>6, <1>7, <1>8 DEF Counted

LEMMA PressCounted == ASSUME Typed, Counted, NEW accepted \in BOOLEAN, Press(accepted) PROVE Counted'
<1>1. PICK s \in telemetry.side :
        /\ telemetry' = [telemetry EXCEPT !.at = "sent", !.accepted = accepted,
                                          !.packets[s] = IF accepted THEN telemetry.serial ELSE 0]
        /\ past' = IF accepted
                   THEN [past EXCEPT !.sends[telemetry.serial][s] = IF @ < 2 THEN @ + 1 ELSE 2]
                   ELSE past
  BY DEF Press
<1>2. telemetry.at = "press" /\ command' = command
  BY DEF Press
<1>3. s \in Sides /\ telemetry.side = {s}
  BY <1>1, <1>2 DEF Counted, Pressing
<1>4. telemetry.serial \in 1..Requested /\ Requested \in 0..MaxSerial /\ telemetry.serial \in Serials
  BY <1>2, SMTT(20) DEF Counted, Decided, Requested, Serials, Typed, TypeOK, Command, Request
<1>5. past.sends[telemetry.serial][s] = 0
  BY <1>1, <1>2 DEF Counted, Pressing
<1>6. Requested' = Requested /\ (\A t : Flying(t)' = Flying(t))
  BY <1>2 DEF Requested, Flying
<1>7. /\ telemetry'.serial = telemetry.serial /\ telemetry'.desired = telemetry.desired
      /\ telemetry'.at = "sent" /\ telemetry'.accepted = accepted /\ telemetry'.side = {s}
  BY <1>1, <1>3 DEF Typed, TypeOK, Telemetry
<1>8. /\ \A n \in Serials, t \in Sides :
           <<n, t>> # <<telemetry.serial, s>> => past'.sends[n][t] = past.sends[n][t]
      /\ past'.sends[telemetry.serial][s] = IF accepted THEN 1 ELSE 0
  <2>1. past \in [sends : [Serials -> [Sides -> 0..2]], intent : SUBSET Sides,
                  failed : BOOLEAN, hands : 0..MaxHands, resets : 0..MaxResets]
    BY DEF Typed, TypeOK
  <2>2. CASE accepted
    <3>1. past'.sends = [past.sends EXCEPT ![telemetry.serial][s] = 1]
      BY <1>1, <1>5, <2>1, <2>2
    <3>2. QED
      BY <1>3, <1>4, <2>1, <2>2, <3>1
  <2>3. CASE ~accepted
    BY <1>1, <1>5, <2>3
  <2>4. QED
    BY <2>2, <2>3
<1>9. AtMostOnce'
  BY <1>8 DEF Counted, AtMostOnce
<1>10. FutureUnsent'
  BY <1>4, <1>6, <1>8 DEF Counted, FutureUnsent, Serials
<1>11. Accounted'
  <2> SUFFICES ASSUME NEW t \in command.pending
               PROVE  Requested \in Serials
                      /\ (past'.sends[Requested][t] = 0 \/ Flying(t) \/ Leaving(t)')
    BY <1>2, <1>6 DEF Accounted
  <2>1. t \in Sides /\ Requested \in Serials
    BY DEF Counted, Accounted, Typed, TypeOK, Command
  <2>2. past.sends[Requested][t] = 0 \/ Flying(t)
    BY <1>2 DEF Counted, Accounted, Leaving
  <2>3. CASE <<Requested, t>> # <<telemetry.serial, s>>
    BY <1>8, <2>1, <2>2, <2>3
  <2>4. CASE <<Requested, t>> = <<telemetry.serial, s>>
    BY <1>6, <1>7, <1>8, <2>1, <2>4 DEF Leaving
  <2>5. QED
    BY <2>3, <2>4
<1>12. Decided'
  <2>1. telemetry.serial < Requested => \A t \in Sides : past'.sends[Requested][t] = 0
    BY <1>2, <1>4, <1>8 DEF Counted, Decided, Serials
  <2>2. QED
    BY <1>2, <1>6, <1>7, <2>1 DEF Counted, Decided
<1>13. Pressing'
  BY <1>3, <1>7 DEF Pressing
<1>14. QED
  BY <1>9, <1>10, <1>11, <1>12, <1>13 DEF Counted

\* The press is recorded under its own serial, whatever was asked for meanwhile.
LEMMA SentCounted == ASSUME Typed, Counted, Sent PROVE Counted'
<1>1. PICK s \in telemetry.side : command' = sent(command, s)
  BY DEF Sent
<1>2. telemetry.at = "sent" /\ past'.sends = past.sends
  BY DEF Sent, Seen, Typed, TypeOK
<1>3. s \in Sides /\ telemetry.side = {s}
  BY <1>1, <1>2 DEF Counted, Pressing
<1>4. /\ telemetry'.serial = telemetry.serial /\ telemetry'.desired = telemetry.desired
      /\ telemetry'.at \in {"loop", "check"}
  BY DEF Sent, Typed, TypeOK, Telemetry
<1>5. /\ command'.latest = command.latest /\ command'.pending \subseteq command.pending
      /\ \A t \in command'.pending \ {s} : command'.flights[t] = command.flights[t]
      /\ s \in command'.pending /\ telemetry.accepted =>
           command'.flights[s] = [active |-> TRUE, desired |-> s \in telemetry.desired,
                                  newer |-> FALSE, serial |-> telemetry.serial]
      /\ s \in command'.pending /\ ~telemetry.accepted =>
           command'.flights[s] = command.flights[s]
  <2>1. command \in Command
    BY DEF Typed, TypeOK
  <2>2. CASE telemetry.accepted
    BY <1>1, <1>3, <2>1, <2>2 DEF sent, Command
  <2>3. CASE ~telemetry.accepted
    BY <1>1, <2>1, <2>3, FailKeeps DEF sent
  <2>4. QED
    BY <2>2, <2>3
<1>6. Requested' = Requested
  BY <1>5 DEF Requested
<1>7. AtMostOnce' /\ FutureUnsent'
  BY <1>2, <1>6 DEF Counted, AtMostOnce, FutureUnsent
<1>8. Accounted'
  <2> SUFFICES ASSUME NEW t \in command'.pending
               PROVE  Requested \in Serials /\ (past.sends[Requested][t] = 0 \/ Flying(t)')
    BY <1>2, <1>6 DEF Accounted
  <2>1. /\ t \in Sides /\ Requested \in Serials
        /\ past.sends[Requested][t] = 0 \/ Flying(t) \/ Leaving(t)
    BY <1>5 DEF Counted, Accounted, Typed, TypeOK, Command
  <2>2. CASE t # s
    <3>1. ~Leaving(t)
      BY <1>3, <2>2 DEF Leaving
    <3>2. Flying(t) => Flying(t)'
      BY <1>5, <1>6, <2>2 DEF Flying
    <3>3. QED
      BY <2>1, <3>1, <3>2
  <2>3. CASE t = s /\ telemetry.accepted
    <3>1. CASE telemetry.serial = Requested
      <4>1. telemetry.desired = command.latest.desired
        BY <1>2, <3>1 DEF Counted, Decided
      <4>2. QED
        BY <1>5, <1>6, <2>1, <2>3, <3>1, <4>1 DEF Flying
    <3>2. CASE telemetry.serial # Requested
      <4>1. telemetry.serial < Requested
        BY <1>2, <2>1, <3>2 DEF Counted, Decided, Serials
      <4>2. QED
        BY <1>2, <2>1, <4>1 DEF Counted, Decided
    <3>3. QED
      BY <3>1, <3>2
  <2>4. CASE t = s /\ ~telemetry.accepted
    <3>1. ~Leaving(t)
      BY <2>4 DEF Leaving
    <3>2. Flying(t) => Flying(t)'
      BY <1>5, <1>6, <2>4 DEF Flying
    <3>3. QED
      BY <2>1, <3>1, <3>2
  <2>5. QED
    BY <2>2, <2>3, <2>4
<1>9. Decided'
  BY <1>2, <1>4, <1>5, <1>6 DEF Counted, Decided
<1>10. Pressing'
  BY <1>4 DEF Pressing
<1>11. QED
  BY <1>7, <1>8, <1>9, <1>10 DEF Counted

LEMMA TickCounted == ASSUME Typed, Counted, Tick PROVE Counted'
<1>1. /\ command'.latest = command.latest /\ command'.pending = command.pending
      /\ command'.flights = command.flights
  BY DEF Tick, Typed, TypeOK, Command
<1>2. \A s : Flying(s) => Flying(s)'
  BY <1>1 DEF Flying, Requested
<1>3. UNCHANGED <<telemetry, past>>
  BY DEF Tick
<1>4. QED
  BY <1>1, <1>2, <1>3, SameRequest

LEMMA NextCounted == ASSUME Typed, Counted, Next PROVE Counted'
<1>1. CASE TelemetryStep
  <2>1. CASE RequestLamps
    BY <2>1, IdleCounted DEF RequestLamps
  <2>2. CASE ChangeSession
    <3>1. past'.sends = past.sends
      BY <2>2 DEF ChangeSession, Typed, TypeOK
    <3>2. QED
      BY <2>2, <3>1, ResetCounted DEF ChangeSession
  <2>3. QED
    BY <1>1, <2>1, <2>2, ReceiveLampsCounted, ReceiveRefusalCounted, StepCounted,
       CheckCounted, PressCounted, SentCounted DEF TelemetryStep
<1>2. CASE BridgeStep
  <2>1. CASE SelectProfile
    <3>1. past'.sends = past.sends
      BY <2>1 DEF SelectProfile, Typed, TypeOK
    <3>2. QED
      BY <2>1, <3>1, ResetCounted DEF SelectProfile
  <2>2. CASE Acknowledge \/ Publish
    BY <2>2, IdleCounted DEF Acknowledge, Publish
  <2>3. QED
    BY <1>2, <2>1, <2>2, UpdateCounted DEF BridgeStep
<1>3. CASE SyncSession \/ (\E affected \in Actions : Shortcut(affected))
  <2>1. past'.sends = past.sends /\ UNCHANGED <<command, telemetry>>
    BY <1>3 DEF SyncSession, Shortcut, Typed, TypeOK
  <2>2. QED
    BY <2>1, IdleCounted
<1>4. CASE (\E outcome \in Outcomes : Handle(outcome)) \/ (\E s \in Sides : HandPress(s))
  <2>1. past'.sends = past.sends /\ UNCHANGED <<command, telemetry>>
    BY <1>4 DEF Handle, HandPress, Typed, TypeOK
  <2>2. QED
    BY <2>1, IdleCounted
<1>5. QED
  BY <1>1, <1>2, <1>3, <1>4, TickCounted DEF Next

LEMMA CountedAlways == Spec => []Counted
<1>1. Typed /\ Counted /\ [Next]_vars => Counted'
  <2> SUFFICES ASSUME Typed, Counted, [Next]_vars PROVE Counted'
    OBVIOUS
  <2>1. CASE Next
    BY <2>1, NextCounted
  <2>2. CASE UNCHANGED vars
    BY <2>2, IdleCounted DEF vars
  <2>3. QED
    BY <2>1, <2>2
<1>2. Init => Counted
  BY InitCounted
<1>3. QED
  BY <1>1, <1>2, TypedAlways, PTL DEF Spec

(***************************************************************************)
(* No request presses a button twice.                                      *)
(***************************************************************************)
\* Whatever timed out, was refused, reset, superseded or pressed by hand between
\* step()'s two looks at the lamps, TaxiButtonCommand sends a side's toggle at most
\* once for one request.
THEOREM PressedOnce == Spec => []OncePerRequest
<1>1. Typed /\ Counted => OncePerRequest
  <2> SUFFICES ASSUME Typed, Counted, NEW n \in Serials, NEW s \in Sides PROVE past.sends[n][s] < 2
    BY DEF OncePerRequest
  <2>1. past.sends[n][s] \in 0..2 /\ past.sends[n][s] <= 1
    BY DEF Counted, AtMostOnce, Typed, TypeOK
  <2>2. QED
    BY <2>1
<1>2. QED
  BY <1>1, TypedAlways, CountedAlways, PTL
-----------------------------------------------------------------------------
(* What is on its way for one side, on a connection c whose samples left the *)
(* lamps l.                                                                  *)

PressesOf(c, s) == {i \in DOMAIN c.line : c.line[i].kind = "press" /\ s \in c.line[i].side}
RefusalsOf(c, s) ==
    {i \in DOMAIN c.replies : c.replies[i].kind = "refused" /\ s \in c.replies[i].sides}

AtMostOne(indices) == \A i, j \in indices : i = j

\* The i-th reply, when it is a sample, shows s at "value".
Shows(c, i, s, value) == c.replies[i].kind = "lamps" => (s \in c.replies[i].sides) = value
AllShow(c, s, value) == \A i \in DOMAIN c.replies : Shows(c, i, s, value)

\* Once a sample shows the goal every later one does.
ThenAllShow(c, s, goal) ==
    \A i, j \in DOMAIN c.replies :
        i < j /\ c.replies[i].kind = "lamps" /\ (s \in c.replies[i].sides) = goal
            => Shows(c, j, s, goal)

\* No press: the lamps and every sample show the button as it is.
Still(c, l, s) ==
    /\ PressesOf(c, s) = {} /\ RefusalsOf(c, s) = {}
    /\ l.valid => (s \in l.on) = (s \in c.on)
    /\ AllShow(c, s, s \in c.on)

\* A press that has not flipped the button, and may never.
Coming(c, l, s, goal) ==
    /\ (s \in c.on) = ~goal
    /\ l.valid => (s \in l.on) = ~goal
    /\ AllShow(c, s, ~goal)
    /\ AtMostOne(PressesOf(c, s)) /\ AtMostOne(RefusalsOf(c, s))
    /\ PressesOf(c, s) = {} \/ RefusalsOf(c, s) = {}

\* A press that has, which some of the samples still to come were too early for.
Taken(c, l, s, goal) ==
    /\ PressesOf(c, s) = {} /\ RefusalsOf(c, s) = {}
    /\ (s \in c.on) = goal
    /\ l.valid /\ (s \in l.on) = goal => AllShow(c, s, goal)
    /\ ThenAllShow(c, s, goal)

\* A press of s for "goal" was sent, or none is under way.
Route(c, l, s, gone, goal) ==
    IF gone THEN Coming(c, l, s, goal) \/ Taken(c, l, s, goal) ELSE Still(c, l, s)

LEMMA TailAt ==
  ASSUME NEW S, NEW q \in Seq(S), q # << >>
  PROVE  /\ Head(q) = q[1] /\ 1 \in DOMAIN q
         /\ \A i \in DOMAIN Tail(q) : i \in Nat \ {0} /\ i + 1 \in DOMAIN q /\ Tail(q)[i] = q[i + 1]
         /\ \A i \in DOMAIN q : i \in Nat /\ (i # 1 => i - 1 \in DOMAIN Tail(q))
<1>1. Len(q) \in Nat /\ Len(q) # 0 /\ DOMAIN q = 1..Len(q) /\ Head(q) = q[1]
  BY EmptySeq
<1>2. DOMAIN Tail(q) = 1..Len(q) - 1 /\ \A i \in 1..Len(q) - 1 : Tail(q)[i] = q[i + 1]
  BY HeadTailProperties, <1>1
<1>3. QED
  BY <1>1, <1>2

LEMMA AppendAt ==
  ASSUME NEW S, NEW q \in Seq(S), NEW m \in S
  PROVE  \A i \in DOMAIN Append(q, m) :
           /\ i \in Nat
           /\ \/ i \in DOMAIN q /\ Append(q, m)[i] = q[i]
              \/ Append(q, m)[i] = m /\ i \notin DOMAIN q /\ \A j \in DOMAIN q : j < i
  OBVIOUS

\* The head of the line is handled.
LEMMA LineAdvances ==
  ASSUME NEW c \in Connection, NEW d \in Connection, c.line # << >>, d.line = Tail(c.line), NEW s
  PROVE  /\ PressesOf(c, s) = {} => PressesOf(d, s) = {}
         /\ AtMostOne(PressesOf(c, s)) => AtMostOne(PressesOf(d, s))
         /\ AtMostOne(PressesOf(c, s)) /\ Head(c.line).kind = "press" /\ s \in Head(c.line).side
              => PressesOf(d, s) = {}
<1>1. c.line \in Seq(Message)
  BY DEF Connection
<1> DEFINE q == c.line
           t == Tail(q)
<1>2. /\ Head(q) = q[1] /\ 1 \in DOMAIN q
      /\ \A i \in DOMAIN t : i \in Nat \ {0} /\ i + 1 \in DOMAIN q /\ t[i] = q[i + 1]
  BY <1>1, TailAt
<1>3. PressesOf(c, s) = {i \in DOMAIN q : q[i].kind = "press" /\ s \in q[i].side}
  BY DEF PressesOf
<1>4. PressesOf(d, s) = {i \in DOMAIN t : t[i].kind = "press" /\ s \in t[i].side}
  BY DEF PressesOf
<1> HIDE DEF q, t
<1>5. \A i \in PressesOf(d, s) : i \in Nat \ {0} /\ i + 1 \in PressesOf(c, s)
  BY <1>2, <1>3, <1>4
<1>6. AtMostOne(PressesOf(c, s)) => AtMostOne(PressesOf(d, s))
  BY <1>5 DEF AtMostOne
<1>7. q[1].kind = "press" /\ s \in q[1].side => 1 \in PressesOf(c, s)
  BY <1>2, <1>3
<1>8. AtMostOne(PressesOf(c, s)) /\ 1 \in PressesOf(c, s) => PressesOf(d, s) = {}
  BY <1>5 DEF AtMostOne
<1>9. Head(c.line) = q[1]
  BY <1>2 DEF q
<1>10. QED
  BY <1>5, <1>6, <1>7, <1>8, <1>9

\* A message joins the line.
LEMMA LineGrows ==
  ASSUME NEW c \in Connection, NEW d \in Connection, NEW m \in Message,
         d.line = Append(c.line, m), NEW s
  PROVE  /\ ~(m.kind = "press" /\ s \in m.side) => PressesOf(d, s) \subseteq PressesOf(c, s)
         /\ PressesOf(c, s) = {} => AtMostOne(PressesOf(d, s))
<1>1. c.line \in Seq(Message)
  BY DEF Connection
<1> DEFINE q == c.line
           t == Append(q, m)
<1>2. \A i \in DOMAIN t :
        /\ i \in Nat
        /\ \/ i \in DOMAIN q /\ t[i] = q[i]
           \/ t[i] = m /\ i \notin DOMAIN q /\ \A j \in DOMAIN q : j < i
  BY <1>1, AppendAt
<1>3. PressesOf(c, s) = {i \in DOMAIN q : q[i].kind = "press" /\ s \in q[i].side}
  BY DEF PressesOf
<1>4. PressesOf(d, s) = {i \in DOMAIN t : t[i].kind = "press" /\ s \in t[i].side}
  BY DEF PressesOf
<1>5. DOMAIN q = 1..Len(q) /\ DOMAIN t = 1..Len(q) + 1 /\ Len(q) \in Nat
  BY <1>1
<1> HIDE DEF q, t
<1>6. ~(m.kind = "press" /\ s \in m.side) => PressesOf(d, s) \subseteq PressesOf(c, s)
  BY <1>2, <1>3, <1>4
<1>7. PressesOf(c, s) = {} => \A i \in PressesOf(d, s) : i = Len(q) + 1
  BY <1>2, <1>3, <1>4, <1>5
<1>8. QED
  BY <1>6, <1>7 DEF AtMostOne

\* What reading the first reply leaves for s.
AfterReading(c, d, s, value) ==
    /\ RefusalsOf(c, s) = {} => RefusalsOf(d, s) = {}
    /\ AtMostOne(RefusalsOf(c, s)) => AtMostOne(RefusalsOf(d, s))
    /\ AtMostOne(RefusalsOf(c, s)) /\ 1 \in RefusalsOf(c, s) => RefusalsOf(d, s) = {}
    /\ Head(c.replies).kind = "refused" /\ s \in Head(c.replies).sides => 1 \in RefusalsOf(c, s)
    /\ AllShow(c, s, value) => AllShow(d, s, value)
    /\ AllShow(c, s, value) /\ Head(c.replies).kind = "lamps"
         => (s \in Head(c.replies).sides) = value
    /\ ThenAllShow(c, s, value) => ThenAllShow(d, s, value)
    /\ ThenAllShow(c, s, value) /\ Head(c.replies).kind = "lamps"
         /\ (s \in Head(c.replies).sides) = value => AllShow(d, s, value)

\* The first reply is read.
LEMMA RepliesAdvance ==
  ASSUME NEW c \in Connection, NEW d \in Connection,
         c.replies # << >>, d.replies = Tail(c.replies), NEW s, NEW value \in BOOLEAN
  PROVE  AfterReading(c, d, s, value)
<1>1. c.replies \in Seq(Reply)
  BY DEF Connection
<1> DEFINE q == c.replies
           t == Tail(q)
<1>2. /\ Head(q) = q[1] /\ 1 \in DOMAIN q
      /\ \A i \in DOMAIN t : i \in Nat \ {0} /\ i + 1 \in DOMAIN q /\ t[i] = q[i + 1]
  BY <1>1, TailAt
<1>3. RefusalsOf(c, s) = {i \in DOMAIN q : q[i].kind = "refused" /\ s \in q[i].sides}
  BY DEF RefusalsOf
<1>4. RefusalsOf(d, s) = {i \in DOMAIN t : t[i].kind = "refused" /\ s \in t[i].sides}
  BY DEF RefusalsOf
<1>5. /\ AllShow(c, s, value) <=> \A i \in DOMAIN q : Shows(c, i, s, value)
      /\ AllShow(d, s, value) <=> \A i \in DOMAIN t : Shows(d, i, s, value)
  BY DEF AllShow
<1>6. /\ \A i : Shows(c, i, s, value) <=> (q[i].kind = "lamps" => (s \in q[i].sides) = value)
      /\ \A i : Shows(d, i, s, value) <=> (t[i].kind = "lamps" => (s \in t[i].sides) = value)
  BY DEF Shows
<1>7. /\ ThenAllShow(c, s, value) <=>
           \A i, j \in DOMAIN q : i < j /\ q[i].kind = "lamps" /\ (s \in q[i].sides) = value
                                    => Shows(c, j, s, value)
      /\ ThenAllShow(d, s, value) <=>
           \A i, j \in DOMAIN t : i < j /\ t[i].kind = "lamps" /\ (s \in t[i].sides) = value
                                    => Shows(d, j, s, value)
  BY DEF ThenAllShow
<1>8. Head(c.replies) = q[1]
  BY <1>2
<1> HIDE DEF q, t
<1>9. \A i \in RefusalsOf(d, s) : i \in Nat \ {0} /\ i + 1 \in RefusalsOf(c, s)
  BY <1>2, <1>3, <1>4
<1>10. \A i \in DOMAIN t : Shows(c, i + 1, s, value) => Shows(d, i, s, value)
  BY <1>2, <1>6
<1>11. AtMostOne(RefusalsOf(c, s)) => AtMostOne(RefusalsOf(d, s))
  BY <1>9 DEF AtMostOne
<1>12. AtMostOne(RefusalsOf(c, s)) /\ 1 \in RefusalsOf(c, s) => RefusalsOf(d, s) = {}
  BY <1>9 DEF AtMostOne
<1>13. Head(c.replies).kind = "refused" /\ s \in Head(c.replies).sides => 1 \in RefusalsOf(c, s)
  BY <1>2, <1>3, <1>8
<1>14. AllShow(c, s, value) => AllShow(d, s, value)
  BY <1>2, <1>5, <1>10
<1>15. AllShow(c, s, value) /\ q[1].kind = "lamps" => (s \in q[1].sides) = value
  BY <1>2, <1>5, <1>6
<1>16. ThenAllShow(c, s, value) => ThenAllShow(d, s, value)
  <2> SUFFICES ASSUME ThenAllShow(c, s, value), NEW i \in DOMAIN t, NEW j \in DOMAIN t,
                      i < j, t[i].kind = "lamps", (s \in t[i].sides) = value
               PROVE  Shows(d, j, s, value)
    BY <1>7
  <2>1. /\ i + 1 \in DOMAIN q /\ j + 1 \in DOMAIN q /\ i + 1 < j + 1
        /\ q[i + 1].kind = "lamps" /\ (s \in q[i + 1].sides) = value
    BY <1>2
  <2>2. Shows(c, j + 1, s, value)
    BY <1>7, <2>1
  <2>3. QED
    BY <1>10, <2>2
<1>17. ThenAllShow(c, s, value) /\ q[1].kind = "lamps" /\ (s \in q[1].sides) = value
         => AllShow(d, s, value)
  <2> SUFFICES ASSUME ThenAllShow(c, s, value), q[1].kind = "lamps", (s \in q[1].sides) = value,
                      NEW i \in DOMAIN t
               PROVE  Shows(d, i, s, value)
    BY <1>5
  <2>1. i + 1 \in DOMAIN q /\ 1 \in DOMAIN q /\ i \in Nat /\ i # 0
    BY <1>1, <1>2 DEF t, q
  <2>2. Shows(c, i + 1, s, value)
    BY <1>7, <2>1
  <2>3. QED
    BY <1>10, <2>2
<1>18. QED
  BY <1>8, <1>9, <1>11, <1>12, <1>13, <1>14, <1>15, <1>16, <1>17 DEF AfterReading

\* What a further reply m adds for s.
AfterReply(c, d, m, s, value) ==
    /\ ~(m.kind = "refused" /\ s \in m.sides) => RefusalsOf(d, s) \subseteq RefusalsOf(c, s)
    /\ RefusalsOf(c, s) = {} => AtMostOne(RefusalsOf(d, s))
    /\ AllShow(c, s, value) /\ (m.kind = "lamps" => (s \in m.sides) = value)
         => AllShow(d, s, value)
    /\ ThenAllShow(c, s, value) /\ (m.kind = "lamps" => (s \in m.sides) = value)
         => ThenAllShow(d, s, value)
    /\ AllShow(c, s, ~value) => ThenAllShow(c, s, value)

\* A reply is added.
LEMMA RepliesGrow ==
  ASSUME NEW c \in Connection, NEW d \in Connection, NEW m \in Reply,
         d.replies = Append(c.replies, m), NEW s, NEW value \in BOOLEAN
  PROVE  AfterReply(c, d, m, s, value)
<1>1. c.replies \in Seq(Reply)
  BY DEF Connection
<1> DEFINE q == c.replies
           t == Append(q, m)
<1>2. \A i \in DOMAIN t :
        /\ i \in Nat
        /\ \/ i \in DOMAIN q /\ t[i] = q[i]
           \/ t[i] = m /\ i \notin DOMAIN q /\ \A j \in DOMAIN q : j < i
  BY <1>1, AppendAt
<1>3. RefusalsOf(c, s) = {i \in DOMAIN q : q[i].kind = "refused" /\ s \in q[i].sides}
  BY DEF RefusalsOf
<1>4. RefusalsOf(d, s) = {i \in DOMAIN t : t[i].kind = "refused" /\ s \in t[i].sides}
  BY DEF RefusalsOf
<1>5. \A v : /\ AllShow(c, s, v) <=> \A i \in DOMAIN q : Shows(c, i, s, v)
             /\ AllShow(d, s, v) <=> \A i \in DOMAIN t : Shows(d, i, s, v)
  BY DEF AllShow
<1>6. \A v, i : /\ Shows(c, i, s, v) <=> (q[i].kind = "lamps" => (s \in q[i].sides) = v)
                /\ Shows(d, i, s, v) <=> (t[i].kind = "lamps" => (s \in t[i].sides) = v)
  BY DEF Shows
<1>7. /\ ThenAllShow(c, s, value) <=>
           \A i, j \in DOMAIN q : i < j /\ q[i].kind = "lamps" /\ (s \in q[i].sides) = value
                                    => Shows(c, j, s, value)
      /\ ThenAllShow(d, s, value) <=>
           \A i, j \in DOMAIN t : i < j /\ t[i].kind = "lamps" /\ (s \in t[i].sides) = value
                                    => Shows(d, j, s, value)
  BY DEF ThenAllShow
<1>8. DOMAIN q = 1..Len(q) /\ DOMAIN t = 1..Len(q) + 1 /\ Len(q) \in Nat
  BY <1>1
<1> HIDE DEF q, t
<1>9. ~(m.kind = "refused" /\ s \in m.sides) => RefusalsOf(d, s) \subseteq RefusalsOf(c, s)
  BY <1>2, <1>3, <1>4
<1>10. RefusalsOf(c, s) = {} => \A i \in RefusalsOf(d, s) : i = Len(q) + 1
  BY <1>2, <1>3, <1>4, <1>8
<1>11. AllShow(c, s, value) /\ (m.kind = "lamps" => (s \in m.sides) = value)
         => AllShow(d, s, value)
  BY <1>2, <1>5, <1>6
<1>12. ThenAllShow(c, s, value) /\ (m.kind = "lamps" => (s \in m.sides) = value)
         => ThenAllShow(d, s, value)
  <2> SUFFICES ASSUME ThenAllShow(c, s, value), m.kind = "lamps" => (s \in m.sides) = value,
                      NEW i \in DOMAIN t, NEW j \in DOMAIN t,
                      i < j, t[i].kind = "lamps", (s \in t[i].sides) = value
               PROVE  Shows(d, j, s, value)
    BY <1>7
  <2>1. CASE t[j] = m
    BY <1>6, <2>1
  <2>2. CASE j \in DOMAIN q /\ t[j] = q[j]
    <3>1. i \in DOMAIN q /\ t[i] = q[i]
      BY <1>2, <1>8, <2>2
    <3>2. Shows(c, j, s, value)
      BY <1>7, <2>2, <3>1
    <3>3. QED
      BY <1>6, <2>2, <3>2
  <2>3. QED
    BY <1>2, <2>1, <2>2
<1>13. AllShow(c, s, ~value) => ThenAllShow(c, s, value)
  BY <1>5, <1>6, <1>7
<1>14. QED
  BY <1>9, <1>10, <1>11, <1>12, <1>13 DEF AtMostOne, AfterReply

(***************************************************************************)
(* What each step makes of a side's route.                                 *)
(***************************************************************************)

\* The connection's two directions are looked at one by one.
LEMMA SameLine ==
  ASSUME NEW c, NEW d, d.line = c.line, NEW s
  PROVE  PressesOf(d, s) = PressesOf(c, s)
  BY DEF PressesOf

LEMMA SameReplies ==
  ASSUME NEW c, NEW d, d.replies = c.replies, NEW s
  PROVE  /\ RefusalsOf(d, s) = RefusalsOf(c, s)
         /\ \A value : AllShow(d, s, value) <=> AllShow(c, s, value)
         /\ \A value : ThenAllShow(d, s, value) <=> ThenAllShow(c, s, value)
  BY DEF RefusalsOf, AllShow, ThenAllShow, Shows

\* A sample is read, or thrown away.
LEMMA RouteReadsLamps ==
  ASSUME NEW c \in Connection, NEW d \in Connection, NEW l \in Lamps, NEW k \in Lamps,
         NEW s, NEW gone \in BOOLEAN, NEW goal \in BOOLEAN,
         Route(c, l, s, gone, goal),
         c.replies # << >>, Head(c.replies).kind = "lamps",
         d.replies = Tail(c.replies), d.line = c.line, d.on = c.on,
         k.valid => k.on = Head(c.replies).sides
  PROVE  Route(d, k, s, gone, goal)
<1>1. PressesOf(d, s) = PressesOf(c, s)
  BY SameLine
<1>2. (s \in c.on) \in BOOLEAN /\ (~goal) \in BOOLEAN
  OBVIOUS
<1>3. /\ AfterReading(c, d, s, s \in c.on)
      /\ AfterReading(c, d, s, ~goal)
      /\ AfterReading(c, d, s, goal)
  <2>1. \A value \in BOOLEAN : AfterReading(c, d, s, value)
    BY RepliesAdvance, Zenon
  <2>2. QED
    BY <1>2, <2>1, Zenon
<1>4. Still(c, l, s) => Still(d, k, s)
  BY <1>1, <1>3 DEF Still, AfterReading
<1>5. Coming(c, l, s, goal) => Coming(d, k, s, goal)
  BY <1>1, <1>3 DEF Coming, AfterReading
<1>6. Taken(c, l, s, goal) => Taken(d, k, s, goal)
  BY <1>1, <1>3 DEF Taken, AfterReading
<1>7. QED
  BY <1>4, <1>5, <1>6 DEF Route

\* A refusal is read.  One that names the side is of the press that is coming, and
\* leaves nothing on its way.
LEMMA RouteReadsRefusal ==
  ASSUME NEW c \in Connection, NEW d \in Connection, NEW l \in Lamps, NEW k \in Lamps,
         NEW s, NEW gone \in BOOLEAN, NEW goal \in BOOLEAN,
         Route(c, l, s, gone, goal),
         c.replies # << >>, Head(c.replies).kind = "refused",
         d.replies = Tail(c.replies), d.line = c.line, d.on = c.on,
         ~k.valid \/ k = l
  PROVE  /\ Route(d, k, s, gone, goal)
         /\ s \in Head(c.replies).sides => gone
         /\ s \in Head(c.replies).sides /\ ~k.valid => Still(d, k, s)
<1>1. PressesOf(d, s) = PressesOf(c, s)
  BY SameLine
<1>2. (s \in c.on) \in BOOLEAN /\ (~goal) \in BOOLEAN
  OBVIOUS
<1>3. /\ AfterReading(c, d, s, s \in c.on)
      /\ AfterReading(c, d, s, ~goal)
      /\ AfterReading(c, d, s, goal)
  <2>1. \A value \in BOOLEAN : AfterReading(c, d, s, value)
    BY RepliesAdvance, Zenon
  <2>2. QED
    BY <1>2, <2>1, Zenon
<1>4. Still(c, l, s) => Still(d, k, s) /\ s \notin Head(c.replies).sides
  BY <1>1, <1>3 DEF Still, AfterReading
<1>5. Coming(c, l, s, goal) => Coming(d, k, s, goal)
  BY <1>1, <1>3 DEF Coming, AfterReading
<1>6. Taken(c, l, s, goal) => Taken(d, k, s, goal) /\ s \notin Head(c.replies).sides
  BY <1>1, <1>3 DEF Taken, AfterReading
<1>7. Coming(c, l, s, goal) /\ s \in Head(c.replies).sides /\ ~k.valid => Still(d, k, s)
  <2> SUFFICES ASSUME Coming(c, l, s, goal), s \in Head(c.replies).sides, ~k.valid
               PROVE  Still(d, k, s)
    OBVIOUS
  <2>1. 1 \in RefusalsOf(c, s) /\ AtMostOne(RefusalsOf(c, s)) /\ AllShow(c, s, ~goal)
        /\ PressesOf(c, s) = {} /\ (s \in c.on) = ~goal
    BY <1>3 DEF Coming, AfterReading
  <2>2. RefusalsOf(d, s) = {} /\ AllShow(d, s, ~goal)
    BY <1>3, <2>1 DEF AfterReading
  <2>3. QED
    BY <1>1, <2>1, <2>2 DEF Still
<1>8. QED
  BY <1>4, <1>5, <1>6, <1>7 DEF Route

\* A message that is no press of the side joins the line.
LEMMA RouteWaits ==
  ASSUME NEW c \in Connection, NEW d \in Connection, NEW l \in Lamps, NEW m \in Message,
         NEW s, NEW gone \in BOOLEAN, NEW goal \in BOOLEAN,
         Route(c, l, s, gone, goal),
         d.line = Append(c.line, m), d.replies = c.replies, d.on = c.on,
         ~(m.kind = "press" /\ s \in m.side)
  PROVE  Route(d, l, s, gone, goal)
<1>1. PressesOf(d, s) \subseteq PressesOf(c, s)
  BY LineGrows
<1>2. /\ RefusalsOf(d, s) = RefusalsOf(c, s)
      /\ \A value : AllShow(d, s, value) <=> AllShow(c, s, value)
      /\ \A value : ThenAllShow(d, s, value) <=> ThenAllShow(c, s, value)
  BY SameReplies
<1>3. Still(c, l, s) => Still(d, l, s)
  BY <1>1, <1>2 DEF Still
<1>4. Coming(c, l, s, goal) => Coming(d, l, s, goal)
  BY <1>1, <1>2 DEF Coming, AtMostOne
<1>5. Taken(c, l, s, goal) => Taken(d, l, s, goal)
  BY <1>1, <1>2 DEF Taken
<1>6. QED
  BY <1>3, <1>4, <1>5 DEF Route

\* A press is sent for a side nothing is on its way for.
LEMMA RouteStarts ==
  ASSUME NEW c \in Connection, NEW d \in Connection, NEW l \in Lamps, NEW m \in Message,
         NEW s, NEW goal \in BOOLEAN,
         Still(c, l, s), (s \in c.on) = ~goal,
         d.line = Append(c.line, m), d.replies = c.replies, d.on = c.on
  PROVE  Coming(d, l, s, goal)
<1>1. AtMostOne(PressesOf(d, s))
  BY LineGrows DEF Still
<1>2. RefusalsOf(d, s) = {} /\ AllShow(d, s, ~goal)
  BY SameReplies DEF Still
<1>3. QED
  BY <1>1, <1>2 DEF Still, Coming, AtMostOne

\* A press is handled: it flips the buttons it is for, is refused or is ignored.
LEMMA RouteHandlesPress ==
  ASSUME NEW c \in Connection, NEW d \in Connection, NEW l \in Lamps,
         NEW s \in Sides, NEW gone \in BOOLEAN, NEW goal \in BOOLEAN,
         Route(c, l, s, gone, goal),
         c.line # << >>, Head(c.line).kind = "press", d.line = Tail(c.line),
         \/ /\ d.on = (c.on \ Head(c.line).side) \cup (Head(c.line).side \ c.on)
            /\ d.replies = c.replies
         \/ d.on = c.on /\ d.replies = c.replies
         \/ /\ d.on = c.on
            /\ d.replies = Append(c.replies, [kind |-> "refused", sides |-> Head(c.line).side,
                                              serial |-> Head(c.line).serial])
  PROVE  Route(d, l, s, gone, goal) /\ (~gone => (s \in d.on) = (s \in c.on))
<1> DEFINE m == Head(c.line)
           refusal == [kind |-> "refused", sides |-> m.side, serial |-> m.serial]
<1>1. m \in Message
  BY HeadTail DEF Connection
<1>2. /\ PressesOf(c, s) = {} => PressesOf(d, s) = {}
      /\ AtMostOne(PressesOf(c, s)) => AtMostOne(PressesOf(d, s))
      /\ AtMostOne(PressesOf(c, s)) /\ s \in m.side => PressesOf(d, s) = {}
  BY LineAdvances
<1>3. s \in m.side => PressesOf(c, s) # {}
  <2>1. c.line \in Seq(Message)
    BY DEF Connection
  <2>2. 1 \in DOMAIN c.line /\ m = c.line[1]
    BY <2>1, TailAt
  <2>3. QED
    BY <2>2 DEF PressesOf
<1> HIDE DEF m
<1>4. CASE s \notin m.side
  <2>1. (s \in d.on) = (s \in c.on)
    BY <1>4 DEF m
  <2>2. CASE d.replies = c.replies
    <3>1. /\ RefusalsOf(d, s) = RefusalsOf(c, s)
          /\ \A value : AllShow(d, s, value) <=> AllShow(c, s, value)
          /\ \A value : ThenAllShow(d, s, value) <=> ThenAllShow(c, s, value)
      BY <2>2, SameReplies
    <3>2. Still(c, l, s) => Still(d, l, s)
      BY <1>2, <2>1, <3>1 DEF Still
    <3>3. Coming(c, l, s, goal) => Coming(d, l, s, goal)
      BY <1>2, <2>1, <3>1 DEF Coming
    <3>4. Taken(c, l, s, goal) => Taken(d, l, s, goal)
      BY <1>2, <2>1, <3>1 DEF Taken
    <3>5. QED
      BY <2>1, <3>2, <3>3, <3>4 DEF Route
  <2>3. CASE d.replies = Append(c.replies, refusal)
    <3>1. refusal \in Reply /\ refusal.kind = "refused" /\ s \notin refusal.sides
      BY <1>1, <1>4 DEF Message, Reply
    <3> HIDE DEF refusal
    <3>2. (s \in c.on) \in BOOLEAN /\ (~goal) \in BOOLEAN
      OBVIOUS
    <3>3. /\ AfterReply(c, d, refusal, s, s \in c.on)
          /\ AfterReply(c, d, refusal, s, ~goal)
          /\ AfterReply(c, d, refusal, s, goal)
      <4>1. \A value \in BOOLEAN : AfterReply(c, d, refusal, s, value)
        BY <2>3, <3>1, RepliesGrow
      <4>2. QED
        BY <3>2, <4>1, Zenon
    <3>4. Still(c, l, s) => Still(d, l, s)
      BY <1>2, <2>1, <3>1, <3>3 DEF Still, AfterReply
    <3>5. Coming(c, l, s, goal) => Coming(d, l, s, goal)
      BY <1>2, <2>1, <3>1, <3>3 DEF Coming, AtMostOne, AfterReply
    <3>6. Taken(c, l, s, goal) => Taken(d, l, s, goal)
      BY <1>2, <2>1, <3>1, <3>3 DEF Taken, AfterReply
    <3>7. QED
      BY <2>1, <3>4, <3>5, <3>6 DEF Route
  <2>4. QED
    BY <2>2, <2>3 DEF refusal, m
<1>5. CASE s \in m.side
  <2>1. gone /\ Coming(c, l, s, goal)
    BY <1>3, <1>5 DEF Route, Still, Taken
  <2>2. /\ (s \in c.on) = ~goal /\ (l.valid => (s \in l.on) = ~goal)
        /\ AllShow(c, s, ~goal) /\ RefusalsOf(c, s) = {} /\ PressesOf(d, s) = {}
    BY <1>2, <1>3, <1>5, <2>1 DEF Coming
  <2>3. CASE d.on = (c.on \ m.side) \cup (m.side \ c.on) /\ d.replies = c.replies
    <3>1. (s \in d.on) = goal
      BY <1>5, <2>2, <2>3
    <3>2. RefusalsOf(d, s) = {} /\ ThenAllShow(d, s, goal)
      <4>1. ThenAllShow(c, s, goal)
        BY <2>2 DEF ThenAllShow, AllShow, Shows
      <4>2. QED
        BY <2>2, <2>3, <4>1, SameReplies
    <3>3. Taken(d, l, s, goal)
      BY <2>2, <3>1, <3>2 DEF Taken
    <3>4. QED
      BY <2>1, <3>3 DEF Route
  <2>4. CASE d.on = c.on /\ d.replies = c.replies
    <3>1. RefusalsOf(d, s) = {} /\ AllShow(d, s, ~goal)
      BY <2>2, <2>4, SameReplies
    <3>2. Coming(d, l, s, goal)
      BY <2>2, <2>4, <3>1 DEF Coming, AtMostOne
    <3>3. QED
      BY <2>1, <3>2 DEF Route
  <2>5. CASE d.on = c.on /\ d.replies = Append(c.replies, refusal)
    <3>1. refusal \in Reply /\ refusal.kind = "refused"
      BY <1>1 DEF Message, Reply
    <3> HIDE DEF refusal
    <3>2. (~goal) \in BOOLEAN
      OBVIOUS
    <3>3. AfterReply(c, d, refusal, s, ~goal)
      BY <2>5, <3>1, <3>2, RepliesGrow
    <3>4. Coming(d, l, s, goal)
      BY <2>2, <2>5, <3>1, <3>3 DEF Coming, AtMostOne, AfterReply
    <3>5. QED
      BY <2>1, <3>4 DEF Route
  <2>6. QED
    BY <2>3, <2>4, <2>5 DEF refusal, m
<1>6. QED
  BY <1>4, <1>5

\* A sample is taken.
LEMMA RouteHandlesPoll ==
  ASSUME NEW c \in Connection, NEW d \in Connection, NEW l \in Lamps,
         NEW s \in Sides, NEW gone \in BOOLEAN, NEW goal \in BOOLEAN,
         Route(c, l, s, gone, goal),
         c.line # << >>, d.line = Tail(c.line), d.on = c.on,
         d.replies = Append(c.replies, [kind |-> "lamps", sides |-> c.on, serial |-> 0])
  PROVE  Route(d, l, s, gone, goal)
<1> DEFINE m == [kind |-> "lamps", sides |-> c.on, serial |-> 0]
<1>1. /\ PressesOf(c, s) = {} => PressesOf(d, s) = {}
      /\ AtMostOne(PressesOf(c, s)) => AtMostOne(PressesOf(d, s))
  BY LineAdvances
<1>2. m \in Reply /\ m.kind = "lamps" /\ m.sides = c.on
  BY DEF Connection, Reply
<1> HIDE DEF m
<1>3. (s \in c.on) \in BOOLEAN /\ (~goal) \in BOOLEAN
  OBVIOUS
<1>4. /\ AfterReply(c, d, m, s, s \in c.on)
      /\ AfterReply(c, d, m, s, ~goal)
      /\ AfterReply(c, d, m, s, goal)
  <2>1. d.replies = Append(c.replies, m)
    BY DEF m
  <2>2. QED
    <3>1. \A value \in BOOLEAN : AfterReply(c, d, m, s, value)
      BY <1>2, <2>1, RepliesGrow, Zenon
    <3>2. QED
      BY <1>3, <3>1, Zenon
<1>5. Still(c, l, s) => Still(d, l, s)
  BY <1>1, <1>2, <1>4 DEF Still, AfterReply
<1>6. Coming(c, l, s, goal) => Coming(d, l, s, goal)
  BY <1>1, <1>2, <1>4 DEF Coming, AtMostOne, AfterReply
<1>7. Taken(c, l, s, goal) => Taken(d, l, s, goal)
  BY <1>1, <1>2, <1>4 DEF Taken, AfterReply
<1>8. QED
  BY <1>5, <1>6, <1>7 DEF Route

\* The lamps show the goal of a press that was sent: it has done what it was for.
LEMMA RouteEnds ==
  ASSUME NEW c, NEW l, NEW s, NEW goal \in BOOLEAN,
         Route(c, l, s, TRUE, goal), l.valid, (s \in l.on) = goal
  PROVE  Still(c, l, s)
  BY DEF Route, Coming, Taken, Still

(***************************************************************************)
(* A request retired without a failure is done.                            *)
(***************************************************************************)

\* A press of s was sent and sent() is still to record it.
Away(s) == telemetry.at = "sent" /\ telemetry.accepted /\ s \in telemetry.side

\* A press of s is under way, as far as the telemetry thread knows, and what it is for.
InAir(s) == command.flights[s].active \/ Away(s)
Goal(s) == IF Away(s) THEN s \in telemetry.desired ELSE command.flights[s].desired

\* What the thread knows of each side is what is on the connection.
Followed == \A s \in Sides : Route(sim, lamps, s, InAir(s), Goal(s))

AtPress(s) == telemetry.at = "press" /\ s \in telemetry.side

\* A side that a decision still has to press has not what it asks for, and nothing
\* is on its way for it.
Aimed ==
    /\ \A s \in Sides :
          AtPress(s) \/ (telemetry.at # "loop" /\ s \in telemetry.todo)
              => ~InAir(s) /\ (s \in sim.on) = (s \notin telemetry.desired)
    /\ telemetry.at \in {"press", "sent"} => telemetry.side \cap telemetry.todo = {}

\* A side the last request retired has what it asked for, and nothing is on its way.
Retired ==
    ~command.failed =>
        \A s \in command.latest.selected \ command.pending :
            ~InAir(s) /\ ~AtPress(s) /\ (s \in sim.on) = (s \in command.latest.desired)

Watched == Followed /\ Aimed /\ Retired

LEMMA RouteTypes ==
  ASSUME Typed
  PROVE  /\ sim \in Connection /\ lamps \in Lamps /\ command \in Command /\ telemetry \in Telemetry
         /\ \A s \in Sides : command.flights[s] \in Flight
         /\ \A s \in Sides : InAir(s) \in BOOLEAN /\ Goal(s) \in BOOLEAN
<1>1. sim \in Connection /\ lamps \in Lamps /\ command \in Command /\ telemetry \in Telemetry
  BY DEF Typed, TypeOK, Connection
<1>2. \A s \in Sides : command.flights[s] \in Flight
  BY <1>1 DEF Command
<1>3. ASSUME NEW s \in Sides
      PROVE  InAir(s) \in BOOLEAN /\ Goal(s) \in BOOLEAN
  <2>1. InAir(s) \in BOOLEAN
    BY Zenon DEF InAir
  <2>2. command.flights[s].desired \in BOOLEAN /\ (s \in telemetry.desired) \in BOOLEAN
    BY <1>2 DEF Flight
  <2>3. Goal(s) \in BOOLEAN
    <3>1. CASE Away(s)
      BY <2>2, <3>1 DEF Goal
    <3>2. CASE ~Away(s)
      BY <2>2, <3>2 DEF Goal
    <3>3. QED
      BY <3>1, <3>2
  <2>4. QED
    BY <2>1, <2>3
<1>4. QED
  BY <1>1, <1>2, <1>3

\* The route depends on what the lamps show, not on their age.
LEMMA RouteOfLamps ==
  ASSUME NEW c, NEW l, NEW k, NEW s, NEW gone, NEW goal, k.valid = l.valid, k.on = l.on,
         Route(c, l, s, gone, goal)
  PROVE  Route(c, k, s, gone, goal)
  BY DEF Route, Still, Coming, Taken

\* A step that keeps every side's route keeps them followed.
LEMMA FollowedIf ==
  ASSUME Typed, Followed,
         \A s \in Sides : InAir(s)' = InAir(s) /\ Goal(s)' = Goal(s),
         \A s \in Sides, gone \in BOOLEAN, goal \in BOOLEAN :
            Route(sim, lamps, s, gone, goal) => Route(sim', lamps', s, gone, goal)
  PROVE  Followed'
<1>1. ASSUME NEW s \in Sides
      PROVE  Route(sim', lamps', s, InAir(s)', Goal(s)')
  <2>1. Route(sim, lamps, s, InAir(s), Goal(s))
    BY DEF Followed
  <2>2. InAir(s) \in BOOLEAN /\ Goal(s) \in BOOLEAN
    BY RouteTypes
  <2>3. Route(sim', lamps', s, InAir(s), Goal(s))
    BY <2>1, <2>2, Zenon
  <2>4. InAir(s)' = InAir(s) /\ Goal(s)' = Goal(s)
    OBVIOUS
  <2>5. QED
    BY <2>3, <2>4, Zenon
<1>2. QED
  BY <1>1, Zenon DEF Followed

\* A step that leaves the decision and the request alone, or fails the request.
LEMMA DecisionKept ==
  ASSUME Typed, Aimed, Retired,
         telemetry'.at = telemetry.at, telemetry'.side = telemetry.side,
         telemetry'.todo = telemetry.todo, telemetry'.desired = telemetry.desired,
         \/ command'.failed
         \/ /\ command'.latest = command.latest /\ command'.pending = command.pending
            /\ command'.failed = command.failed
         \/ command'.pending = command'.latest.selected,
         \A s \in Sides : InAir(s)' => InAir(s),
         \A s \in Sides : ~InAir(s) => (s \in sim'.on) = (s \in sim.on)
  PROVE  Aimed' /\ Retired'
<1>1. \A s \in Sides : AtPress(s)' = AtPress(s)
  BY DEF AtPress
<1>2. ASSUME NEW s \in Sides, AtPress(s)' \/ (telemetry'.at # "loop" /\ s \in telemetry'.todo)
      PROVE  ~InAir(s)' /\ (s \in sim'.on) = (s \notin telemetry'.desired)
  <2>1. AtPress(s) \/ (telemetry.at # "loop" /\ s \in telemetry.todo)
    BY <1>1, <1>2
  <2>2. ~InAir(s) /\ (s \in sim.on) = (s \notin telemetry.desired)
    BY <2>1 DEF Aimed
  <2>3. ~InAir(s)' /\ (s \in sim'.on) = (s \in sim.on)
    BY <2>2
  <2>4. QED
    BY <2>2, <2>3
<1>3. Aimed'
  <2>1. telemetry'.at \in {"press", "sent"} => telemetry'.side \cap telemetry'.todo = {}
    BY DEF Aimed
  <2>2. QED
    BY <1>2, <2>1 DEF Aimed
<1>4. ASSUME ~command'.failed, NEW s \in command'.latest.selected \ command'.pending
      PROVE  ~InAir(s)' /\ ~AtPress(s)' /\ (s \in sim'.on) = (s \in command'.latest.desired)
  <2>1. /\ command'.latest = command.latest /\ command'.pending = command.pending
        /\ ~command.failed /\ s \in command.latest.selected \ command.pending
    BY <1>4
  <2>2. ~InAir(s) /\ ~AtPress(s) /\ (s \in sim.on) = (s \in command.latest.desired)
    BY <2>1 DEF Retired
  <2>3. s \in Sides
    BY <2>1, RouteTypes DEF Command, Request
  <2>4. ~InAir(s)' /\ (s \in sim'.on) = (s \in sim.on) /\ ~AtPress(s)'
    BY <1>1, <2>2, <2>3
  <2>5. QED
    BY <2>1, <2>2, <2>4
<1>5. Retired'
  BY <1>4 DEF Retired
<1>6. QED
  BY <1>3, <1>5

\* The steps that only ask for samples, look on or let time pass.
LEMMA IdleWatched ==
  ASSUME Typed, Watched, UNCHANGED <<sim, telemetry>>,
         lamps'.valid = lamps.valid, lamps'.on = lamps.on,
         command'.flights = command.flights,
         \/ command'.failed
         \/ /\ command'.latest = command.latest /\ command'.pending = command.pending
            /\ command'.failed = command.failed
         \/ command'.pending = command'.latest.selected
  PROVE  Watched'
<1>1. \A s \in Sides : InAir(s)' = InAir(s) /\ Goal(s)' = Goal(s)
  BY DEF InAir, Goal, Away
<1>2. \A s \in Sides, gone \in BOOLEAN, goal \in BOOLEAN :
        Route(sim, lamps, s, gone, goal) => Route(sim', lamps', s, gone, goal)
  BY RouteOfLamps, Zenon
<1>3. Followed'
  BY <1>1, <1>2, FollowedIf, Zenon DEF Watched
<1>4. Aimed' /\ Retired'
  <2>1. Aimed /\ Retired
    BY DEF Watched
  <2>2. \A s \in Sides : InAir(s)' => InAir(s)
    BY <1>1
  <2>3. QED
    BY <2>1, <2>2, DecisionKept
<1>5. QED
  BY <1>3, <1>4 DEF Watched

LEMMA RequestLampsWatched == ASSUME Typed, Typed', Watched, RequestLamps PROVE Watched'
<1> DEFINE m == [kind |-> "poll", side |-> {}, serial |-> 0]
<1>1. /\ sim'.line = Append(sim.line, m) /\ sim'.replies = sim.replies /\ sim'.on = sim.on
      /\ UNCHANGED <<command, telemetry, lamps>>
  BY DEF RequestLamps, Typed, TypeOK
<1>2. m \in Message /\ m.kind # "press" /\ sim \in Connection /\ sim' \in Connection /\ lamps \in Lamps
  BY DEF Message, Typed, TypeOK, Connection
<1> HIDE DEF m
<1>3. \A s \in Sides, gone \in BOOLEAN, goal \in BOOLEAN :
        Route(sim, lamps, s, gone, goal) => Route(sim', lamps', s, gone, goal)
  <2>1. ASSUME NEW s \in Sides, NEW gone \in BOOLEAN, NEW goal \in BOOLEAN,
               Route(sim, lamps, s, gone, goal)
        PROVE  Route(sim', lamps, s, gone, goal)
    <3>1. ~(m.kind = "press" /\ s \in m.side)
      BY <1>2
    <3>2. QED
      BY <1>1, <1>2, <2>1, <3>1, RouteWaits, SMTT(30)
  <2>2. QED
    BY <1>1, <2>1
<1>4. \A s \in Sides : InAir(s)' = InAir(s) /\ Goal(s)' = Goal(s)
  BY <1>1 DEF InAir, Goal, Away
<1>5. Followed'
  BY <1>3, <1>4, FollowedIf, Zenon DEF Watched
<1>6. Aimed' /\ Retired'
  BY <1>1, <1>4, DecisionKept DEF Watched
<1>7. QED
  BY <1>5, <1>6 DEF Watched

LEMMA ReceiveLampsWatched ==
  ASSUME Typed, Typed', Watched, NEW valid \in BOOLEAN, NEW later \in BOOLEAN,
         ReceiveLamps(valid, later)
  PROVE  Watched'
<1>1. /\ sim.replies # << >> /\ Head(sim.replies).kind = "lamps"
      /\ sim'.replies = Tail(sim.replies) /\ sim'.line = sim.line /\ sim'.on = sim.on
      /\ UNCHANGED telemetry
  BY DEF ReceiveLamps, Typed, TypeOK
<1>2. lamps'.valid => lamps'.on = Head(sim.replies).sides
  BY DEF ReceiveLamps, Typed, TypeOK, Lamps
<1>3. sim \in Connection /\ sim' \in Connection /\ lamps \in Lamps /\ lamps' \in Lamps
  BY DEF Typed, TypeOK, Connection
<1>4. ASSUME NEW s \in Sides, NEW gone \in BOOLEAN, NEW goal \in BOOLEAN,
             Route(sim, lamps, s, gone, goal)
      PROVE  Route(sim', lamps', s, gone, goal)
  BY <1>1, <1>2, <1>3, <1>4, RouteReadsLamps
<1>5. /\ command'.latest = command.latest /\ command'.pending = command.pending
      /\ command'.failed = command.failed
      /\ \A s \in Sides : /\ command'.flights[s].active = command.flights[s].active
                          /\ command'.flights[s].desired = command.flights[s].desired
  <2> DEFINE newer(s) == command.flights[s].newer \/ (valid /\ later /\ command.flights[s].active)
             flights == [s \in Sides |-> [command.flights[s] EXCEPT !.newer = newer(s)]]
  <2>1. command' = [command EXCEPT !.flights = flights]
    BY Zenon DEF ReceiveLamps
  <2>2. \A s \in Sides : command.flights[s] \in Flight
    BY RouteTypes
  <2>3. \A s \in Sides : /\ flights[s].active = command.flights[s].active
                         /\ flights[s].desired = command.flights[s].desired
    BY <2>2 DEF Flight
  <2> HIDE DEF flights
  <2>4. QED
    BY <2>1, <2>3, RouteTypes DEF Command
<1>6. \A s \in Sides : InAir(s)' = InAir(s) /\ Goal(s)' = Goal(s)
  BY <1>1, <1>5 DEF InAir, Goal, Away
<1>7. Followed'
  BY <1>4, <1>6, FollowedIf, Zenon DEF Watched
<1>8. Aimed' /\ Retired'
  BY <1>1, <1>5, <1>6, DecisionKept DEF Watched
<1>9. QED
  BY <1>7, <1>8 DEF Watched

\* A failure keeps everything but the request.
LEMMA FailEffect ==
  ASSUME NEW c \in Command
  PROVE  /\ fail(c).flights = c.flights /\ fail(c).latest = c.latest
         /\ fail(c).failed \/ fail(c) = c
  BY DEF fail, reject, Command

\* Refused: the one press that is on its way for the side is over.
LEMMA ReceiveRefusalWatched ==
  ASSUME Typed, Typed', Watched, ReceiveRefusal PROVE Watched'
<1> DEFINE reply == Head(sim.replies)
           named == {s \in reply.sides : telemetry.packets[s] = reply.serial}
<1>1. /\ sim.replies # << >> /\ reply.kind = "refused" /\ telemetry.at = "loop"
      /\ sim'.replies = Tail(sim.replies) /\ sim'.line = sim.line /\ sim'.on = sim.on
  BY DEF ReceiveRefusal, Typed, TypeOK
<1>2. sim \in Connection /\ sim' \in Connection /\ lamps \in Lamps /\ lamps' \in Lamps
  BY DEF Typed, TypeOK, Connection
<1>3. ASSUME ~lamps'.valid \/ lamps' = lamps,
             NEW s \in Sides, NEW gone \in BOOLEAN, NEW goal \in BOOLEAN,
             Route(sim, lamps, s, gone, goal)
      PROVE  /\ Route(sim', lamps', s, gone, goal)
             /\ s \in reply.sides => gone
             /\ s \in reply.sides /\ ~lamps'.valid => Still(sim', lamps', s)
  BY <1>1, <1>2, <1>3, RouteReadsRefusal
<1>4. CASE named = {}
  <2>1. UNCHANGED <<command, lamps, telemetry>>
    BY <1>4 DEF ReceiveRefusal
  <2>2. \A s \in Sides, gone \in BOOLEAN, goal \in BOOLEAN :
          Route(sim, lamps, s, gone, goal) => Route(sim', lamps', s, gone, goal)
    BY <1>3, <2>1, Zenon
  <2>3. \A s \in Sides : InAir(s)' = InAir(s) /\ Goal(s)' = Goal(s)
    BY <2>1 DEF InAir, Goal, Away
  <2>4. Followed'
    BY <2>2, <2>3, FollowedIf, Zenon DEF Watched
  <2>5. Aimed' /\ Retired'
    BY <1>1, <2>1, <2>3, DecisionKept DEF Watched
  <2>6. QED
    BY <2>4, <2>5 DEF Watched
<1>5. CASE named # {}
  <2>1. PICK s \in named : /\ command' = rejected(command, s)
                           /\ telemetry' = [telemetry EXCEPT !.packets[s] = 0]
    BY <1>5 DEF ReceiveRefusal
  <2>2. lamps' = [lamps EXCEPT !.valid = FALSE]
    BY <1>5 DEF ReceiveRefusal
  <2>3. ~lamps'.valid
    BY <1>2, <2>2 DEF Lamps
  <2>4. reply \in Reply
    BY <1>1, <1>2, HeadTail DEF Connection
  <2>5. s \in Sides /\ s \in reply.sides
    BY <2>1, <2>4 DEF Reply
  <2>6. /\ telemetry'.at = "loop" /\ telemetry'.side = telemetry.side
        /\ telemetry'.todo = telemetry.todo /\ telemetry'.desired = telemetry.desired
    BY <1>1, <2>1 DEF Typed, TypeOK, Telemetry
  <2> HIDE DEF reply, named
  <2>7. command.flights[s].active
    <3>1. Route(sim, lamps, s, InAir(s), Goal(s)) /\ InAir(s) \in BOOLEAN /\ Goal(s) \in BOOLEAN
      BY <2>5, RouteTypes DEF Watched, Followed
    <3>2. InAir(s)
      BY <1>3, <2>3, <2>5, <3>1, Zenon
    <3>3. QED
      BY <1>1, <3>2 DEF InAir, Away
  <2> DEFINE cleared == [command EXCEPT !.flights[s] = NoFlight]
  <2>8. cleared \in Command /\ command' \in {cleared, fail(cleared)}
    <3>1. command \in Command /\ NoFlight \in Flight
      BY RouteTypes, EmptyTypes
    <3>2. cleared \in Command
      BY <2>5, <3>1 DEF Command
    <3>3. QED
      BY <2>1, <2>7, <3>2 DEF rejected
  <2>9. /\ cleared.latest = command.latest /\ cleared.pending = command.pending
        /\ cleared.failed = command.failed /\ ~cleared.flights[s].active
        /\ \A t \in Sides : t # s => cleared.flights[t] = command.flights[t]
    <3>1. command \in Command
      BY RouteTypes
    <3>2. QED
      BY <2>5, <3>1 DEF Command, NoFlight
  <2> HIDE DEF cleared
  <2>10. /\ command'.flights = cleared.flights
         /\ \/ command'.failed
            \/ /\ command'.latest = command.latest /\ command'.pending = command.pending
               /\ command'.failed = command.failed
    BY <2>8, <2>9, FailEffect
  <2>11. /\ ~InAir(s)'
         /\ \A t \in Sides : t # s => InAir(t)' = InAir(t) /\ Goal(t)' = Goal(t)
    BY <1>1, <2>6, <2>9, <2>10 DEF InAir, Goal, Away
  <2>12. Followed'
    <3> SUFFICES ASSUME NEW t \in Sides
                 PROVE  Route(sim', lamps', t, InAir(t)', Goal(t)')
      BY Zenon DEF Followed
    <3>1. Route(sim, lamps, t, InAir(t), Goal(t)) /\ InAir(t) \in BOOLEAN /\ Goal(t) \in BOOLEAN
      BY RouteTypes DEF Watched, Followed
    <3>2. CASE t # s
      <4>1. Route(sim', lamps', t, InAir(t), Goal(t))
        BY <1>3, <2>3, <3>1, Zenon
      <4>2. QED
        BY <2>11, <3>2, <4>1, Zenon
    <3>3. CASE t = s
      <4>1. Still(sim', lamps', s)
        BY <1>3, <2>3, <2>5, <3>1, <3>3, Zenon
      <4>2. QED
        BY <2>11, <3>3, <4>1 DEF Route
    <3>4. QED
      BY <3>2, <3>3
  <2>13. Aimed' /\ Retired'
    <3>1. \A t \in Sides : InAir(t)' => InAir(t)
      BY <2>11
    <3>2. Aimed /\ Retired
      BY DEF Watched
    <3>3. QED
      BY <1>1, <2>6, <2>10, <3>1, <3>2, DecisionKept
  <2>14. QED
    BY <2>12, <2>13 DEF Watched
<1>6. QED
  BY <1>4, <1>5

\* The worker's settings: the request fails, stays, or gives way to a later one.
LEMMA UpdateEffect ==
  ASSUME NEW c \in Command, NEW r \in Request, NEW permitted \in BOOLEAN, NEW u,
         u = update(c, r, permitted)
  PROVE  /\ u.flights = c.flights
         /\ \/ u.failed
            \/ u.latest = c.latest /\ u.pending = c.pending /\ u.failed = c.failed
            \/ u.latest = r /\ u.pending = u.latest.selected /\ r.serial > c.latest.serial
<1> DEFINE p == [c EXCEPT !.permission = permitted, !.permissionAge = 0]
           q == IF permitted THEN p ELSE fail(p)
           next == [q EXCEPT !.latest = r, !.pending = r.selected, !.failed = FALSE, !.age = 0]
<1>1. p \in Command
  <2>1. 0 \in 0..PermissionAge + 1
    OBVIOUS
  <2>2. QED
    BY <2>1 DEF Command
<1>2. p.latest = c.latest /\ p.flights = c.flights /\ p.pending = c.pending /\ p.failed = c.failed
  BY DEF Command
<1>3. u = CASE r.serial = 0              -> fail(q)
             [] r.serial > q.latest.serial -> Consumed(q, r, permitted)
             [] OTHER -> IF r.serial = q.latest.serial /\ r # q.latest THEN fail(q) ELSE q
  BY DEF update
<1> HIDE DEF p
<1>4. /\ q \in Command /\ q.latest = c.latest /\ q.flights = c.flights
      /\ q.failed \/ (q.pending = c.pending /\ q.failed = c.failed)
  BY <1>1, <1>2, FailEffect, FailTypes
<1> HIDE DEF q
<1>5. next \in Command /\ next.latest = r /\ next.pending = r.selected /\ next.flights = q.flights
  <2>1. 0 \in 0..Lifetime
    OBVIOUS
  <2>2. QED
    BY <1>4, <2>1 DEF Command, Request
<1>6. r.serial \in Nat /\ q.latest.serial \in Nat
  BY <1>4 DEF Command, Request
<1>7. CASE r.serial # 0 /\ r.serial > q.latest.serial
  <2>1. u = Consumed(q, r, permitted)
    BY <1>3, <1>7, <1>6
  <2>2. u = next \/ u = reject(next)
    BY <2>1 DEF Consumed
  <2> HIDE DEF next
  <2>3. reject(next).failed /\ reject(next).flights = next.flights
    BY <1>5 DEF reject, Command
  <2>4. QED
    BY <1>4, <1>5, <1>7, <2>2, <2>3
<1>8. CASE ~(r.serial # 0 /\ r.serial > q.latest.serial)
  <2>1. u = q \/ u = fail(q)
    BY <1>3, <1>8, <1>6
  <2>2. QED
    BY <1>4, <2>1, FailEffect
<1>9. QED
  BY <1>7, <1>8

LEMMA UpdateWatched ==
  ASSUME Typed, Watched, NEW connected \in BOOLEAN, NEW permitted \in BOOLEAN,
         Update(connected, permitted)
  PROVE  Watched'
<1> DEFINE r == IF connected THEN settings ELSE NoRequest
<1>1. command \in Command /\ r \in Request /\ (connected /\ permitted) \in BOOLEAN
  BY EmptyTypes DEF Typed, TypeOK
<1>2. command' = update(command, r, connected /\ permitted) /\ UNCHANGED <<sim, telemetry, lamps>>
  BY DEF Update
<1> HIDE DEF r
<1>3. /\ command'.flights = command.flights
      /\ \/ command'.failed
         \/ /\ command'.latest = command.latest /\ command'.pending = command.pending
            /\ command'.failed = command.failed
         \/ command'.pending = command'.latest.selected
  BY <1>1, <1>2, UpdateEffect
<1>4. QED
  BY <1>2, <1>3, IdleWatched

\* The steps of the worker and the companion that leave the request alone, and time.
LEMMA ElsewhereWatched ==
  ASSUME Typed, Watched,
         Acknowledge \/ Publish \/ SyncSession \/ (\E affected \in Actions : Shortcut(affected)) \/ Tick
  PROVE  Watched'
<1>1. UNCHANGED <<sim, telemetry>>
  BY DEF Acknowledge, Publish, SyncSession, Shortcut, Tick
<1>2. CASE UNCHANGED <<command, lamps>>
  BY <1>1, <1>2, IdleWatched
<1>3. CASE Tick
  <2>1. command \in Command /\ lamps \in Lamps
    BY DEF Typed, TypeOK
  <2>2. lamps'.valid = lamps.valid /\ lamps'.on = lamps.on
    BY <1>3, <2>1 DEF Tick, Lamps
  <2>3. /\ command'.flights = command.flights /\ command'.latest = command.latest
        /\ command'.pending = command.pending /\ command'.failed = command.failed
    BY <1>3, <2>1 DEF Tick, Command
  <2>4. QED
    BY <1>1, <2>2, <2>3, IdleWatched
<1>4. QED
  BY <1>2, <1>3 DEF Acknowledge, Publish, SyncSession, Shortcut

\* step() expires the request, and on usable lamps clears what they acknowledge,
\* retires what they show and decides what to press.
LEMMA StepWatched ==
  ASSUME Typed, Watched, NEW identity \in BOOLEAN, Step(identity)
  PROVE  Watched'
<1> DEFINE c == Expired(command)
           usable == identity /\ lamps.valid /\ lamps.age <= PermissionAge
<1>1. command \in Command /\ lamps \in Lamps /\ telemetry \in Telemetry
  BY DEF Typed, TypeOK
<1>2. /\ c \in Command /\ c.flights = command.flights /\ c.latest = command.latest
      /\ c.failed \/ c = command
  BY <1>1, FailEffect, FailTypes DEF Expired
<1>3. telemetry.at = "loop" /\ UNCHANGED <<sim, lamps>>
  BY DEF Step
<1>4. /\ command' = IF usable THEN Observed(c) ELSE c
      /\ telemetry' = IF usable /\ ToSend(c) # {}
                      THEN [telemetry EXCEPT !.at = "check", !.todo = ToSend(c),
                                             !.serial = c.latest.serial,
                                             !.desired = c.latest.desired]
                      ELSE telemetry
  BY DEF Step
<1> HIDE DEF c
<1>5. CASE ~usable
  BY <1>2, <1>3, <1>4, <1>5, IdleWatched
<1>6. CASE usable
  <2>1. lamps.valid
    BY <1>6
  <2>2. command' = Observed(c)
    BY <1>4, <1>6
  <2> HIDE DEF usable
  <2>3. /\ command'.latest = c.latest /\ command'.failed = c.failed
        /\ command'.pending = c.pending \ Done(c)
        /\ \A s \in Sides : command'.flights[s] = IF Acknowledged(c, s) THEN NoFlight ELSE c.flights[s]
    BY <1>2, <2>2 DEF Observed, Command
  <2>4. /\ telemetry'.at \in {"loop", "check"}
        /\ telemetry'.at = "check" => telemetry'.todo = ToSend(c) /\ telemetry'.desired = c.latest.desired
    BY <1>1, <1>3, <1>4 DEF Telemetry
  <2>5. ASSUME NEW s \in Sides
        PROVE  /\ ~AtPress(s) /\ ~AtPress(s)'
               /\ InAir(s) = command.flights[s].active /\ InAir(s)' = command'.flights[s].active
               /\ Goal(s) = command.flights[s].desired /\ Goal(s)' = command'.flights[s].desired
    <3>1. ~Away(s) /\ ~Away(s)' /\ ~AtPress(s) /\ ~AtPress(s)'
      BY <1>3, <2>4 DEF Away, AtPress
    <3>2. command.flights[s].active \in BOOLEAN /\ command'.flights[s].active \in BOOLEAN
      <4>1. command.flights[s] \in Flight
        BY <1>1 DEF Command
      <4>2. command'.flights[s] \in Flight
        BY <1>2, <2>3, <4>1, EmptyTypes
      <4>3. QED
        BY <4>1, <4>2 DEF Flight
    <3>3. QED
      BY <3>1, <3>2 DEF InAir, Goal
  <2>6. ASSUME NEW s \in Sides
        PROVE  /\ Route(sim', lamps', s, InAir(s)', Goal(s)')
               /\ InAir(s)' => InAir(s)
               /\ s \in Idle(c) => ~InAir(s)' /\ (s \in sim'.on) = (s \in lamps.on)
    <3>1. Route(sim, lamps, s, InAir(s), Goal(s)) /\ InAir(s) \in BOOLEAN /\ Goal(s) \in BOOLEAN
      BY RouteTypes DEF Watched, Followed
    <3>2. CASE Acknowledged(c, s)
      <4>1. command.flights[s].active /\ (s \in lamps.on) = command.flights[s].desired
        BY <1>2, <3>2 DEF Acknowledged
      <4>2. InAir(s) /\ (s \in lamps.on) = Goal(s)
        BY <2>5, <4>1
      <4>3. Route(sim, lamps, s, TRUE, Goal(s))
        BY <3>1, <4>2
      <4>4. Still(sim, lamps, s)
        BY <2>1, <3>1, <4>2, <4>3, RouteEnds
      <4>5. ~InAir(s)'
        BY <2>3, <2>5, <3>2 DEF NoFlight
      <4>6. Route(sim', lamps', s, InAir(s)', Goal(s)')
        BY <1>3, <4>4, <4>5 DEF Route
      <4>7. (s \in sim'.on) = (s \in lamps.on)
        BY <1>3, <2>1, <4>4 DEF Still
      <4>8. QED
        BY <4>2, <4>5, <4>6, <4>7
    <3>3. CASE ~Acknowledged(c, s)
      <4>1. InAir(s)' = InAir(s) /\ Goal(s)' = Goal(s)
        BY <1>2, <2>3, <2>5, <3>3
      <4>2. Route(sim', lamps', s, InAir(s)', Goal(s)')
        BY <1>3, <3>1, <4>1
      <4>3. ASSUME s \in Idle(c)
            PROVE  ~InAir(s)' /\ (s \in sim'.on) = (s \in lamps.on)
        <5>1. ~InAir(s)
          BY <1>2, <2>5, <3>3, <4>3 DEF Idle
        <5>2. Still(sim, lamps, s)
          BY <3>1, <5>1 DEF Route
        <5>3. QED
          BY <1>3, <2>1, <4>1, <5>1, <5>2 DEF Still
      <4>4. QED
        BY <4>1, <4>2, <4>3
    <3>4. QED
      BY <3>2, <3>3
  <2>7. Followed'
    BY <2>6 DEF Followed
  <2>8. Aimed'
    <3>1. ASSUME NEW s \in Sides, AtPress(s)' \/ (telemetry'.at # "loop" /\ s \in telemetry'.todo)
          PROVE  ~InAir(s)' /\ (s \in sim'.on) = (s \notin telemetry'.desired)
      <4>1. s \in ToSend(c) /\ telemetry'.desired = c.latest.desired
        BY <2>4, <2>5, <3>1
      <4>2. s \in Idle(c) /\ ~(s \in lamps.on <=> s \in c.latest.desired)
        BY <4>1 DEF ToSend, Done
      <4>3. QED
        BY <2>6, <4>1, <4>2
    <3>2. QED
      BY <2>4, <3>1 DEF Aimed
  <2>9. Retired'
    <3> SUFFICES ASSUME ~command'.failed, NEW s \in command'.latest.selected \ command'.pending
                 PROVE  ~InAir(s)' /\ ~AtPress(s)' /\ (s \in sim'.on) = (s \in command'.latest.desired)
      BY DEF Retired
    <3>1. c = command
      BY <1>2, <2>3
    <3>2. s \in command.latest.selected /\ (s \notin command.pending \/ s \in Done(c)) /\ s \in Sides
      BY <1>1, <2>3, <3>1 DEF Command, Request
    <3>3. CASE s \notin command.pending
      <4>1. ~InAir(s) /\ (s \in sim.on) = (s \in command.latest.desired)
        BY <2>3, <3>1, <3>2, <3>3 DEF Watched, Retired
      <4>2. ~InAir(s)'
        BY <2>6, <3>2, <4>1
      <4>3. QED
        BY <1>3, <2>3, <2>5, <3>1, <3>2, <4>1, <4>2
    <3>4. CASE s \in Done(c)
      <4>1. s \in Idle(c) /\ (s \in lamps.on <=> s \in c.latest.desired)
        BY <3>4 DEF Done
      <4>2. ~InAir(s)' /\ (s \in sim'.on) = (s \in lamps.on)
        BY <2>6, <3>2, <4>1
      <4>3. QED
        BY <2>3, <2>5, <3>2, <4>1, <4>2
    <3>5. QED
      BY <3>2, <3>3, <3>4
  <2>10. QED
    BY <2>7, <2>8, <2>9 DEF Watched
<1>7. QED
  BY <1>5, <1>6

\* A side is taken up only while its request still waits for it.
LEMMA CheckWatched ==
  ASSUME Typed, Watched, NEW ready \in BOOLEAN, Check(ready)
  PROVE  Watched'
<1>1. telemetry.at = "check" /\ UNCHANGED <<command, lamps, sim>>
  BY DEF Check
<1>2. PICK s \in telemetry.todo :
        telemetry' = IF ready /\ current(s)
                     THEN [telemetry EXCEPT !.at = "press", !.todo = telemetry.todo \ {s}, !.side = {s}]
                     ELSE [telemetry EXCEPT !.at = IF telemetry.todo \ {s} = {} THEN "loop" ELSE "check",
                                            !.todo = telemetry.todo \ {s}]
  BY DEF Check
<1>3. telemetry \in Telemetry /\ command \in Command
  BY DEF Typed, TypeOK
<1>4. /\ telemetry'.todo = telemetry.todo \ {s} /\ telemetry'.desired = telemetry.desired
      /\ telemetry'.at \in {"loop", "check", "press"}
      /\ telemetry'.at = "press" => telemetry'.side = {s} /\ s \in command.pending
  <2>1. CASE ready /\ current(s)
    <3>1. telemetry' = [telemetry EXCEPT !.at = "press", !.todo = telemetry.todo \ {s}, !.side = {s}]
      BY <1>2, <2>1
    <3>2. QED
      BY <1>3, <2>1, <3>1 DEF Telemetry, current
  <2>2. CASE ~(ready /\ current(s))
    <3>1. PICK at \in {"loop", "check"} :
            telemetry' = [telemetry EXCEPT !.at = at, !.todo = telemetry.todo \ {s}]
      BY <1>2, <2>2
    <3>2. QED
      BY <1>3, <3>1 DEF Telemetry
  <2>3. QED
    BY <2>1, <2>2
<1>5. \A t \in Sides : InAir(t)' = InAir(t) /\ Goal(t)' = Goal(t)
  BY <1>1, <1>4 DEF InAir, Goal, Away
<1>6. Followed'
  <2>1. \A t \in Sides, gone \in BOOLEAN, goal \in BOOLEAN :
          Route(sim, lamps, t, gone, goal) => Route(sim', lamps', t, gone, goal)
    BY <1>1
  <2>2. QED
    BY <1>5, <2>1, FollowedIf, Zenon DEF Watched
<1>7. \A t \in Sides : AtPress(t)' => t = s
  BY <1>4 DEF AtPress
<1>8. Aimed'
  <2>1. ASSUME NEW t \in Sides, AtPress(t)' \/ (telemetry'.at # "loop" /\ t \in telemetry'.todo)
        PROVE  ~InAir(t)' /\ (t \in sim'.on) = (t \notin telemetry'.desired)
    <3>1. t \in telemetry.todo
      BY <1>4, <1>7, <2>1
    <3>2. ~InAir(t) /\ (t \in sim.on) = (t \notin telemetry.desired)
      BY <1>1, <3>1 DEF Watched, Aimed
    <3>3. QED
      BY <1>1, <1>4, <1>5, <3>2
  <2>2. telemetry'.at \in {"press", "sent"} => telemetry'.side \cap telemetry'.todo = {}
    BY <1>4
  <2>3. QED
    BY <2>1, <2>2 DEF Aimed
<1>9. Retired'
  <2> SUFFICES ASSUME ~command'.failed, NEW t \in command'.latest.selected \ command'.pending
               PROVE  ~InAir(t)' /\ ~AtPress(t)' /\ (t \in sim'.on) = (t \in command'.latest.desired)
    BY DEF Retired
  <2>1. t \in Sides
    BY <1>1, <1>3 DEF Command, Request
  <2>2. ~InAir(t) /\ (t \in sim.on) = (t \in command.latest.desired) /\ t \notin command.pending
    BY <1>1 DEF Watched, Retired
  <2>3. ~AtPress(t)'
    BY <1>4, <1>7, <2>1, <2>2 DEF AtPress
  <2>4. QED
    BY <1>1, <1>5, <2>1, <2>2, <2>3
<1>10. QED
  BY <1>6, <1>8, <1>9 DEF Watched

\* A press that SimConnect takes is on its way for the one side.
LEMMA PressWatched ==
  ASSUME Typed, Typed', Counted, Watched, NEW accepted \in BOOLEAN, Press(accepted)
  PROVE  Watched'
<1>1. telemetry.at = "press" /\ UNCHANGED <<command, lamps>>
  BY DEF Press
<1>2. PICK s \in Sides : telemetry.side = {s}
  BY <1>1 DEF Counted, Pressing
<1> DEFINE m == [kind |-> "press", side |-> {s}, serial |-> telemetry.serial]
<1>3. /\ telemetry'.at = "sent" /\ telemetry'.accepted = accepted /\ telemetry'.side = {s}
      /\ telemetry'.todo = telemetry.todo /\ telemetry'.desired = telemetry.desired
  BY <1>2 DEF Press, Typed, TypeOK, Telemetry
<1>4. sim' = IF accepted THEN [sim EXCEPT !.line = Append(sim.line, m)] ELSE sim
  BY <1>2 DEF Press
<1>5. m \in Message /\ sim \in Connection /\ sim' \in Connection /\ lamps \in Lamps
  <2>1. telemetry.serial \in 0..MaxSerial
    BY DEF Typed, TypeOK, Telemetry
  <2>2. m \in Message
    BY <2>1 DEF Message
  <2>3. QED
    BY <2>2 DEF Typed, TypeOK, Connection
<1>6. sim'.on = sim.on /\ sim'.replies = sim.replies /\ (accepted => sim'.line = Append(sim.line, m))
  BY <1>4, <1>5 DEF Connection
<1>7. m.kind = "press" /\ m.side = {s}
  OBVIOUS
<1> HIDE DEF m
<1>8. ASSUME NEW t \in Sides, accepted => t # s
      PROVE  InAir(t)' = InAir(t) /\ Goal(t)' = Goal(t)
  <2>1. ~Away(t) /\ ~Away(t)'
    BY <1>1, <1>3, <1>8 DEF Away
  <2>2. QED
    BY <1>1, <2>1 DEF InAir, Goal
<1>9. ~InAir(s) /\ (s \in sim.on) = (s \notin telemetry.desired)
  BY <1>1, <1>2 DEF Watched, Aimed, AtPress
<1>10. ASSUME accepted, NEW t \in Sides, t # s, NEW gone \in BOOLEAN, NEW goal \in BOOLEAN,
              Route(sim, lamps, t, gone, goal)
       PROVE  Route(sim', lamps, t, gone, goal)
  <2>1. ~(m.kind = "press" /\ t \in m.side) /\ sim'.line = Append(sim.line, m)
    BY <1>6, <1>7, <1>10
  <2>2. sim'.replies = sim.replies /\ sim'.on = sim.on
    BY <1>6
  <2>3. QED
    BY <1>5, <1>10, <2>1, <2>2, RouteWaits
<1>11. ASSUME NEW t \in Sides
       PROVE  Route(sim', lamps', t, InAir(t)', Goal(t)')
  <2>1. Route(sim, lamps, t, InAir(t), Goal(t)) /\ InAir(t) \in BOOLEAN /\ Goal(t) \in BOOLEAN
    BY RouteTypes DEF Watched, Followed
  <2>2. CASE ~accepted
    BY <1>1, <1>4, <1>8, <2>1, <2>2
  <2>3. CASE accepted /\ t # s
    <3>1. Route(sim', lamps, t, InAir(t), Goal(t))
      BY <1>10, <2>1, <2>3
    <3>2. QED
      BY <1>1, <1>8, <2>3, <3>1
  <2>4. CASE accepted /\ t = s
    <3>1. Still(sim, lamps, s)
      BY <1>9, <2>1, <2>4 DEF Route
    <3> DEFINE goal == s \in telemetry.desired
    <3>2. goal \in BOOLEAN /\ (s \in sim.on) = ~goal
      BY <1>9
    <3>3. Coming(sim', lamps, s, goal)
      <4> HIDE DEF goal
      <4>1. QED
        BY <1>5, <1>6, <2>4, <3>1, <3>2, RouteStarts
    <3>4. Away(s)'
      BY <1>3, <2>4 DEF Away
    <3>5. InAir(s)' /\ Goal(s)' = goal
      BY <1>3, <3>4 DEF InAir, Goal
    <3>6. QED
      BY <1>1, <2>4, <3>3, <3>5 DEF Route
  <2>5. QED
    BY <2>2, <2>3, <2>4
<1>12. Followed'
  BY <1>11 DEF Followed
<1>13. Aimed'
  <2>1. telemetry.side \cap telemetry.todo = {}
    BY <1>1 DEF Watched, Aimed
  <2>2. ASSUME NEW t \in Sides, AtPress(t)' \/ (telemetry'.at # "loop" /\ t \in telemetry'.todo)
        PROVE  ~InAir(t)' /\ (t \in sim'.on) = (t \notin telemetry'.desired)
    <3>1. t \in telemetry.todo /\ t # s
      BY <1>2, <1>3, <2>1, <2>2 DEF AtPress
    <3>2. ~InAir(t) /\ (t \in sim.on) = (t \notin telemetry.desired)
      BY <1>1, <3>1 DEF Watched, Aimed
    <3>3. QED
      BY <1>3, <1>6, <1>8, <3>1, <3>2
  <2>3. telemetry'.side \cap telemetry'.todo = {}
    BY <1>2, <1>3, <2>1
  <2>4. QED
    BY <2>2, <2>3 DEF Aimed
<1>14. Retired'
  <2> SUFFICES ASSUME ~command'.failed, NEW t \in command'.latest.selected \ command'.pending
               PROVE  ~InAir(t)' /\ ~AtPress(t)' /\ (t \in sim'.on) = (t \in command'.latest.desired)
    BY DEF Retired
  <2>1. t \in Sides
    BY <1>1, RouteTypes DEF Command, Request
  <2>2. ~InAir(t) /\ ~AtPress(t) /\ (t \in sim.on) = (t \in command.latest.desired)
    BY <1>1 DEF Watched, Retired
  <2>3. t # s
    BY <1>1, <1>2, <2>2 DEF AtPress
  <2>4. ~AtPress(t)'
    BY <1>3 DEF AtPress
  <2>5. QED
    BY <1>1, <1>6, <1>8, <2>1, <2>2, <2>3, <2>4
<1>15. QED
  BY <1>12, <1>13, <1>14 DEF Watched

\* sent() takes over what the thread knew of the side.
LEMMA SentWatched == ASSUME Typed, Counted, Watched, Sent PROVE Watched'
<1>1. telemetry.at = "sent" /\ UNCHANGED <<lamps, sim>>
  BY DEF Sent
<1>2. PICK s \in Sides : telemetry.side = {s}
  BY <1>1 DEF Counted, Pressing
<1>3. command' = sent(command, s)
  BY <1>2 DEF Sent
<1>4. command \in Command /\ telemetry \in Telemetry
  BY DEF Typed, TypeOK
<1>5. /\ telemetry'.at \in {"loop", "check"} /\ telemetry'.todo = telemetry.todo
      /\ telemetry'.desired = telemetry.desired
  BY <1>4 DEF Sent, Telemetry
<1>6. /\ \/ command'.failed
         \/ /\ command'.latest = command.latest /\ command'.pending = command.pending
            /\ command'.failed = command.failed
      /\ telemetry.accepted => /\ command'.flights[s].active
                               /\ command'.flights[s].desired = (s \in telemetry.desired)
      /\ \A t \in Sides : (telemetry.accepted /\ t = s) \/ command'.flights[t] = command.flights[t]
  <2>1. CASE telemetry.accepted
    <3> DEFINE f == [active |-> TRUE, desired |-> s \in telemetry.desired,
                     newer |-> FALSE, serial |-> telemetry.serial]
    <3>1. command' = [command EXCEPT !.flights[s] = f]
      BY <1>3, <2>1 DEF sent
    <3>2. f.active /\ f.desired = (s \in telemetry.desired)
      OBVIOUS
    <3> HIDE DEF f
    <3>3. QED
      BY <1>4, <2>1, <3>1, <3>2 DEF Command
  <2>2. CASE ~telemetry.accepted
    <3>1. command' = fail(command) \/ command' = command
      BY <1>3, <2>2 DEF sent
    <3>2. QED
      BY <1>4, <2>2, <3>1, FailEffect
  <2>3. QED
    BY <2>1, <2>2
<1>7. ASSUME NEW t \in Sides
      PROVE  InAir(t)' = InAir(t) /\ Goal(t)' = Goal(t)
  <2>1. ~Away(t)' /\ (Away(t) <=> telemetry.accepted /\ t = s)
    BY <1>1, <1>2, <1>5 DEF Away
  <2>2. CASE Away(t)
    BY <1>6, <2>1, <2>2 DEF InAir, Goal
  <2>3. CASE ~Away(t)
    BY <1>6, <2>1, <2>3 DEF InAir, Goal
  <2>4. QED
    BY <2>2, <2>3
<1>8. Followed'
  <2>1. \A t \in Sides, gone \in BOOLEAN, goal \in BOOLEAN :
          Route(sim, lamps, t, gone, goal) => Route(sim', lamps', t, gone, goal)
    BY <1>1
  <2>2. QED
    BY <1>7, <2>1, FollowedIf, Zenon DEF Watched
<1>9. \A t \in Sides : ~AtPress(t)'
  BY <1>5 DEF AtPress
<1>10. Aimed'
  <2>1. ASSUME NEW t \in Sides, telemetry'.at # "loop" /\ t \in telemetry'.todo
        PROVE  ~InAir(t)' /\ (t \in sim'.on) = (t \notin telemetry'.desired)
    <3>1. ~InAir(t) /\ (t \in sim.on) = (t \notin telemetry.desired)
      BY <1>1, <1>5, <2>1 DEF Watched, Aimed
    <3>2. QED
      BY <1>1, <1>5, <1>7, <3>1
  <2>2. QED
    BY <1>5, <1>9, <2>1 DEF Aimed
<1>11. Retired'
  <2> SUFFICES ASSUME ~command'.failed, NEW t \in command'.latest.selected \ command'.pending
               PROVE  ~InAir(t)' /\ ~AtPress(t)' /\ (t \in sim'.on) = (t \in command'.latest.desired)
    BY DEF Retired
  <2>1. command'.latest = command.latest /\ command'.pending = command.pending /\ ~command.failed
    BY <1>6
  <2>2. t \in Sides
    BY <1>4, <2>1 DEF Command, Request
  <2>3. ~InAir(t) /\ (t \in sim.on) = (t \in command.latest.desired)
    BY <2>1 DEF Watched, Retired
  <2>4. QED
    BY <1>1, <1>7, <1>9, <2>1, <2>2, <2>3
<1>12. QED
  BY <1>8, <1>10, <1>11 DEF Watched

\* The simulator's own steps.
LEMMA HandleRoute ==
  ASSUME Typed, Typed', NEW outcome \in Outcomes, Handle(outcome),
         NEW s \in Sides, NEW gone \in BOOLEAN, NEW goal \in BOOLEAN, Route(sim, lamps, s, gone, goal)
  PROVE  Route(sim', lamps, s, gone, goal) /\ (~gone => (s \in sim'.on) = (s \in sim.on))
<1> DEFINE m == Head(sim.line)
<1>1. UNCHANGED <<command, lamps, telemetry>> /\ sim.line # << >>
  BY DEF Handle
<1>2. sim \in Connection /\ sim' \in Connection /\ lamps \in Lamps
  BY DEF Typed, TypeOK, Connection
<1>3. m \in Message
  BY <1>1, <1>2, HeadTail DEF Connection
<1>4. /\ sim'.line = Tail(sim.line)
      /\ sim'.on = IF m.kind = "press" /\ outcome = "flips"
                   THEN (sim.on \ m.side) \cup (m.side \ sim.on) ELSE sim.on
      /\ sim'.replies = CASE m.kind = "poll" ->
                                Append(sim.replies, [kind |-> "lamps", sides |-> sim.on, serial |-> 0])
                          [] m.kind = "press" /\ outcome = "refused" ->
                                Append(sim.replies, [kind |-> "refused", sides |-> m.side,
                                                     serial |-> m.serial])
                          [] OTHER -> sim.replies
  BY DEF Handle
<1> HIDE DEF m
<1>5. CASE m.kind = "poll"
  <2>1. /\ sim'.on = sim.on
        /\ sim'.replies = Append(sim.replies, [kind |-> "lamps", sides |-> sim.on, serial |-> 0])
    BY <1>4, <1>5
  <2>2. QED
    BY <1>1, <1>2, <1>4, <2>1, RouteHandlesPoll
<1>6. CASE m.kind = "press"
  <2>1. /\ Head(sim.line).kind = "press"
        /\ \/ /\ sim'.on = (sim.on \ Head(sim.line).side) \cup (Head(sim.line).side \ sim.on)
              /\ sim'.replies = sim.replies
           \/ sim'.on = sim.on /\ sim'.replies = sim.replies
           \/ /\ sim'.on = sim.on
              /\ sim'.replies = Append(sim.replies, [kind |-> "refused",
                                                     sides |-> Head(sim.line).side,
                                                     serial |-> Head(sim.line).serial])
    BY <1>4, <1>6 DEF m
  <2>2. sim.line # << >> /\ sim'.line = Tail(sim.line)
    BY <1>1, <1>4
  <2>3. QED
    BY <1>2, <2>1, <2>2, RouteHandlesPress
<1>7. QED
  BY <1>3, <1>5, <1>6 DEF Message

LEMMA HandleWatched ==
  ASSUME Typed, Typed', Watched, NEW outcome \in Outcomes, Handle(outcome)
  PROVE  Watched'
<1>1. UNCHANGED <<command, lamps, telemetry>>
  BY DEF Handle
<1>2. ASSUME NEW s \in Sides, NEW gone \in BOOLEAN, NEW goal \in BOOLEAN,
             Route(sim, lamps, s, gone, goal)
      PROVE  Route(sim', lamps, s, gone, goal) /\ (~gone => (s \in sim'.on) = (s \in sim.on))
  BY <1>2, HandleRoute
<1>3. \A s \in Sides : InAir(s)' = InAir(s) /\ Goal(s)' = Goal(s)
  BY <1>1 DEF InAir, Goal, Away
<1>4. Followed'
  <2>1. \A s \in Sides, gone \in BOOLEAN, goal \in BOOLEAN :
          Route(sim, lamps, s, gone, goal) => Route(sim', lamps', s, gone, goal)
    BY <1>1, <1>2, Zenon
  <2>2. QED
    BY <1>3, <2>1, FollowedIf, Zenon DEF Watched
<1>5. ASSUME NEW s \in Sides, ~InAir(s)
      PROVE  (s \in sim'.on) = (s \in sim.on)
  <2>1. Route(sim, lamps, s, InAir(s), Goal(s)) /\ Goal(s) \in BOOLEAN /\ InAir(s) = FALSE
    BY <1>5, RouteTypes DEF Watched, Followed
  <2>2. Route(sim, lamps, s, FALSE, Goal(s))
    BY <2>1
  <2>3. QED
    BY <1>2, <2>1, <2>2
<1>6. Aimed' /\ Retired'
  BY <1>1, <1>3, <1>5, DecisionKept DEF Watched
<1>7. QED
  BY <1>4, <1>6 DEF Watched

LEMMA SeenKeeps ==
  ASSUME past \in Past, NEW c, Seen(c)
  PROVE  /\ past'.hands = past.hands /\ past'.resets = past.resets /\ past'.intent = past.intent
         /\ past'.failed = (past.failed \/ c.failed)
<1>1. past' = [past EXCEPT !.failed = past.failed \/ c.failed]
  BY DEF Seen
<1>2. QED
  BY <1>1 DEF Past

\* An undisturbed session was undisturbed before, and this step did not disturb it.
LEMMA OnlyThreeDisturb ==
  ASSUME Typed, Next, Undisturbed'
  PROVE  Undisturbed /\ ~ChangeSession /\ ~SelectProfile /\ \A s \in Sides : ~HandPress(s)
<1>1. past \in Past /\ past.hands \in Nat /\ past.resets \in Nat
  BY DEF Typed, TypeOK, Past
<1>2. CASE ChangeSession \/ SelectProfile
  <2>1. past'.resets = past.resets + 1
    BY <1>1, <1>2 DEF ChangeSession, SelectProfile, Past
  <2>2. QED
    BY <1>1, <2>1 DEF Undisturbed
<1>3. CASE \E s \in Sides : HandPress(s)
  <2>1. past'.hands = past.hands + 1
    BY <1>1, <1>3 DEF HandPress, Past
  <2>2. QED
    BY <1>1, <2>1 DEF Undisturbed
<1>4. CASE ~ChangeSession /\ ~SelectProfile /\ \A s \in Sides : ~HandPress(s)
  <2>1. past'.hands = past.hands /\ past'.resets = past.resets
    <3>1. CASE TelemetryStep
      <4>1. CASE \E c : Seen(c)
        BY <1>1, <4>1, SeenKeeps
      <4>2. CASE UNCHANGED past
        BY <4>2
      <4>3. CASE \E accepted \in BOOLEAN : Press(accepted)
        BY <1>1, <4>3 DEF Press, Past
      <4>4. QED
        BY <1>4, <3>1, <4>1, <4>2, <4>3
           DEF TelemetryStep, RequestLamps, ReceiveLamps, ReceiveRefusal, Step, Check, Sent
    <3>2. CASE BridgeStep
      <4>1. CASE \E c : Seen(c)
        BY <1>1, <4>1, SeenKeeps
      <4>2. QED
        BY <1>4, <3>2, <4>1 DEF BridgeStep, Update, Acknowledge, Publish
    <3>3. CASE \E affected \in Actions : Shortcut(affected)
      BY <1>1, <3>3 DEF Shortcut, Past
    <3>4. CASE SyncSession \/ (\E outcome \in Outcomes : Handle(outcome)) \/ Tick
      BY <3>4 DEF SyncSession, Handle, Tick
    <3>5. QED
      BY <1>4, <3>1, <3>2, <3>3, <3>4 DEF Next
  <2>2. QED
    BY <1>4, <2>1 DEF Undisturbed
<1>5. QED
  BY <1>2, <1>3, <1>4

LEMMA InitWatched == ASSUME Init PROVE Watched
<1>1. /\ command.pending = {} /\ command.latest.selected = {} /\ telemetry.at = "loop"
      /\ \A s \in Sides : ~command.flights[s].active
      /\ ~lamps.valid /\ sim.line = << >> /\ sim.replies = << >>
  BY DEF Init, NoRequest, NoFlight
<1>2. \A s \in Sides : ~InAir(s) /\ ~AtPress(s)
  BY <1>1 DEF InAir, Away, AtPress
<1>3. \A s : Still(sim, lamps, s)
  BY <1>1 DEF Still, PressesOf, RefusalsOf, AllShow
<1>4. Followed
  BY <1>2, <1>3 DEF Followed, Route
<1>5. Aimed /\ Retired
  BY <1>1, <1>2 DEF Aimed, Retired
<1>6. QED
  BY <1>4, <1>5 DEF Watched

LEMMA NextWatched ==
  ASSUME Typed, Typed', Counted, Undisturbed => Watched, Next, Undisturbed'
  PROVE  Watched'
<1>1. Watched /\ ~ChangeSession /\ ~SelectProfile /\ \A s \in Sides : ~HandPress(s)
  BY OnlyThreeDisturb
<1>2. CASE TelemetryStep
  <2>1. CASE RequestLamps
    BY <1>1, <2>1, RequestLampsWatched
  <2>2. CASE \E valid, later \in BOOLEAN : ReceiveLamps(valid, later)
    BY <1>1, <2>2, ReceiveLampsWatched
  <2>3. CASE ReceiveRefusal
    BY <1>1, <2>3, ReceiveRefusalWatched
  <2>4. CASE \E identity \in BOOLEAN : Step(identity)
    BY <1>1, <2>4, StepWatched
  <2>5. CASE \E ready \in BOOLEAN : Check(ready)
    BY <1>1, <2>5, CheckWatched
  <2>6. CASE \E accepted \in BOOLEAN : Press(accepted)
    BY <1>1, <2>6, PressWatched
  <2>7. CASE Sent
    BY <1>1, <2>7, SentWatched
  <2>8. QED
    BY <1>1, <1>2, <2>1, <2>2, <2>3, <2>4, <2>5, <2>6, <2>7 DEF TelemetryStep
<1>3. CASE BridgeStep
  <2>1. CASE \E connected, permitted \in BOOLEAN : Update(connected, permitted)
    BY <1>1, <2>1, UpdateWatched
  <2>2. CASE Acknowledge \/ Publish
    BY <1>1, <2>2, ElsewhereWatched
  <2>3. QED
    BY <1>1, <1>3, <2>1, <2>2 DEF BridgeStep
<1>4. CASE SyncSession \/ (\E affected \in Actions : Shortcut(affected)) \/ Tick
  BY <1>1, <1>4, ElsewhereWatched
<1>5. CASE \E outcome \in Outcomes : Handle(outcome)
  BY <1>1, <1>5, HandleWatched
<1>6. QED
  BY <1>1, <1>2, <1>3, <1>4, <1>5 DEF Next

\* What the telemetry thread knows says what is on the connection.
LEMMA WatchedAlways == Spec => [](Undisturbed => Watched)
<1>1. Init => (Undisturbed => Watched)
  BY InitWatched
<1>2. Typed /\ Typed' /\ Counted /\ (Undisturbed => Watched) /\ [Next]_vars => (Undisturbed => Watched)'
  <2> SUFFICES ASSUME Typed, Typed', Counted, Undisturbed => Watched, [Next]_vars, Undisturbed'
               PROVE  Watched'
    OBVIOUS
  <2>1. CASE Next
    BY <2>1, NextWatched
  <2>2. CASE UNCHANGED vars
    <3>1. Undisturbed
      BY <2>2 DEF Undisturbed, vars
    <3>2. QED
      BY <2>2, <3>1, IdleWatched DEF vars
  <2>3. QED
    BY <2>1, <2>2
<1>3. QED
  BY <1>1, <1>2, TypedAlways, CountedAlways, PTL DEF Spec

(***************************************************************************)
(* A retired request is done.                                              *)
(***************************************************************************)
\* While only Taxi Cam's own presses move the buttons: a side that the worker no longer
\* waits for, without a failure, is as its request asked, and no press that would
\* move it again is on the connection, whatever the order of samples and presses.
THEOREM RetiredDone == Spec => []RetiredMeansDone
<1>1. Typed /\ (Undisturbed => Watched) => RetiredMeansDone
  <2> SUFFICES ASSUME Typed, Watched, ~command.failed,
                      NEW s \in command.latest.selected \ command.pending
               PROVE  Presses(s) = {} /\ (s \in sim.on <=> s \in command.latest.desired)
    BY DEF RetiredMeansDone
  <2>1. s \in Sides
    BY RouteTypes DEF Command, Request
  <2>2. ~InAir(s) /\ (s \in sim.on) = (s \in command.latest.desired)
    BY DEF Watched, Retired
  <2>3. Route(sim, lamps, s, InAir(s), Goal(s))
    BY <2>1 DEF Watched, Followed
  <2>4. PressesOf(sim, s) = {}
    BY <2>2, <2>3 DEF Route, Still
  <2>5. Presses(s) \subseteq PressesOf(sim, s)
    BY DEF Presses, PressesOf
  <2>6. QED
    BY <2>2, <2>4, <2>5
<1>2. QED
  BY <1>1, TypedAlways, WatchedAlways, PTL

(***************************************************************************)
(* The companion's request and the pilot's shortcuts.                      *)
(***************************************************************************)

\* The sides for which the pilot's last shortcut is not carried out yet.
Open == IF settings.serial > command.latest.serial THEN settings.selected ELSE command.pending

\* What the worker read of the request: it is behind, or waits for no less.
Reported(seen, pending) ==
    /\ seen <= command.latest.serial
    /\ seen = command.latest.serial => command.pending \subseteq pending

\* The companion's request and what it learnt of its state follow the command.
Ordered ==
    /\ command.latest.serial <= settings.serial
    /\ command.latest.serial = settings.serial => command.latest = settings
    /\ bridge.at = "publish" => Reported(bridge.seen, bridge.pending)
    /\ Reported(status.seen, status.pending)
    /\ command.pending \subseteq Open \cap command.latest.selected

\* The request, the buttons and the published lamps, each where it speaks, are what
\* the pilot's shortcuts so far ask for.
Meant ==
    /\ settings.desired = past.intent \cap settings.selected
    /\ \A s \in Sides \ Open :
          ~InAir(s) /\ ~AtPress(s) /\ (s \in sim.on) = (s \in past.intent)
    /\ status.valid =>
          \A s \in Sides \ Unanswered(settings) : (s \in status.mask) = (s \in past.intent)

OneEpoch == bridge.epoch = 1 /\ status.epoch = 1 /\ settings.epoch = 1

Tracked == ~command.failed /\ OneEpoch /\ Ordered /\ Meant

\* sent() as the request and the flights see it.
LEMMA SentEffect ==
  ASSUME Typed, Sent, telemetry.side \subseteq Sides
  PROVE  /\ \/ command'.failed
            \/ /\ command'.latest = command.latest /\ command'.pending = command.pending
               /\ command'.failed = command.failed
         /\ \A t \in Sides : command'.flights[t].active => InAir(t)
<1>1. PICK s \in telemetry.side : command' = sent(command, s)
  BY DEF Sent
<1>2. command \in Command /\ s \in Sides /\ telemetry.at = "sent"
  BY DEF Typed, TypeOK, Sent
<1>3. CASE telemetry.accepted
  <2> DEFINE f == [active |-> TRUE, desired |-> s \in telemetry.desired,
                   newer |-> FALSE, serial |-> telemetry.serial]
  <2>1. command' = [command EXCEPT !.flights[s] = f]
    BY <1>1, <1>3 DEF sent
  <2> HIDE DEF f
  <2>2. /\ command'.latest = command.latest /\ command'.pending = command.pending
        /\ command'.failed = command.failed
        /\ \A t \in Sides : t = s \/ command'.flights[t] = command.flights[t]
    BY <1>2, <2>1 DEF Command
  <2>3. InAir(s)
    BY <1>2, <1>3 DEF InAir, Away
  <2>4. QED
    BY <2>2, <2>3 DEF InAir
<1>4. CASE ~telemetry.accepted
  <2>1. command' = fail(command) \/ command' = command
    BY <1>1, <1>4 DEF sent
  <2>2. QED
    BY <1>2, <2>1, FailEffect DEF InAir
<1>5. QED
  BY <1>3, <1>4

LEMMA RefusalEffect ==
  ASSUME Typed, ReceiveRefusal
  PROVE  /\ \/ command'.failed
            \/ /\ command'.latest = command.latest /\ command'.pending = command.pending
               /\ command'.failed = command.failed
         /\ \A t \in Sides : command'.flights[t].active => command.flights[t].active
         /\ telemetry'.at = "loop"
<1>1. command \in Command /\ telemetry \in Telemetry
  BY DEF Typed, TypeOK
<1>2. telemetry'.at = "loop"
  BY <1>1 DEF ReceiveRefusal, Telemetry
<1>3. CASE command' = command
  BY <1>2, <1>3
<1>4. ASSUME NEW s, command' = rejected(command, s)
      PROVE  /\ \/ command'.failed
                \/ /\ command'.latest = command.latest /\ command'.pending = command.pending
                   /\ command'.failed = command.failed
             /\ \A t \in Sides : command'.flights[t].active => command.flights[t].active
  <2> DEFINE cleared == [command EXCEPT !.flights[s] = NoFlight]
  <2>1. cleared \in Command
    BY <1>1, EmptyTypes DEF Command
  <2>2. /\ cleared.latest = command.latest /\ cleared.pending = command.pending
        /\ cleared.failed = command.failed
        /\ \A t \in Sides : cleared.flights[t].active => command.flights[t].active
    BY <1>1 DEF Command, NoFlight
  <2>3. command' = command \/ command' = cleared \/ command' = fail(cleared)
    BY <1>4 DEF rejected
  <2> HIDE DEF cleared
  <2>4. QED
    BY <2>1, <2>2, <2>3, FailEffect
<1>5. QED
  BY <1>2, <1>3, <1>4 DEF ReceiveRefusal

LEMMA ReceiveLampsEffect ==
  ASSUME Typed, NEW valid \in BOOLEAN, NEW later \in BOOLEAN, ReceiveLamps(valid, later)
  PROVE  /\ command'.latest = command.latest /\ command'.pending = command.pending
         /\ command'.failed = command.failed
         /\ \A s \in Sides : command'.flights[s].active = command.flights[s].active
<1> DEFINE newer(s) == command.flights[s].newer \/ (valid /\ later /\ command.flights[s].active)
           flights == [s \in Sides |-> [command.flights[s] EXCEPT !.newer = newer(s)]]
<1>1. command' = [command EXCEPT !.flights = flights]
  BY Zenon DEF ReceiveLamps
<1>2. \A s \in Sides : command.flights[s] \in Flight
  BY RouteTypes
<1>3. \A s \in Sides : flights[s].active = command.flights[s].active
  BY <1>2 DEF Flight
<1> HIDE DEF flights
<1>4. QED
  BY <1>1, <1>3, RouteTypes DEF Command

\* What step() makes of the request.
LEMMA StepEffect ==
  ASSUME Typed, NEW identity \in BOOLEAN, Step(identity)
  PROVE  /\ command'.failed \/ (command'.latest = command.latest /\ command'.failed = command.failed
                                 /\ command'.pending \subseteq command.pending)
         /\ \A s \in Sides : command'.flights[s].active => command.flights[s].active
         /\ telemetry.at = "loop" /\ telemetry'.at \in {"loop", "check"}
<1> DEFINE c == Expired(command)
<1>1. command \in Command /\ telemetry \in Telemetry
  BY DEF Typed, TypeOK
<1>2. /\ c \in Command /\ c.flights = command.flights /\ c.latest = command.latest
      /\ c.failed \/ c = command
  BY <1>1, FailEffect, FailTypes DEF Expired
<1>3. telemetry.at = "loop" /\ telemetry'.at \in {"loop", "check"}
  BY <1>1 DEF Step, Telemetry
<1>4. command' = c \/ command' = Observed(c)
  BY DEF Step
<1> HIDE DEF c
<1>5. CASE command' = c
  BY <1>2, <1>3, <1>5
<1>6. CASE command' = Observed(c)
  <2>1. /\ command'.latest = c.latest /\ command'.failed = c.failed
        /\ command'.pending = c.pending \ Done(c)
        /\ \A s \in Sides : command'.flights[s] = IF Acknowledged(c, s) THEN NoFlight ELSE c.flights[s]
    BY <1>2, <1>6 DEF Observed, Command
  <2>2. QED
    BY <1>2, <1>3, <2>1 DEF NoFlight
<1>7. QED
  BY <1>4, <1>5, <1>6

Quiet(s) == ~InAir(s) /\ ~AtPress(s)

\* No step disturbs a side the command does not wait for.
LEMMA QuietStays ==
  ASSUME Typed, Typed', Counted, Watched, Next,
         ~ChangeSession, ~SelectProfile, \A t \in Sides : ~HandPress(t),
         NEW s \in Sides, Quiet(s), s \notin command.pending
  PROVE  Quiet(s)' /\ (s \in sim'.on) = (s \in sim.on)
<1>1. ~command.flights[s].active /\ ~Away(s) /\ ~AtPress(s)
  BY DEF Quiet, InAir
<1>2. ASSUME sim'.on = sim.on, ~command'.flights[s].active, telemetry'.at \in {"loop", "check"}
      PROVE  Quiet(s)' /\ (s \in sim'.on) = (s \in sim.on)
  BY <1>2 DEF Quiet, InAir, Away, AtPress
<1>3. ASSUME sim'.on = sim.on, ~command'.flights[s].active, UNCHANGED telemetry
      PROVE  Quiet(s)' /\ (s \in sim'.on) = (s \in sim.on)
  BY <1>1, <1>3 DEF Quiet, InAir, Away, AtPress
<1>4. CASE TelemetryStep
  <2>1. CASE RequestLamps
    <3>1. sim'.on = sim.on /\ UNCHANGED <<command, telemetry>>
      BY <2>1 DEF RequestLamps, Typed, TypeOK
    <3>2. QED
      BY <1>1, <1>3, <3>1
  <2>2. CASE \E valid, later \in BOOLEAN : ReceiveLamps(valid, later)
    <3>1. sim'.on = sim.on /\ UNCHANGED telemetry
      BY <2>2 DEF ReceiveLamps, Typed, TypeOK
    <3>2. QED
      BY <1>1, <1>3, <2>2, <3>1, ReceiveLampsEffect
  <2>3. CASE ReceiveRefusal
    <3>1. sim'.on = sim.on
      BY <2>3 DEF ReceiveRefusal, Typed, TypeOK
    <3>2. QED
      BY <1>1, <1>2, <2>3, <3>1, RefusalEffect
  <2>4. CASE \E identity \in BOOLEAN : Step(identity)
    <3>1. sim'.on = sim.on
      BY <2>4 DEF Step
    <3>2. QED
      BY <1>1, <1>2, <2>4, <3>1, StepEffect
  <2>5. CASE \E ready \in BOOLEAN : Check(ready)
    <3>1. PICK ready \in BOOLEAN, t \in telemetry.todo :
            telemetry' = IF ready /\ current(t)
                         THEN [telemetry EXCEPT !.at = "press", !.todo = telemetry.todo \ {t}, !.side = {t}]
                         ELSE [telemetry EXCEPT !.at = IF telemetry.todo \ {t} = {} THEN "loop" ELSE "check",
                                                !.todo = telemetry.todo \ {t}]
      BY <2>5 DEF Check
    <3>2. UNCHANGED <<command, sim>> /\ telemetry \in Telemetry
      BY <2>5 DEF Check, Typed, TypeOK
    <3>3. CASE ready /\ current(t)
      <4>1. telemetry'.at = "press" /\ telemetry'.side = {t} /\ t # s
        BY <3>1, <3>2, <3>3 DEF Telemetry, current
      <4>2. QED
        BY <1>1, <3>2, <4>1 DEF Quiet, InAir, Away, AtPress
    <3>4. CASE ~(ready /\ current(t))
      <4>1. telemetry'.at \in {"loop", "check"}
        BY <3>1, <3>2, <3>4 DEF Telemetry
      <4>2. QED
        BY <1>1, <1>2, <3>2, <4>1
    <3>5. QED
      BY <3>3, <3>4
  <2>6. CASE \E accepted \in BOOLEAN : Press(accepted)
    <3>1. PICK t \in Sides : telemetry.side = {t}
      BY <2>6 DEF Counted, Pressing, Press
    <3>2. /\ telemetry.at = "press" /\ telemetry'.at = "sent" /\ telemetry'.side = {t}
          /\ UNCHANGED command /\ sim'.on = sim.on
      BY <2>6, <3>1 DEF Press, Typed, TypeOK, Telemetry
    <3>3. t # s
      BY <1>1, <3>1, <3>2 DEF AtPress
    <3>4. QED
      BY <1>1, <3>2, <3>3 DEF Quiet, InAir, Away, AtPress
  <2>7. CASE Sent
    <3>1. sim'.on = sim.on /\ telemetry'.at \in {"loop", "check"} /\ telemetry.side \subseteq Sides
      BY <2>7 DEF Sent, Typed, TypeOK, Telemetry
    <3>2. ~command'.flights[s].active
      BY <2>7, <3>1, SentEffect DEF Quiet
    <3>3. QED
      BY <1>2, <3>1, <3>2
  <2>8. QED
    BY <1>4, <2>1, <2>2, <2>3, <2>4, <2>5, <2>6, <2>7 DEF TelemetryStep
<1>5. CASE BridgeStep
  <2>1. UNCHANGED <<sim, telemetry>>
    BY <1>5 DEF BridgeStep, Update, SelectProfile, Acknowledge, Publish
  <2>2. CASE \E connected, permitted \in BOOLEAN : Update(connected, permitted)
    <3>1. PICK connected \in BOOLEAN, permitted \in BOOLEAN : Update(connected, permitted)
      BY <2>2
    <3> DEFINE r == IF connected THEN settings ELSE NoRequest
    <3>2. command \in Command /\ r \in Request /\ (connected /\ permitted) \in BOOLEAN
      BY EmptyTypes DEF Typed, TypeOK
    <3>3. command' = update(command, r, connected /\ permitted)
      BY <3>1 DEF Update
    <3> HIDE DEF r
    <3>4. command'.flights = command.flights
      BY <3>2, <3>3, UpdateEffect
    <3>5. QED
      BY <1>1, <1>3, <2>1, <3>4
  <2>3. CASE Acknowledge \/ Publish
    <3>1. UNCHANGED command
      BY <2>3 DEF Acknowledge, Publish
    <3>2. QED
      BY <1>1, <1>3, <2>1, <3>1
  <2>4. QED
    BY <1>5, <2>2, <2>3 DEF BridgeStep
<1>6. CASE SyncSession \/ (\E affected \in Actions : Shortcut(affected))
  <2>1. UNCHANGED <<command, sim, telemetry>>
    BY <1>6 DEF SyncSession, Shortcut
  <2>2. QED
    BY <1>1, <1>3, <2>1
<1>7. CASE \E outcome \in Outcomes : Handle(outcome)
  <2>1. UNCHANGED <<command, telemetry>>
    BY <1>7 DEF Handle
  <2>2. Quiet(s)'
    BY <1>1, <2>1 DEF Quiet, InAir, Away, AtPress
  <2>3. Route(sim, lamps, s, InAir(s), Goal(s)) /\ Goal(s) \in BOOLEAN /\ InAir(s) = FALSE
    BY RouteTypes DEF Watched, Followed, Quiet
  <2>4. Route(sim, lamps, s, FALSE, Goal(s))
    BY <2>3
  <2>5. QED
    BY <1>7, <2>2, <2>3, <2>4, HandleRoute
<1>8. CASE Tick
  <2>1. UNCHANGED <<sim, telemetry>> /\ command'.flights = command.flights
    BY <1>8 DEF Tick, Typed, TypeOK, Command
  <2>2. QED
    BY <1>1, <1>3, <2>1
<1>9. QED
  BY <1>4, <1>5, <1>6, <1>7, <1>8 DEF Next

\* Where the companion is, given what was published of the request.
Waiting(r, seen, pending) ==
    CASE r.serial > seen -> r.selected
      [] r.serial = seen -> r.selected \cap pending
      [] OTHER -> {}

LEMMA TrackedTypes ==
  ASSUME Typed
  PROVE  /\ settings.serial \in Nat /\ command.latest.serial \in Nat
         /\ status.seen \in Nat /\ bridge.seen \in Nat
         /\ settings.selected \subseteq Sides /\ settings.desired \subseteq Sides
         /\ command.pending \subseteq Sides /\ command.latest.selected \subseteq Sides
         /\ status.mask \subseteq Sides /\ past.intent \subseteq Sides
         /\ Open \subseteq Sides
<1>1. /\ settings.serial \in Nat /\ command.latest.serial \in Nat
      /\ status.seen \in Nat /\ bridge.seen \in Nat
  BY DEF Typed, TypeOK, Request, Command
<1>2. settings.selected \subseteq Sides /\ settings.desired \subseteq Sides
  BY DEF Typed, TypeOK, Request
<1>3. command.pending \subseteq Sides /\ command.latest.selected \subseteq Sides
  BY DEF Typed, TypeOK, Request, Command
<1>4. status.mask \subseteq Sides /\ past.intent \subseteq Sides
  BY DEF Typed, TypeOK
<1>5. Open \subseteq Sides
  BY <1>2, <1>3 DEF Open
<1>6. QED
  BY <1>1, <1>2, <1>3, <1>4, <1>5

\* Whatever was read of the command, the companion waits for every side it waits for.
LEMMA OpenWaits ==
  ASSUME Typed, Ordered, NEW seen \in Nat, NEW pending, Reported(seen, pending)
  PROVE  Open \subseteq Waiting(settings, seen, pending)
<1>1. settings.serial \in Nat /\ command.latest.serial \in Nat
  BY TrackedTypes
<1>2. seen <= command.latest.serial /\ command.latest.serial <= settings.serial
  BY DEF Reported, Ordered
<1>3. Open \subseteq settings.selected
  BY <1>1, <1>2 DEF Ordered, Open
<1>4. CASE settings.serial > seen
  BY <1>3, <1>4 DEF Waiting
<1>5. CASE settings.serial = seen
  <2>1. command.latest.serial = seen
    BY <1>1, <1>2, <1>5
  <2>2. Open \subseteq pending
    BY <1>5, <2>1 DEF Open, Reported
  <2>3. ~(settings.serial > seen)
    BY <1>5
  <2>4. QED
    BY <1>3, <1>5, <2>2, <2>3 DEF Waiting
<1>6. QED
  BY <1>1, <1>2, <1>4, <1>5

\* The steps that change neither the request nor what is published of it.
LEMMA SameTracked ==
  ASSUME Typed, Tracked, UNCHANGED <<settings, status>>, ~command'.failed,
         command'.latest = command.latest, command'.pending = command.pending,
         past'.intent = past.intent, bridge'.epoch = 1,
         bridge'.at = "publish" => Reported(bridge'.seen, bridge'.pending),
         \A s \in Sides : Quiet(s) /\ s \notin command.pending
                            => Quiet(s)' /\ (s \in sim'.on) = (s \in sim.on)
  PROVE  Tracked'
<1>1. Open' = Open /\ Unanswered(settings)' = Unanswered(settings)
  BY DEF Open, Unanswered
<1>2. \A seen, pending : Reported(seen, pending)' <=> Reported(seen, pending)
  BY DEF Reported
<1>3. Ordered'
  BY <1>1, <1>2 DEF Tracked, Ordered, Reported
<1>4. ASSUME NEW s \in Sides \ Open
      PROVE  ~InAir(s)' /\ ~AtPress(s)' /\ (s \in sim'.on) = (s \in past'.intent)
  <2>1. ~InAir(s) /\ ~AtPress(s) /\ (s \in sim.on) = (s \in past.intent) /\ s \notin command.pending
    BY DEF Tracked, Meant, Ordered
  <2>2. QED
    BY <2>1 DEF Quiet
<1>5. Meant'
  BY <1>1, <1>4 DEF Tracked, Meant
<1>6. QED
  BY <1>3, <1>5 DEF Tracked, OneEpoch

\* step() retires what is done, and that is what the pilot meant.
LEMMA StepTracked ==
  ASSUME Typed, Typed', Counted, Watched, Watched', Tracked, ~command'.failed,
         NEW identity \in BOOLEAN, Step(identity), past'.intent = past.intent
  PROVE  Tracked'
<1>1. /\ command'.latest = command.latest /\ command'.pending \subseteq command.pending
      /\ UNCHANGED <<settings, status, bridge, sim>>
  BY StepEffect DEF Step
<1>2. Open' \subseteq Open /\ (settings.serial > command.latest.serial => Open' = Open)
  BY <1>1 DEF Open
<1>3. Ordered'
  <2>1. Reported(status.seen, status.pending)'
    BY <1>1 DEF Tracked, Ordered, Reported
  <2>2. bridge'.at = "publish" => Reported(bridge.seen, bridge.pending)'
    BY <1>1 DEF Tracked, Ordered, Reported
  <2>3. command'.pending \subseteq Open' \cap command'.latest.selected
    BY <1>1, TrackedTypes DEF Tracked, Ordered, Open
  <2>4. QED
    BY <1>1, <2>1, <2>2, <2>3 DEF Tracked, Ordered
<1>4. ASSUME NEW s \in Sides \ Open'
      PROVE  ~InAir(s)' /\ ~AtPress(s)' /\ (s \in sim'.on) = (s \in past'.intent)
  <2>1. CASE s \notin Open
    <3>1. Quiet(s) /\ (s \in sim.on) = (s \in past.intent) /\ s \notin command.pending
      BY <2>1 DEF Tracked, Meant, Ordered, Quiet
    <3>2. Quiet(s)'
      <4>1. ~command.flights[s].active /\ ~AtPress(s)
        BY <3>1 DEF Quiet, InAir
      <4>2. ~command'.flights[s].active /\ telemetry'.at \in {"loop", "check"}
        BY <4>1, StepEffect
      <4>3. QED
        BY <4>2 DEF Quiet, InAir, Away, AtPress
    <3>3. QED
      BY <1>1, <3>1, <3>2 DEF Quiet
  <2>2. CASE s \in Open
    <3>1. ~(settings.serial > command.latest.serial)
      BY <1>2, <2>2
    <3>2. command.latest = settings
      BY <3>1, TrackedTypes DEF Tracked, Ordered
    <3>3. s \in command.pending /\ s \notin command'.pending
      BY <1>1, <2>2, <3>1 DEF Open
    <3>4. s \in command'.latest.selected \ command'.pending
      BY <1>1, <3>3 DEF Tracked, Ordered
    <3>5. ~InAir(s)' /\ ~AtPress(s)' /\ (s \in sim'.on) = (s \in command'.latest.desired)
      BY <3>4 DEF Watched, Retired
    <3>6. (s \in settings.desired) = (s \in past.intent)
      BY <1>1, <3>2, <3>4 DEF Tracked, Meant
    <3>7. QED
      BY <1>1, <3>2, <3>5, <3>6
  <2>3. QED
    BY <2>1, <2>2
<1>5. Unanswered(settings)' = Unanswered(settings)
  BY <1>1 DEF Unanswered
<1>6. Meant'
  BY <1>1, <1>4, <1>5 DEF Tracked, Meant
<1>7. QED
  BY <1>1, <1>3, <1>6 DEF Tracked, OneEpoch

\* The worker's pass hands the companion's request over.
LEMMA UpdateTracked ==
  ASSUME Typed, Typed', Counted, Watched, Tracked, Undisturbed, ~command'.failed,
         NEW connected \in BOOLEAN, NEW permitted \in BOOLEAN, Update(connected, permitted),
         past'.intent = past.intent
  PROVE  Tracked'
<1> DEFINE r == IF connected THEN settings ELSE NoRequest
<1>1. command \in Command /\ r \in Request /\ (connected /\ permitted) \in BOOLEAN
  BY EmptyTypes DEF Typed, TypeOK
<1>2. /\ command' = update(command, r, connected /\ permitted)
      /\ UNCHANGED <<sim, telemetry, settings, status>>
  BY DEF Update
<1>3. bridge'.epoch = 1 /\ bridge'.at = "acknowledge"
  <2>1. session = 1
    BY DEF Typed, TypeOK, Undisturbed, Epochs
  <2>2. QED
    BY <2>1 DEF Update, Typed, TypeOK
<1>4. r = settings \/ r.serial = 0
  BY DEF NoRequest
<1> HIDE DEF r
<1>5. /\ command'.flights = command.flights
      /\ \/ command'.latest = command.latest /\ command'.pending = command.pending
         \/ /\ command'.latest = r /\ command'.pending = command'.latest.selected
            /\ r.serial > command.latest.serial
  BY <1>1, <1>2, UpdateEffect
<1>6. \A s \in Sides : Quiet(s)' <=> Quiet(s)
  BY <1>2, <1>5 DEF Quiet, InAir, Away, AtPress
<1>7. CASE command'.latest = command.latest /\ command'.pending = command.pending
  BY <1>2, <1>3, <1>6, <1>7, SameTracked
<1>8. CASE /\ command'.latest = r /\ command'.pending = command'.latest.selected
           /\ r.serial > command.latest.serial
  <2>1. r = settings /\ settings.serial > command.latest.serial
    BY <1>4, <1>8, TrackedTypes
  <2>2. command'.latest = settings /\ command'.pending = settings.selected
    BY <1>8, <2>1
  <2>3. Open = settings.selected /\ Open' = settings.selected
    BY <1>2, <2>1, <2>2 DEF Open
  <2>4. Reported(status.seen, status.pending)'
    <3>1. status.seen <= command.latest.serial
      BY DEF Tracked, Ordered, Reported
    <3>2. status.seen < settings.serial
      BY <2>1, <3>1, TrackedTypes
    <3>3. QED
      BY <1>2, <2>2, <3>2, TrackedTypes DEF Reported
  <2>5. Ordered'
    BY <1>2, <1>3, <2>2, <2>3, <2>4, TrackedTypes DEF Ordered, Reported
  <2>6. Unanswered(settings)' = Unanswered(settings)
    BY <1>2 DEF Unanswered
  <2>7. Meant'
    BY <1>2, <1>6, <2>3, <2>6 DEF Tracked, Meant, Quiet
  <2>8. QED
    BY <1>2, <1>3, <2>5, <2>7 DEF Tracked, OneEpoch
<1>9. QED
  BY <1>5, <1>7, <1>8

\* The acknowledgement is read first: the lamps sampled after it show the sides it
\* no longer waits for.
LEMMA PublishTracked ==
  ASSUME Typed, Typed', Counted, Watched, Tracked, Publish
  PROVE  Tracked'
<1>1. /\ bridge.at = "publish" /\ bridge'.at = "update" /\ bridge'.epoch = bridge.epoch
      /\ UNCHANGED <<command, telemetry, settings, sim, past>>
      /\ status'.epoch = bridge.epoch /\ status'.seen = bridge.seen
      /\ status'.pending = bridge.pending
      /\ status'.valid => lamps.valid /\ status'.mask = lamps.on
  BY DEF Publish, Typed, TypeOK
<1>2. Open' = Open /\ Open \subseteq Waiting(settings, bridge.seen, bridge.pending)
  BY <1>1, OpenWaits, TrackedTypes DEF Tracked, Ordered, Open
<1>3. Unanswered(settings)' = Waiting(settings, bridge.seen, bridge.pending)
  BY <1>1 DEF Unanswered, Waiting
<1>4. Ordered'
  BY <1>1, <1>2 DEF Tracked, Ordered, Reported
<1>5. ASSUME status'.valid, NEW s \in Sides \ Unanswered(settings)'
      PROVE  (s \in status'.mask) = (s \in past'.intent)
  <2>1. s \notin Open
    BY <1>2, <1>3, <1>5
  <2>2. ~InAir(s) /\ (s \in sim.on) = (s \in past.intent)
    BY <2>1 DEF Tracked, Meant
  <2>3. Still(sim, lamps, s)
    BY <2>2 DEF Watched, Followed, Route
  <2>4. QED
    BY <1>1, <1>5, <2>2, <2>3 DEF Still
<1>6. Meant'
  <2>1. \A s \in Sides : InAir(s)' = InAir(s) /\ AtPress(s)' = AtPress(s)
    BY <1>1 DEF InAir, Away, AtPress
  <2>2. QED
    BY <1>1, <1>2, <1>5, <2>1 DEF Tracked, Meant
<1>7. QED
  BY <1>1, <1>4, <1>6 DEF Tracked, OneEpoch

\* A shortcut takes the lamps where they speak and the request where it still waits,
\* which together are what the pilot last meant.
LEMMA ShortcutTracked ==
  ASSUME Typed, Typed', Counted, Watched, Tracked, NEW affected \in Actions, Shortcut(affected)
  PROVE  Tracked'
<1> DEFINE waiting == Unanswered(settings)
           target == toggle_sides(past.intent, affected)
<1>1. Synced = settings
  BY DEF Tracked, OneEpoch, Synced
<1>2. status.seen <= command.latest.serial /\ command.latest.serial <= settings.serial
  BY DEF Tracked, Ordered, Reported
<1>3. waiting = Waiting(settings, status.seen, status.pending)
  BY DEF Unanswered, Waiting
<1>4. waiting \subseteq settings.selected /\ waiting \subseteq Sides /\ Open \subseteq waiting
  <2>1. waiting \subseteq settings.selected
    BY DEF Unanswered
  <2>2. Open \subseteq waiting
    BY <1>3, OpenWaits, TrackedTypes DEF Tracked, Ordered
  <2>3. QED
    BY <2>1, <2>2, TrackedTypes
<1>5. (status.mask \ waiting) \cup (settings.desired \cap waiting) = past.intent
  <2>1. status.valid
    BY DEF Shortcut
  <2>2. \A s \in Sides \ waiting : (s \in status.mask) = (s \in past.intent)
    BY <2>1 DEF Tracked, Meant
  <2>3. \A s \in waiting : (s \in settings.desired) = (s \in past.intent)
    BY <1>4 DEF Tracked, Meant
  <2> HIDE DEF waiting
  <2>4. status.mask \subseteq Sides /\ past.intent \subseteq Sides
    BY TrackedTypes
  <2>5. QED
    BY <1>4, <2>2, <2>3, <2>4
<1>6. /\ settings'.serial = (IF settings.serial > status.seen THEN settings.serial ELSE status.seen) + 1
      /\ settings'.epoch = settings.epoch /\ settings'.selected = waiting \cup affected
      /\ settings'.desired = ((settings.desired \cap waiting) \ affected) \cup (target \cap affected)
      /\ past'.intent = target /\ UNCHANGED <<command, telemetry, bridge, status, sim>>
  BY <1>1, <1>5 DEF Shortcut, Kept, Typed, TypeOK
<1>7. affected \subseteq Sides
  OBVIOUS
<1>8. \A s : s \notin affected => ((s \in target) = (s \in past.intent))
  BY DEF toggle_sides
<1> HIDE DEF waiting, target
<1>9. settings'.serial > status.seen /\ settings'.serial > command.latest.serial
  <2>1. settings.serial \in Nat /\ status.seen \in Nat /\ command.latest.serial \in Nat
    BY TrackedTypes
  <2>2. settings'.serial = (IF settings.serial > status.seen THEN settings.serial ELSE status.seen) + 1
    BY <1>6
  <2>3. QED
    BY <1>2, <2>1, <2>2
<1>10. Open' = settings'.selected
  BY <1>6, <1>9 DEF Open
<1>11. Unanswered(settings)' = settings'.selected
  <2>1. settings'.serial > status'.seen /\ settings'.serial # status'.seen
    <3>1. settings'.serial \in Nat /\ status'.seen \in Nat /\ status' = status
      BY <1>6 DEF Typed, TypeOK, Request
    <3>2. QED
      BY <1>9, <3>1
  <2>2. QED
    BY <2>1 DEF Unanswered
<1>12. Ordered'
  <2>1. command'.pending \subseteq Open' \cap command'.latest.selected
    BY <1>4, <1>6, <1>10 DEF Tracked, Ordered
  <2>2. command'.latest.serial < settings'.serial
    BY <1>6, <1>9, TrackedTypes
  <2>3. command'.latest.serial <= settings'.serial /\ command'.latest.serial # settings'.serial
    <3>1. command'.latest.serial \in Nat /\ settings'.serial \in Nat
      BY <1>6, TrackedTypes
    <3>2. QED
      BY <2>2, <3>1
  <2>4. QED
    BY <1>6, <2>1, <2>3 DEF Tracked, Ordered, Reported
<1>13. ASSUME NEW s \in Sides \ settings'.selected
       PROVE  /\ s \notin Open /\ s \notin waiting /\ (s \in past'.intent) = (s \in past.intent)
  BY <1>4, <1>6, <1>8
<1>14. settings'.desired = past'.intent \cap settings'.selected
  <2>1. \A s \in waiting : (s \in settings.desired) = (s \in past.intent)
    BY <1>4 DEF Tracked, Meant
  <2>2. QED
    BY <1>6, <1>8, <2>1
<1>15. \A s \in Sides : InAir(s)' = InAir(s) /\ AtPress(s)' = AtPress(s)
  BY <1>6 DEF InAir, Away, AtPress
<1>16. Meant'
  <2>1. ASSUME NEW s \in Sides \ Open'
        PROVE  ~InAir(s)' /\ ~AtPress(s)' /\ (s \in sim'.on) = (s \in past'.intent)
    BY <1>6, <1>10, <1>13, <1>15 DEF Tracked, Meant
  <2>2. ASSUME status'.valid, NEW s \in Sides \ Unanswered(settings)'
        PROVE  (s \in status'.mask) = (s \in past'.intent)
    BY <1>6, <1>11, <1>13, <2>2 DEF Tracked, Meant, waiting
  <2>3. QED
    BY <1>14, <2>1, <2>2 DEF Meant
<1>17. QED
  BY <1>6, <1>12, <1>16 DEF Tracked, OneEpoch

\* A failure is never forgotten, and the intent is the pilot's.
LEMMA OnlyShortcutsMean ==
  ASSUME Typed, Next, ~ChangeSession, ~SelectProfile,
         \A affected \in Actions : ~Shortcut(affected)
  PROVE  past'.intent = past.intent /\ (past.failed => past'.failed)
<1>1. past \in Past
  BY DEF Typed, TypeOK, Past
<1>2. CASE \E c : Seen(c)
  BY <1>1, <1>2, SeenKeeps
<1>3. CASE UNCHANGED past
  BY <1>3
<1>4. CASE \E accepted \in BOOLEAN : Press(accepted)
  BY <1>1, <1>4 DEF Press, Past
<1>5. CASE \E s \in Sides : HandPress(s)
  BY <1>1, <1>5 DEF HandPress, Past
<1>6. QED
  BY <1>2, <1>3, <1>4, <1>5
     DEF Next, TelemetryStep, BridgeStep, RequestLamps, ReceiveLamps, ReceiveRefusal, Step, Check,
         Sent, Update, Acknowledge, Publish, SyncSession, Handle, Tick

\* Whatever the command comes to, the history has seen.
LEMMA FailureSeen ==
  ASSUME Typed, Next, ~command.failed, ~past'.failed
  PROVE  ~command'.failed
<1>1. past \in Past
  BY DEF Typed, TypeOK, Past
<1>2. ASSUME Seen(command') PROVE ~command'.failed
  BY <1>1, <1>2, SeenKeeps
<1>3. CASE UNCHANGED command
  BY <1>3
<1>4. CASE ChangeSession \/ SelectProfile
  <2>1. past'.failed = (past.failed \/ command'.failed)
    BY <1>1, <1>4 DEF ChangeSession, SelectProfile, Past
  <2>2. QED
    BY <2>1
<1>5. CASE \E valid, later \in BOOLEAN : ReceiveLamps(valid, later)
  BY <1>5, ReceiveLampsEffect
<1>6. CASE Tick
  BY <1>6 DEF Tick, Typed, TypeOK, Command
<1>7. QED
  BY <1>2, <1>3, <1>4, <1>5, <1>6
     DEF Next, TelemetryStep, BridgeStep, RequestLamps, ReceiveRefusal, Step, Check, Press,
         Sent, Update, Acknowledge, Publish, SyncSession, Shortcut, Handle, HandPress

LEMMA InitTracked == ASSUME Init PROVE Tracked
<1>1. /\ settings = NoRequest /\ command.latest = NoRequest /\ command.pending = {} /\ ~command.failed
      /\ NoRequest.serial = 0 /\ NoRequest.epoch = 1 /\ NoRequest.selected = {} /\ NoRequest.desired = {}
      /\ bridge.at = "update" /\ bridge.epoch = 1
      /\ ~status.valid /\ status.epoch = 1 /\ status.seen = 0 /\ status.pending = {}
      /\ telemetry.at = "loop" /\ past.intent = sim.on
      /\ \A s \in Sides : ~command.flights[s].active
  BY DEF Init, NoRequest, NoFlight
<1>2. Open = {}
  BY <1>1 DEF Open
<1>3. Ordered
  BY <1>1, <1>2 DEF Ordered, Reported
<1>4. \A s \in Sides : ~InAir(s) /\ ~AtPress(s)
  BY <1>1 DEF InAir, Away, AtPress
<1>5. Meant
  BY <1>1, <1>4 DEF Meant
<1>6. QED
  BY <1>1, <1>3, <1>5 DEF Tracked, OneEpoch

LEMMA NextTracked ==
  ASSUME Typed, Typed', Counted, Watched, Watched', Tracked, Undisturbed, Next, ~past'.failed,
         ~ChangeSession, ~SelectProfile, \A s \in Sides : ~HandPress(s)
  PROVE  Tracked'
<1>1. ~command'.failed
  BY FailureSeen DEF Tracked
<1>2. \A s \in Sides : Quiet(s) /\ s \notin command.pending
                         => Quiet(s)' /\ (s \in sim'.on) = (s \in sim.on)
  BY QuietStays
<1>3. CASE \E affected \in Actions : Shortcut(affected)
  BY <1>3, ShortcutTracked
<1>4. CASE \A affected \in Actions : ~Shortcut(affected)
  <2>1. past'.intent = past.intent
    BY <1>4, OnlyShortcutsMean
  <2>2. ASSUME UNCHANGED <<settings, status, bridge>>,
               command'.latest = command.latest, command'.pending = command.pending
        PROVE  Tracked'
    BY <1>1, <1>2, <2>1, <2>2, SameTracked DEF Tracked, OneEpoch, Ordered
  <2>3. CASE TelemetryStep
    <3>1. CASE RequestLamps \/ (\E ready \in BOOLEAN : Check(ready))
               \/ (\E accepted \in BOOLEAN : Press(accepted))
      BY <2>2, <3>1 DEF RequestLamps, Check, Press
    <3>2. CASE \E valid, later \in BOOLEAN : ReceiveLamps(valid, later)
      BY <2>2, <3>2, ReceiveLampsEffect DEF ReceiveLamps
    <3>3. CASE ReceiveRefusal
      BY <1>1, <2>2, <3>3, RefusalEffect DEF ReceiveRefusal
    <3>4. CASE \E identity \in BOOLEAN : Step(identity)
      BY <1>1, <2>1, <3>4, StepTracked
    <3>5. CASE Sent
      <4>1. telemetry.side \subseteq Sides
        BY DEF Typed, TypeOK, Telemetry
      <4>2. QED
        BY <1>1, <2>2, <3>5, <4>1, SentEffect DEF Sent
    <3>6. QED
      BY <2>3, <3>1, <3>2, <3>3, <3>4, <3>5 DEF TelemetryStep
  <2>4. CASE BridgeStep
    <3>1. CASE \E connected, permitted \in BOOLEAN : Update(connected, permitted)
      BY <1>1, <2>1, <3>1, UpdateTracked
    <3>2. CASE Acknowledge
      <4>1. /\ bridge'.epoch = 1 /\ Reported(bridge'.seen, bridge'.pending)
            /\ UNCHANGED <<command, settings, status>>
        BY <3>2, TrackedTypes DEF Acknowledge, Typed, TypeOK, Tracked, OneEpoch, Reported
      <4>2. QED
        BY <1>1, <1>2, <2>1, <4>1, SameTracked
    <3>3. CASE Publish
      BY <3>3, PublishTracked
    <3>4. QED
      BY <2>4, <3>1, <3>2, <3>3 DEF BridgeStep
  <2>5. CASE SyncSession
    BY <2>5 DEF SyncSession, Tracked, OneEpoch
  <2>6. CASE \E outcome \in Outcomes : Handle(outcome)
    BY <2>2, <2>6 DEF Handle
  <2>7. CASE Tick
    <3>1. command'.latest = command.latest /\ command'.pending = command.pending
      BY <2>7 DEF Tick, Typed, TypeOK, Command
    <3>2. QED
      BY <2>2, <2>7, <3>1 DEF Tick
  <2>8. QED
    BY <1>4, <2>3, <2>4, <2>5, <2>6, <2>7 DEF Next
<1>5. QED
  BY <1>3, <1>4

(***************************************************************************)
(* Each shortcut asks for the opposite of the one before.                  *)
(***************************************************************************)
\* "A retired command must never be paired with the earlier rendering sample": until
\* a request fails, the companion's request is the parity of the pilot's shortcuts for
\* every side it selects, however fast they follow each other and whatever the
\* worker, the telemetry thread and the simulator have done of the ones before.
THEOREM ShortcutsReverse == Spec => []ShortcutReverses
<1> DEFINE Inv == Undisturbed /\ ~past.failed => Tracked
<1>1. Init => Inv
  BY InitTracked
<1>2. Typed /\ Typed' /\ Counted /\ (Undisturbed => Watched) /\ (Undisturbed => Watched)' /\ Inv
        /\ [Next]_vars => Inv'
  <2> SUFFICES ASSUME Typed, Typed', Counted, Undisturbed => Watched, (Undisturbed => Watched)', Inv,
                      [Next]_vars, Undisturbed', ~past'.failed
               PROVE  Tracked'
    OBVIOUS
  <2>1. CASE Next
    <3>1. Undisturbed /\ ~ChangeSession /\ ~SelectProfile /\ \A s \in Sides : ~HandPress(s)
      BY <2>1, OnlyThreeDisturb
    <3>2. ~past.failed
      <4>1. CASE \E affected \in Actions : Shortcut(affected)
        BY <4>1 DEF Shortcut, Typed, TypeOK
      <4>2. CASE \A affected \in Actions : ~Shortcut(affected)
        BY <2>1, <3>1, <4>2, OnlyShortcutsMean
      <4>3. QED
        BY <4>1, <4>2
    <3>3. QED
      BY <2>1, <3>1, <3>2, NextTracked
  <2>2. CASE UNCHANGED vars
    <3>1. Undisturbed /\ ~past.failed
      BY <2>2 DEF Undisturbed, vars
    <3>2. Tracked
      BY <3>1
    <3>3. Open' = Open /\ Unanswered(settings)' = Unanswered(settings)
      BY <2>2 DEF vars, Open, Unanswered
    <3>4. \A s \in Sides : InAir(s)' = InAir(s) /\ AtPress(s)' = AtPress(s)
      BY <2>2 DEF vars, InAir, Away, AtPress
    <3>5. Ordered' /\ Meant'
      BY <2>2, <3>2, <3>3, <3>4 DEF vars, Tracked, Ordered, Reported, Meant
    <3>6. QED
      BY <2>2, <3>2, <3>5 DEF vars, Tracked, OneEpoch
  <2>3. QED
    BY <2>1, <2>2
<1>3. Inv => ShortcutReverses
  BY DEF ShortcutReverses, Tracked, Meant
<1>4. QED
  BY <1>1, <1>2, <1>3, TypedAlways, CountedAlways, WatchedAlways, PTL DEF Spec
=============================================================================

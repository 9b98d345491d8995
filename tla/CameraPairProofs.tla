-------------------------- MODULE CameraPairProofs --------------------------
(***************************************************************************)
(* For every number of views, slots and entries: the camera pair keeps its  *)
(* types, the bridge erases an entry only after an earlier manager update    *)
(* found it closed, and a start that ends a reset finds nothing left of the  *)
(* pair before it.                                                          *)
(***************************************************************************)
EXTENDS CameraPair, FiniteSetTheorems, TLAPS

USE PairAssumption

(***************************************************************************)
(* The types of the variables, without the counts.                          *)
(***************************************************************************)

Mail == {"none", "enable", "disable"}
Pair == [ids : SUBSET Ids, enabled : BOOLEAN, pending : BOOLEAN, active : BOOLEAN,
         failed : BOOLEAN, shown : SUBSET Ids, shownPending : BOOLEAN]
Places == {"between", "hold", "drained", "confirmed", "kept", "inspected",
           "normal", "processed", "created", "deferred", "shown"}
Steps == {"none", "take", "erase", "create", "store"}
Observer == [at : Places, step : Steps, todo : SUBSET Ids, made : Nat, valid : BOOLEAN,
             wanted : BOOLEAN, fresh : BOOLEAN, deferred : BOOLEAN, drained : BOOLEAN,
             found : {"none", "wait", "ready", "refused"}]
Decisions == {"none", "awaiting", "wait", "ready", "refused"}
Session == [holding : BOOLEAN, retired : BOOLEAN, start : BOOLEAN, on : BOOLEAN,
            again : BOOLEAN, current : BOOLEAN, enabled : BOOLEAN,
            kept : Decisions, held : BOOLEAN, resume : BOOLEAN, fallback : BOOLEAN]
SlotMap == [Ids -> {"none", "this", "earlier"}]
Ledger == [retired : SUBSET Ids, views : [1..Feeds -> 0..MaxIds]]
States == {"none", "pending", "open", "closed", "erased", "gone"}
Native == [entry : [Ids -> States], last : 0..MaxIds, releasing : SUBSET Ids]
World == [flight : {"ready", "unready", "loading"}, managed : BOOLEAN]
Past == [closed : SUBSET Ids, dropped : SUBSET Ids, requests : 0..MaxRequests,
         troubles : 0..MaxTroubles]

Shape ==
    /\ mailbox \in Mail /\ pair \in Pair /\ observer \in Observer /\ session \in Session
    /\ slots \in SlotMap /\ ledger \in Ledger /\ native \in Native /\ world \in World
    /\ past \in Past

USE DEF Mail, Pair, Places, Steps, Decisions, Observer, Session, SlotMap, Ledger, States, Native, World, Past

LEMMA InitShape == Init => Shape
<1> SUFFICES ASSUME Init PROVE Shape
  OBVIOUS
<1>1. mailbox \in Mail /\ world \in World
  BY DEF Init
<1>2. pair \in Pair
  BY DEF Init
<1>3. observer \in Observer
  BY DEF Init, Outside
<1>4. session \in Session
  BY DEF Init
<1>5. slots \in SlotMap
  BY DEF Init
<1>6. ledger \in Ledger
  BY DEF Init
<1>7. native \in Native
  BY DEF Init
<1>8. past \in Past
  BY DEF Init
<1>9. QED
  BY <1>1, <1>2, <1>3, <1>4, <1>5, <1>6, <1>7, <1>8 DEF Shape

(***************************************************************************)
(* The operators the actions share keep the types.                          *)
(***************************************************************************)

LEMMA CancelShape ==
  ASSUME mailbox \in Mail, pair \in Pair
  PROVE  /\ CancelledPair \in Pair /\ CancelledMail \in Mail
         /\ CancelledPair.ids = pair.ids
<1>1. CancelledMail \in Mail
  BY DEF CancelledMail
<1>2. CASE Cancelled
  BY <1>1, <1>2 DEF CancelledPair
<1>3. CASE ~Cancelled
  BY <1>1, <1>3 DEF CancelledPair
<1>4. QED
  BY <1>2, <1>3

\* What a reset, or a transition that keeps the pair, does when it begins: the pair is
\* cancelled or left alone, and a session that is held is not let go.
Turned ==
    /\ session' \in Session
    /\ \/ pair' = CancelledPair /\ mailbox' = CancelledMail
       \/ pair' = pair /\ mailbox' = mailbox
    /\ session'.enabled = session.enabled
    /\ \/ session'.holding = session.holding /\ session'.retired = session.retired
       \/ session'.holding /\ (session'.retired => ~session.enabled)

LEMMA ResetTurned == ASSUME session \in Session, BeginReset PROVE Turned
<1>1. PICK b \in BOOLEAN : b = (~can_retire /\ Cancelled /\ empty(CancelledPair, CancelledMail))
  OBVIOUS
<1>2. session' = [session EXCEPT !.holding = TRUE, !.start = FALSE,
          !.on = FALSE, !.again = FALSE, !.retired = b,
          !.kept = "none", !.held = FALSE, !.resume = FALSE, !.fallback = FALSE]
      /\ pair' = CancelledPair /\ mailbox' = CancelledMail
  BY <1>1 DEF BeginReset
<1>3. session' \in Session /\ session'.holding /\ session'.retired = b
      /\ session'.enabled = session.enabled
  BY <1>2
<1>4. b => ~session.enabled
  BY <1>1 DEF can_retire
<1>5. QED
  BY <1>2, <1>3, <1>4, Zenon DEF Turned

LEMMA BegunDecides == Begun \in Decisions
  BY DEF Begun

LEMMA KeptTurned ==
  ASSUME session \in Session, NEW held \in BOOLEAN, BeginKept(held) PROVE Turned
<1>1. PICK k \in Decisions : k = Begun
  BY BegunDecides
<1>2. session' = [session EXCEPT !.start = FALSE, !.on = FALSE, !.again = FALSE,
          !.kept = k, !.held = held, !.resume = FALSE, !.fallback = FALSE]
      /\ pair' = CancelledPair /\ mailbox' = CancelledMail
  BY <1>1 DEF BeginKept
<1>3. session' \in Session /\ session'.holding = session.holding
      /\ session'.retired = session.retired /\ session'.enabled = session.enabled
  BY <1>2
<1>4. QED
  BY <1>2, <1>3, Zenon DEF Turned

LEMMA UntouchedTurned ==
  ASSUME session \in Session, UNCHANGED <<mailbox, pair, session>> PROVE Turned
  BY DEF Turned

LEMMA FlightChangeTurned ==
  ASSUME session \in Session, BeginFlightChange PROVE Turned
<1>1. \/ BeginReset \/ BeginKept(TRUE)
      \/ session' = [session EXCEPT !.held = TRUE] /\ UNCHANGED <<mailbox, pair>>
  BY DEF BeginFlightChange
<1>2. CASE session' = [session EXCEPT !.held = TRUE] /\ UNCHANGED <<mailbox, pair>>
  <2>1. session' \in Session /\ session'.holding = session.holding
        /\ session'.retired = session.retired /\ session'.enabled = session.enabled
    BY <1>2
  <2>2. QED
    BY <1>2, <2>1, Zenon DEF Turned
<1>3. QED
  BY <1>1, <1>2, ResetTurned, KeptTurned

LEMMA BeginTurned ==
  ASSUME session \in Session, Begin PROVE Turned
<1>1. BeginReset \/ BeginFlightChange \/ UNCHANGED <<mailbox, pair, session>>
  BY DEF Begin
<1>2. QED
  BY <1>1, ResetTurned, FlightChangeTurned, UntouchedTurned

LEMMA TurnedShape ==
  ASSUME mailbox \in Mail, pair \in Pair, Turned
  PROVE  mailbox' \in Mail /\ pair' \in Pair /\ session' \in Session
  BY CancelShape DEF Turned

\* A pair that failed its validation is left, kept, reset, or taken back.
LEMMA UnvalidatedTurned ==
  ASSUME session \in Session, Unvalidated
  PROVE  \/ Leave /\ Turned
         \/ Process("shown") /\ mailbox' = "disable" /\ UNCHANGED <<pair, session>>
<1>1. \/ Leave /\ UNCHANGED <<mailbox, pair, session>>
      \/ Leave /\ BeginFlightChange
      \/ Process("shown") /\ mailbox' = "disable" /\ UNCHANGED <<pair, session>>
  BY DEF Unvalidated
<1>2. QED
  BY <1>1, FlightChangeTurned, UntouchedTurned

LEMMA CloseShape ==
  ASSUME native \in Native, NEW S, Close(S)
  PROVE  native' \in Native
<1> DEFINE entry == [id \in Ids |-> IF id \in S /\ native.entry[id] = "open" THEN "closed"
                                    ELSE native.entry[id]]
<1>1. native.entry \in [Ids -> States]
  OBVIOUS
<1>2. entry \in [Ids -> States]
  BY <1>1
<1>3. native' = [native EXCEPT !.entry = entry]
  BY DEF Close
<1> HIDE DEF entry
<1>4. QED
  BY <1>2, <1>3

LEMMA ObservedShape ==
  ASSUME ledger \in Ledger PROVE Observed \in Ledger /\ StillRetired \in SUBSET Ids
  BY DEF Observed, StillRetired

LEMMA TransferredShape == ASSUME ledger \in Ledger PROVE Transferred \in Ledger
<1>1. {ledger.views[f] : f \in {f \in 1..Feeds : ledger.views[f] # 0}} \subseteq Ids
  <2> SUFFICES ASSUME NEW f \in 1..Feeds, ledger.views[f] # 0 PROVE ledger.views[f] \in Ids
    OBVIOUS
  <2>1. ledger.views[f] \in 0..MaxIds
    OBVIOUS
  <2>2. QED
    BY <2>1 DEF Ids
<1>2. [f \in 1..Feeds |-> 0] \in [1..Feeds -> 0..MaxIds]
  OBVIOUS
<1>3. QED
  BY <1>1, <1>2 DEF Transferred

\* clear_retired_pair is done or not.
LEMMA ClearShape ==
  ASSUME ledger \in Ledger, slots \in SlotMap, NEW gone, ClearIf(gone)
  PROVE  /\ ledger' \in Ledger /\ slots' \in SlotMap
         /\ \/ UNCHANGED <<ledger, slots>>
            \/ ledger' = Transferred /\ slots' = [id \in Ids |-> "none"]
<1>1. \/ UNCHANGED <<ledger, slots>>
      \/ ledger' = Transferred /\ slots' = [id \in Ids |-> "none"]
  BY DEF ClearIf
<1>2. QED
  BY <1>1, TransferredShape

LEMMA TroubleShape ==
  ASSUME past \in Past, Trouble PROVE past' \in Past
  BY DEF Trouble

LEMMA RequestedShape ==
  ASSUME past \in Past, Requested PROVE past' \in Past
  BY DEF Requested

LEMMA SupersededShape ==
  ASSUME observer \in Observer, Superseded \/ Voided
  PROVE  /\ observer' \in Observer
         /\ observer'.at = observer.at /\ observer'.step = observer.step
         /\ observer'.made = observer.made /\ observer'.drained = observer.drained
<1>1. CASE Superseded
  BY <1>1 DEF Superseded
<1>2. CASE Voided
  BY <1>2 DEF Voided
<1>3. QED
  BY <1>1, <1>2

LEMMA LeaveShape ==
  ASSUME Leave PROVE observer' \in Observer
  BY DEF Leave, Outside

LEMMA ProcessShape ==
  ASSUME observer \in Observer, NEW at \in Places, Process(at) PROVE observer' \in Observer
  BY DEF Process

LEMMA PublishShape ==
  ASSUME observer \in Observer, NEW p \in Pair, Publish(p)
  PROVE  pair' \in Pair /\ observer' \in Observer
  BY DEF Publish

LEMMA StartCreationShape ==
  ASSUME observer \in Observer, NEW p \in Pair, StartCreation(p)
  PROVE  pair' \in Pair /\ observer' \in Observer
  BY DEF StartCreation

LEMMA StartCleanupShape ==
  ASSUME observer \in Observer, NEW p \in Pair, StartCleanup(p)
  PROVE  pair' \in Pair /\ observer' \in Observer
  BY DEF StartCleanup

LEMMA CommandedShape ==
  ASSUME mailbox \in Mail, pair \in Pair
  PROVE  /\ Commanded \in Pair
         /\ Commanded.ids = pair.ids /\ Commanded.active = pair.active
         /\ Commanded.shown = pair.shown
<1>1. CASE mailbox = "enable"
  <2>1. Commanded = [pair EXCEPT !.enabled = TRUE, !.failed = FALSE, !.pending = ~pair.active]
    BY <1>1 DEF Commanded
  <2>2. PICK b \in BOOLEAN : b = ~pair.active
    OBVIOUS
  <2>3. Commanded = [pair EXCEPT !.enabled = TRUE, !.failed = FALSE, !.pending = b]
    BY <2>1, <2>2
  <2>4. QED
    BY <2>3
<1>2. CASE mailbox = "disable"
  BY <1>2 DEF Commanded
<1>3. CASE mailbox = "none"
  BY <1>3 DEF Commanded
<1>4. QED
  BY <1>1, <1>2, <1>3

LEMMA TriedShape ==
  ASSUME observer \in Observer, pair \in Pair, NEW id, NEW b, Tried(id, b)
  PROVE  pair' \in Pair /\ observer' \in Observer
  BY DEF Tried

LEMMA SlottedShape ==
  ASSUME slots \in SlotMap, NEW id, NEW v \in {"none", "this", "earlier"}, Slotted(id, v)
  PROVE  slots' \in SlotMap
  BY DEF Slotted

(***************************************************************************)
(* Every step keeps the types.                                              *)
(***************************************************************************)

\* What a request changes.
LEMMA RequestChange ==
  ASSUME Shape, Request
  PROVE  /\ Requested /\ UNCHANGED <<slots, ledger, native, world>>
         /\ Superseded \/ Voided
         /\ \/ Turned
            \/ /\ pair' = pair /\ mailbox' \in {mailbox, "disable"}
               /\ session' \in Session
               /\ session'.holding = session.holding /\ session'.retired = session.retired
               /\ session'.enabled = session.enabled
            \/ /\ pair' = pair /\ mailbox' \in {mailbox, "disable"}
               /\ session' \in Session
               /\ request_scene_test /\ ~session'.holding /\ session'.enabled
<1> session \in Session
  BY DEF Shape
<1>1. CASE request_scene_session_reset
  BY <1>1, ResetTurned DEF request_scene_session_reset
<1>2. CASE request_scene_profile_transition
  <2>1. BeginReset \/ BeginKept(session.held)
    BY <1>2 DEF request_scene_profile_transition
  <2>2. Turned
    BY <2>1, ResetTurned, KeptTurned
  <2>3. QED
    BY <1>2, <2>2 DEF request_scene_profile_transition
<1>3. CASE request_scene_test
  <2>1. PICK r \in BOOLEAN : r = can_resume
    BY DEF can_resume
  <2>2. PICK h \in BOOLEAN : h = (session.held /\ ~can_resume)
    OBVIOUS
  <2>3. PICK k \in Decisions : k = IF can_resume THEN session.kept ELSE "none"
    OBVIOUS
  <2>4. PICK n \in BOOLEAN : n = ~can_resume
    OBVIOUS
  <2>5. session' = [session EXCEPT !.holding = FALSE, !.retired = FALSE, !.start = n,
          !.on = TRUE, !.again = FALSE, !.current = TRUE, !.enabled = TRUE,
          !.kept = k, !.held = h, !.resume = r]
    BY <1>3, <2>1, <2>2, <2>3, <2>4 DEF request_scene_test
  <2>6. session' \in Session /\ ~session'.holding /\ session'.enabled
    <3> DEFINE s == [session EXCEPT !.holding = FALSE, !.retired = FALSE, !.start = n,
                                    !.on = TRUE, !.again = FALSE]
    <3>1. s \in Session /\ ~s.holding
      OBVIOUS
    <3>2. session' = [s EXCEPT !.current = TRUE, !.enabled = TRUE, !.kept = k, !.held = h,
                               !.resume = r]
      BY <2>5, Zenon
    <3> HIDE DEF s
    <3>3. QED
      BY <3>1, <3>2
  <2>7. Requested /\ Superseded /\ UNCHANGED <<pair, slots, ledger, native, world>>
        /\ mailbox' \in {mailbox, "disable"}
    BY <1>3 DEF request_scene_test
  <2>8. QED
    BY <1>3, <2>6, <2>7
<1>4. CASE request_scene_stop
  <2>1. PICK k \in Decisions : k = IF may_disable THEN "none" ELSE session.kept
    OBVIOUS
  <2>2. session' = [session EXCEPT !.start = FALSE, !.on = FALSE, !.again = FALSE,
                         !.resume = FALSE, !.kept = k]
    BY <1>4, <2>1 DEF request_scene_stop
  <2>3. /\ session' \in Session
        /\ session'.holding = session.holding /\ session'.retired = session.retired
        /\ session'.enabled = session.enabled
    BY <2>2
  <2>4. Requested /\ Superseded /\ UNCHANGED <<pair, slots, ledger, native, world>>
        /\ mailbox' \in {mailbox, "disable"}
    BY <1>4 DEF request_scene_stop
  <2>5. QED
    BY <2>3, <2>4
<1>5. QED
  BY <1>1, <1>2, <1>3, <1>4 DEF Request

LEMMA RequestShape ==
  ASSUME Shape, Request PROVE Shape'
<1>1. past' \in Past /\ observer' \in Observer
  BY RequestChange, RequestedShape, SupersededShape DEF Shape
<1>2. UNCHANGED <<slots, ledger, native, world>>
  BY RequestChange
<1>3. mailbox' \in Mail /\ pair' \in Pair /\ session' \in Session
  <2>1. CASE Turned
    BY <2>1, TurnedShape DEF Shape
  <2>2. CASE pair' = pair /\ mailbox' \in {mailbox, "disable"} /\ session' \in Session
    BY <2>2 DEF Shape
  <2>3. QED
    BY <2>1, <2>2, RequestChange
<1>4. QED
  BY <1>1, <1>2, <1>3 DEF Shape

LEMMA TakeMailboxShape ==
  ASSUME Shape, TakeMailbox PROVE Shape'
<1>1. mailbox' = "none" /\ UNCHANGED <<session, slots, ledger, native, world, past>>
  BY DEF TakeMailbox
<1>2. StartCreation(Commanded) \/ StartCleanup(Commanded) \/ Publish(Commanded)
  BY DEF TakeMailbox
<1>3. Commanded \in Pair
  BY CommandedShape DEF Shape
<1>4. pair' \in Pair /\ observer' \in Observer
  BY <1>2, <1>3, StartCreationShape, StartCleanupShape, PublishShape DEF Shape
<1>5. QED
  BY <1>1, <1>4 DEF Shape

LEMMA EraseCallbackShape ==
  ASSUME Shape, EraseCallback PROVE Shape'
<1>1. UNCHANGED <<mailbox, session, world>>
  BY DEF EraseCallback
<1>2. PICK id \in observer.todo :
        /\ Tried(id, TRUE) \/ Tried(id, FALSE)
        /\ UNCHANGED slots \/ forget(id) \/ Slotted(id, "this")
        /\ UNCHANGED ledger \/ Retain({id})
        /\ UNCHANGED native \/ Close({id}) \/ EraseEntry(id)
        /\ UNCHANGED past \/ Trouble
  BY DEF EraseCallback
<1>3. id \in Ids
  BY DEF Shape
<1>4. pair' \in Pair /\ observer' \in Observer
  BY <1>2, TriedShape DEF Shape
<1>5. slots' \in SlotMap
  BY <1>2, SlottedShape DEF Shape, forget
<1>6. past' \in Past
  BY <1>2, TroubleShape DEF Shape
<1>7. ledger' \in Ledger
  <2>1. ledger \in Ledger
    BY DEF Shape
  <2>2. QED
    BY <1>2, <1>3, <2>1 DEF Retain
<1>8. native' \in Native
  <2>1. native \in Native
    BY DEF Shape
  <2>2. CASE EraseEntry(id)
    <3>1. [native.entry EXCEPT ![id] = "erased"] \in [Ids -> States]
      BY <2>1
    <3>2. QED
      BY <1>3, <2>1, <2>2, <3>1 DEF EraseEntry
  <2>3. QED
    BY <1>2, <2>1, <2>2, CloseShape
<1>9. QED
  BY <1>1, <1>4, <1>5, <1>6, <1>7, <1>8 DEF Shape

LEMMA CreateRefusedShape ==
  ASSUME Shape, CreateRefused PROVE Shape'
<1>1. UNCHANGED <<mailbox, session, slots, native, world>>
  BY DEF CreateRefused
<1>2. past' \in Past
  BY TroubleShape DEF Shape, CreateRefused
<1>3. ledger' \in Ledger
  BY ObservedShape DEF Shape, CreateRefused
<1>4. PICK d \in BOOLEAN :
        \/ /\ pair' = [[pair EXCEPT !.failed = TRUE] EXCEPT !.shown = {}, !.shownPending = FALSE]
           /\ observer' = [observer EXCEPT !.step = "none", !.deferred = d]
        \/ /\ pair' = [[pair EXCEPT !.failed = TRUE] EXCEPT !.active = FALSE]
           /\ observer' = [observer EXCEPT !.step = "erase", !.todo = pair.ids, !.deferred = d]
  <2>1. PICK full \in BOOLEAN :
          LET p == [pair EXCEPT !.failed = TRUE]
              d == observer.deferred \/ (Admissible /\ (full \/ ~capacity))
          IN \/ /\ pair' = [p EXCEPT !.shown = {}, !.shownPending = FALSE]
                /\ observer' = [observer EXCEPT !.step = "none", !.deferred = d]
             \/ /\ pair' = [p EXCEPT !.active = FALSE]
                /\ observer' = [observer EXCEPT !.step = "erase", !.todo = p.ids, !.deferred = d]
    BY DEF CreateRefused
  <2>2. PICK d \in BOOLEAN : d = (observer.deferred \/ (Admissible /\ (full \/ ~capacity)))
    OBVIOUS
  <2>3. pair \in Pair => [pair EXCEPT !.failed = TRUE].ids = pair.ids
    OBVIOUS
  <2>4. QED
    BY <2>1, <2>2, <2>3 DEF Shape
<1>5. pair \in Pair /\ observer \in Observer
  BY DEF Shape
<1>6. pair' \in Pair /\ observer' \in Observer
  <2>1. CASE pair' = [[pair EXCEPT !.failed = TRUE] EXCEPT !.shown = {}, !.shownPending = FALSE]
             /\ observer' = [observer EXCEPT !.step = "none", !.deferred = d]
    BY <1>5, <2>1
  <2>2. CASE pair' = [[pair EXCEPT !.failed = TRUE] EXCEPT !.active = FALSE]
             /\ observer' = [observer EXCEPT !.step = "erase", !.todo = pair.ids, !.deferred = d]
    BY <1>5, <2>2
  <2>3. QED
    BY <1>4, <2>1, <2>2
<1>7. QED
  BY <1>1, <1>2, <1>3, <1>6 DEF Shape

LEMMA CreateShape ==
  ASSUME native \in Native, NEW state \in States, Create(state), NextId \in Ids
  PROVE  native' \in Native
<1>1. [native.entry EXCEPT ![NextId] = state] \in [Ids -> States]
  OBVIOUS
<1>2. NextId \in 0..MaxIds
  BY DEF Ids
<1> HIDE DEF NextId
<1>3. QED
  BY <1>1, <1>2 DEF Create

LEMMA CreateEntryShape ==
  ASSUME Shape, CreateEntry PROVE Shape'
<1>1. UNCHANGED <<mailbox, pair, session, slots, world>> /\ ledger' = Observed
      /\ NextId \in Ids
  BY DEF CreateEntry
<1>2. observer' = [observer EXCEPT !.step = "store", !.made = @ + 1]
  BY DEF CreateEntry
<1>3. \/ Create("open") /\ UNCHANGED past
      \/ Create("pending") /\ Trouble
  BY DEF CreateEntry
<1>4. native' \in Native /\ past' \in Past
  BY <1>1, <1>3, CreateShape, TroubleShape DEF Shape
<1>5. observer' \in Observer
  <2>1. observer \in Observer
    BY DEF Shape
  <2>2. PICK n \in Nat : n = observer.made + 1
    BY <2>1
  <2>3. observer' = [observer EXCEPT !.step = "store", !.made = n]
    BY <1>2, <2>1, <2>2
  <2>4. QED
    BY <2>1, <2>3
<1>6. ledger' \in Ledger
  BY <1>1, ObservedShape DEF Shape
<1>7. QED
  BY <1>1, <1>4, <1>5, <1>6 DEF Shape

LEMMA StoreEntryShape ==
  ASSUME Shape, StoreEntry, native.last \in Ids PROVE Shape'
<1> DEFINE id == native.last
           p == [pair EXCEPT !.ids = pair.ids \cup {id}]
<1>1. UNCHANGED <<mailbox, session, slots, world>> /\ Close({id})
  BY DEF StoreEntry
<1>2. native' \in Native
  BY <1>1, CloseShape DEF Shape
<1>3. UNCHANGED <<ledger, past>>
      \/ /\ ledger' = [ledger EXCEPT !.views[observer.made] = id]
         /\ past' = [past EXCEPT !.dropped = @ \cup ({ledger.views[observer.made]} \cap native.releasing)]
  BY DEF StoreEntry
<1>4. ledger' \in Ledger /\ past' \in Past
  <2>1. ledger \in Ledger /\ past \in Past /\ native.releasing \subseteq Ids /\ id \in 0..MaxIds
    BY DEF Shape, Ids
  <2> HIDE DEF id
  <2>2. [ledger.views EXCEPT ![observer.made] = id] \in [1..Feeds -> 0..MaxIds]
    BY <2>1
  <2>3. [ledger EXCEPT !.views[observer.made] = id]
          = [ledger EXCEPT !.views = [ledger.views EXCEPT ![observer.made] = id]]
    BY <2>1
  <2>4. [ledger EXCEPT !.views[observer.made] = id] \in Ledger
    BY <2>1, <2>2, <2>3
  <2>5. [past EXCEPT !.dropped = @ \cup ({ledger.views[observer.made]} \cap native.releasing)]
          \in Past
    BY <2>1
  <2>6. QED
    BY <1>3, <2>1, <2>4, <2>5
<1>5. p \in Pair /\ observer \in Observer
  BY ZenonT(30) DEF Shape
<1>6. PICK valid \in BOOLEAN :
        \/ pair' = p /\ observer' = [observer EXCEPT !.step = "create", !.valid = valid]
        \/ /\ pair' = [p EXCEPT !.active = TRUE, !.shown = p.ids, !.shownPending = FALSE]
           /\ observer' = [observer EXCEPT !.step = "none", !.valid = valid]
  <2>1. PICK valid \in BOOLEAN : valid = (native.entry[id] = "open" /\ work_allowed)
    OBVIOUS
  <2>2. QED
    BY <2>1 DEF StoreEntry
<1> HIDE DEF p
<1>7. pair' \in Pair /\ observer' \in Observer
  <2>1. CASE pair' = p /\ observer' = [observer EXCEPT !.step = "create", !.valid = valid]
    BY <1>5, <2>1
  <2>2. CASE pair' = [p EXCEPT !.active = TRUE, !.shown = p.ids, !.shownPending = FALSE]
             /\ observer' = [observer EXCEPT !.step = "none", !.valid = valid]
    BY <1>5, <2>2
  <2>3. QED
    BY <1>6, <2>1, <2>2
<1>8. QED
  BY <1>1, <1>2, <1>4, <1>7 DEF Shape

LEMMA CleanupDoneShape ==
  ASSUME Shape, CleanupDone PROVE Shape'
<1>1. UNCHANGED <<mailbox, session, slots, ledger, native, world, past>>
      /\ (StartCreation(pair) \/ Publish(pair))
  BY DEF CleanupDone
<1>2. pair' \in Pair /\ observer' \in Observer
  BY <1>1, StartCreationShape, PublishShape DEF Shape
<1>3. QED
  BY <1>1, <1>2 DEF Shape

\* What the start of an update changes.
LEMMA UpdateChange ==
  ASSUME Shape, Update
  PROVE  /\ UNCHANGED <<ledger, world>> /\ Turned /\ Aged
         /\ past' = [past EXCEPT !.closed = {id \in Ids : native.entry[id] = "closed"}]
         /\ UNCHANGED native \/ Close(pair.shown)
         /\ session'.holding => native' = native /\ observer'.at = "hold"
         /\ observer' \in Observer /\ observer'.step = "none" /\ observer'.made = 0
         /\ ~observer'.drained
         /\ observer.at = "between" /\ observer.step = "none" /\ session.enabled
<1> DEFINE b == session.start
<1> session \in Session
  BY DEF Shape
<1>1. /\ UNCHANGED <<ledger, world>> /\ Begin /\ Aged
      /\ past' = [past EXCEPT !.closed = {id \in Ids : native.entry[id] = "closed"}]
      /\ observer.at = "between" /\ observer.step = "none" /\ session.enabled
  BY DEF Update, At
<1>2. UNCHANGED native \/ Close(pair.shown)
  BY DEF Update, Park
<1>3. \/ session'.holding /\ observer' = [Outside EXCEPT !.at = "hold"] /\ native' = native
      \/ ~session'.holding /\ observer' = [Outside EXCEPT !.at = "kept"]
      \/ ~session'.holding /\ observer' = Outside
      \/ ~session'.holding /\ observer' = [Outside EXCEPT !.at = "normal", !.wanted = b]
  BY DEF Update, Leave
<1>4. b \in BOOLEAN
  OBVIOUS
<1> HIDE DEF b
<1>5. /\ observer' \in Observer /\ observer'.step = "none" /\ observer'.made = 0
      /\ ~observer'.drained
      /\ session'.holding => native' = native /\ observer'.at = "hold"
  <2> DEFINE Left == /\ observer' \in Observer /\ observer'.step = "none"
                     /\ observer'.made = 0 /\ ~observer'.drained
  <2>1. CASE session'.holding /\ observer' = [Outside EXCEPT !.at = "hold"] /\ native' = native
    <3>1. Left /\ observer'.at = "hold"
      BY <2>1 DEF Outside
    <3>2. QED
      BY <2>1, <3>1
  <2>2. CASE ~session'.holding /\ observer' = [Outside EXCEPT !.at = "kept"]
    <3>1. Left
      BY <2>2 DEF Outside
    <3>2. QED
      BY <2>2, <3>1
  <2>3. CASE ~session'.holding /\ observer' = Outside
    <3>1. Left
      BY <2>3 DEF Outside
    <3>2. QED
      BY <2>3, <3>1
  <2>4. CASE ~session'.holding /\ observer' = [Outside EXCEPT !.at = "normal", !.wanted = b]
    <3>1. Left
      BY <1>4, <2>4 DEF Outside
    <3>2. QED
      BY <2>4, <3>1
  <2>5. QED
    BY <1>3, <2>1, <2>2, <2>3, <2>4
<1>6. Turned
  BY <1>1, BeginTurned
<1>7. QED
  BY <1>1, <1>2, <1>5, <1>6

LEMMA UpdateShape ==
  ASSUME Shape, Update PROVE Shape'
<1>1. UNCHANGED <<ledger, world>> /\ observer' \in Observer
  BY UpdateChange
<1>2. slots' \in SlotMap
  BY UpdateChange DEF Shape, Aged
<1>3. past' \in Past
  <2>1. past \in Past /\ past' = [past EXCEPT !.closed = {id \in Ids : native.entry[id] = "closed"}]
    BY UpdateChange DEF Shape
  <2>2. QED
    BY <2>1
<1>4. mailbox' \in Mail /\ pair' \in Pair /\ session' \in Session
  BY UpdateChange, TurnedShape DEF Shape
<1>5. native' \in Native
  BY UpdateChange, CloseShape DEF Shape
<1>6. QED
  BY <1>1, <1>2, <1>3, <1>4, <1>5 DEF Shape

(* An update of a kept pair. *)

\* What the observer finds.
LEMMA FoundFields ==
  ASSUME observer \in Observer, session \in Session, NEW r,
         NEW found \in {"none", "wait", "ready", "refused"}, Found(found, r)
  PROVE  /\ observer' \in Observer
         /\ observer'.at = "inspected" /\ observer'.step = observer.step
         /\ observer'.made = observer.made /\ observer'.drained = observer.drained
<1>1. PICK v \in BOOLEAN : v = (r /\ session.resume /\ work_allowed)
  OBVIOUS
<1>2. observer' = [observer EXCEPT !.at = "inspected", !.fresh = TRUE, !.found = found,
                                   !.wanted = session.resume, !.valid = v]
  BY <1>1 DEF Found
<1>3. QED
  BY <1>2

LEMMA InspectedDecides == Inspected \in {"wait", "ready", "refused"}
  BY DEF Inspected

\* What the keeping of the pair changes.
LEMMA KeepingChange ==
  ASSUME Shape, KeptSettle \/ KeptInspect \/ KeptStore
  PROVE  /\ UNCHANGED <<slots, ledger, world>>
         /\ observer.at \in {"kept", "inspected"} /\ observer.step = "none"
         /\ observer' = Outside \/ observer' = observer
              \/ /\ observer' \in Observer /\ observer'.step = "none"
                 /\ observer'.at = "inspected" /\ observer'.made = observer.made
                 /\ observer'.drained = observer.drained
         /\ UNCHANGED native \/ (KeptInspect /\ Close(pair.shown))
         /\ UNCHANGED past \/ Trouble
         /\ \/ pair' = CancelledPair /\ mailbox' = CancelledMail
            \/ pair' = pair /\ mailbox' = mailbox
         /\ session' \in Session
         /\ session'.holding = session.holding /\ session'.retired = session.retired
         /\ session'.enabled = session.enabled
<1> session \in Session /\ observer \in Observer
  BY DEF Shape
<1>1. CASE KeptSettle
  <2>1. PICK k \in Decisions : k = Begun
    BY BegunDecides
  <2>2. session' = [session EXCEPT !.kept = k]
    BY <1>1, <2>1 DEF KeptSettle
  <2>3. /\ session' \in Session
        /\ session'.holding = session.holding /\ session'.retired = session.retired
        /\ session'.enabled = session.enabled
    BY <2>2
  <2>4. /\ UNCHANGED <<slots, ledger, native, world, past>>
        /\ observer.at = "kept" /\ observer.step = "none"
        /\ observer' = Outside \/ observer' = observer
        /\ pair' = CancelledPair /\ mailbox' = CancelledMail
    BY <1>1 DEF KeptSettle, At, Leave
  <2>5. QED
    BY <2>3, <2>4
<1>2. CASE KeptInspect
  <2>1. /\ UNCHANGED <<mailbox, pair, session, slots, ledger, world>>
        /\ observer.at = "kept" /\ observer.step = "none"
    BY <1>2 DEF KeptInspect, At
  <2>2. UNCHANGED native \/ Close(pair.shown)
    BY <1>2 DEF KeptInspect
  <2>3. UNCHANGED past \/ Trouble
    BY <1>2 DEF KeptInspect
  <2>4. \/ observer' = Outside
        \/ \E found \in {"none", "wait", "ready", "refused"}, r \in BOOLEAN : Found(found, r)
    <3>1. CASE session.kept = "none"
      BY <1>2, <3>1 DEF KeptInspect, Leave
    <3>2. CASE session.kept = "refused" /\ Found("refused", FALSE)
      BY <3>2
    <3>3. CASE session.kept \in {"wait", "ready", "refused"} /\ Found(session.kept, FALSE)
      BY <3>3
    <3>4. CASE \E posed \in BOOLEAN : Found(Inspected, Validated(Inspected) /\ posed)
      <4>1. PICK posed \in BOOLEAN : Found(Inspected, Validated(Inspected) /\ posed)
        BY <3>4
      <4>2. PICK r \in BOOLEAN : r = (Validated(Inspected) /\ posed)
        OBVIOUS
      <4>3. Found(Inspected, r)
        BY <4>1, <4>2
      <4>4. QED
        BY <4>3, InspectedDecides
    <3>5. CASE Found("wait", FALSE) \/ Found("refused", FALSE)
      BY <3>5
    <3>6. session.kept \in Decisions
      OBVIOUS
    <3>7. QED
      BY <1>2, <3>1, <3>3, <3>4, <3>5, <3>6 DEF KeptInspect
  <2>5. \/ observer' = Outside
        \/ /\ observer' \in Observer /\ observer'.step = "none"
           /\ observer'.at = "inspected" /\ observer'.made = observer.made
           /\ observer'.drained = observer.drained
    BY <2>1, <2>4, FoundFields
  <2>6. QED
    BY <1>2, <2>1, <2>2, <2>3, <2>5
<1>3. CASE KeptStore
  <2>1. PICK k \in Decisions : k = IF Resumes THEN "none" ELSE observer.found
    OBVIOUS
  <2>2. PICK r \in BOOLEAN : r = (session.resume /\ ~Resumes)
    OBVIOUS
  <2>3. PICK f \in BOOLEAN :
          f = (session.fallback \/ (observer.wanted /\ observer.found = "refused"))
    OBVIOUS
  <2>4. session' = session \/ session' = [session EXCEPT !.kept = k, !.resume = r, !.fallback = f]
    BY <1>3, <2>1, <2>2, <2>3 DEF KeptStore
  <2>5. /\ session' \in Session
        /\ session'.holding = session.holding /\ session'.retired = session.retired
        /\ session'.enabled = session.enabled
    BY <2>4
  <2>6. /\ UNCHANGED <<mailbox, pair, slots, ledger, native, world, past>>
        /\ observer' = Outside /\ observer.at = "inspected" /\ observer.step = "none"
    BY <1>3 DEF KeptStore, At, Leave
  <2>7. QED
    BY <2>5, <2>6
<1>4. QED
  BY <1>1, <1>2, <1>3

LEMMA KeepingShape ==
  ASSUME Shape, KeptSettle \/ KeptInspect \/ KeptStore PROVE Shape'
<1>1. UNCHANGED <<slots, ledger, world>> /\ session' \in Session
  BY KeepingChange
<1>2. observer' \in Observer
  <2>1. Outside \in Observer
    BY DEF Outside
  <2>2. QED
    BY <2>1, KeepingChange DEF Shape
<1>3. native' \in Native /\ past' \in Past
  BY KeepingChange, CloseShape, TroubleShape DEF Shape
<1>4. mailbox' \in Mail /\ pair' \in Pair
  BY KeepingChange, CancelShape DEF Shape
<1>5. QED
  BY <1>1, <1>2, <1>3, <1>4 DEF Shape

LEMMA HoldShape ==
  ASSUME Shape, HoldDrain \/ HoldConfirm \/ HoldAcknowledge PROVE Shape'
<1> observer \in Observer /\ session \in Session /\ ledger \in Ledger /\ native \in Native
  BY DEF Shape
<1>1. CancelledPair \in Pair /\ CancelledMail \in Mail
  BY CancelShape DEF Shape
<1>2. CASE HoldDrain
  <2>1. UNCHANGED <<session, slots, ledger, native, world, past>>
    BY <1>2 DEF HoldDrain
  <2>2. mailbox' \in Mail /\ pair' \in Pair
    BY <1>1, <1>2 DEF HoldDrain, Shape
  <2>3. Process("drained") \/ observer' = [observer EXCEPT !.at = "drained"]
    BY <1>2 DEF HoldDrain
  <2>4. observer' \in Observer
    BY <2>3, ProcessShape
  <2>5. QED
    BY <2>1, <2>2, <2>4 DEF Shape
<1>3. CASE HoldConfirm
  <2>1. UNCHANGED <<session, native, world, past>> /\ mailbox' \in Mail /\ pair' \in Pair
    BY <1>1, <1>3 DEF HoldConfirm
  <2>2. PICK b \in BOOLEAN : observer' = [observer EXCEPT !.at = "confirmed", !.drained = b]
    BY <1>3 DEF HoldConfirm
  <2>3. observer' \in Observer
    BY <2>2
  <2>4. \E gone : ClearIf(gone)
    BY <1>3 DEF HoldConfirm
  <2>5. ledger' \in Ledger /\ slots' \in SlotMap
    BY <2>4, ClearShape DEF Shape
  <2>6. QED
    BY <2>1, <2>3, <2>5 DEF Shape
<1>4. CASE HoldAcknowledge
  <2>1. UNCHANGED <<mailbox, pair, slots, native, world, past>> /\ Leave
    BY <1>4 DEF HoldAcknowledge
  <2>2. PICK b \in BOOLEAN : session' = [session EXCEPT !.retired = b]
    <3>1. PICK b \in BOOLEAN : b = (session.retired \/
            (session.holding /\ (IF ledger.retired # {} /\ world.managed THEN StillRetired
                                 ELSE ledger.retired) = {} /\ observer.drained))
      OBVIOUS
    <3>2. session' = [session EXCEPT !.retired = b]
      BY <1>4, <3>1 DEF HoldAcknowledge
    <3>3. QED
      BY <3>2
  <2>3. session' \in Session
    BY <2>2
  <2>4. ledger' \in Ledger
    BY <1>4, ObservedShape DEF HoldAcknowledge
  <2>5. QED
    BY <2>1, <2>3, <2>4, LeaveShape DEF Shape
<1>5. QED
  BY <1>2, <1>3, <1>4

LEMMA NormalShape ==
  ASSUME Shape, Inspect \/ RequestCreation \/ CancelDeferred PROVE Shape'
<1> observer \in Observer /\ session \in Session /\ ledger \in Ledger
  BY DEF Shape
<1>1. UNCHANGED <<native, world, past>>
  BY DEF Inspect, RequestCreation, CancelDeferred
<1>2. CASE Inspect
  <2>1. UNCHANGED <<pair, ledger, slots>> /\ (Process("processed") \/ Leave)
    BY <1>2 DEF Inspect
  <2>2. observer' \in Observer
    BY <2>1, ProcessShape, LeaveShape
  <2>3. PICK b \in BOOLEAN :
          /\ mailbox' \in {mailbox, "disable"}
          /\ session' = session \/ session' = [session EXCEPT !.start = FALSE, !.again = b]
    <3>1. PICK temporary \in BOOLEAN :
            /\ mailbox' \in {mailbox, "disable"}
            /\ \/ session' = session
               \/ session' = [session EXCEPT !.start = FALSE, !.again = temporary /\ session.on]
      BY <1>2 DEF Inspect
    <3>2. PICK b \in BOOLEAN : b = (temporary /\ session.on)
      OBVIOUS
    <3>3. QED
      BY <3>1, <3>2
  <2>4. session' \in Session
    BY <2>3
  <2>5. mailbox' \in Mail
    BY <2>3 DEF Shape
  <2>6. QED
    BY <1>1, <2>1, <2>2, <2>4, <2>5 DEF Shape
<1>3. CASE RequestCreation
  <2>1. UNCHANGED <<pair, slots>> /\ mailbox' \in {mailbox, "enable"}
    BY <1>3 DEF RequestCreation
  <2>2. \/ observer' = [observer EXCEPT !.at = "created", !.step = "take"]
        \/ observer' = [observer EXCEPT !.at = "shown"]
    BY <1>3 DEF RequestCreation
  <2>3. observer' \in Observer
    <3>1. CASE observer' = [observer EXCEPT !.at = "created", !.step = "take"]
      BY <3>1
    <3>2. CASE observer' = [observer EXCEPT !.at = "shown"]
      BY <3>2
    <3>3. QED
      BY <2>2, <3>1, <3>2
  <2>4. ledger' \in Ledger
    BY <1>3, ObservedShape DEF RequestCreation
  <2>5. PICK a \in BOOLEAN, b \in BOOLEAN : session' = [session EXCEPT !.start = a, !.again = b]
    <3>1. PICK a \in BOOLEAN, b \in BOOLEAN :
            a = (session.start \/ Retried) /\ b = (session.again /\ ~Retried)
      OBVIOUS
    <3>2. \/ session' = [session EXCEPT !.start = FALSE, !.again = FALSE]
          \/ session' = [session EXCEPT !.start = a, !.again = b]
      BY <1>3, <3>1 DEF RequestCreation
    <3>3. QED
      BY <3>2
  <2>6. session' \in Session
    BY <2>5
  <2>7. QED
    BY <1>1, <2>1, <2>3, <2>4, <2>6 DEF Shape
<1>4. CASE CancelDeferred
  <2>1. /\ UNCHANGED session /\ Leave /\ ClearIf(pair.shown = {})
        /\ mailbox' = CancelledMail /\ pair' = CancelledPair
    BY <1>4 DEF CancelDeferred
  <2>2. ledger' \in Ledger /\ slots' \in SlotMap
    BY <2>1, ClearShape DEF Shape
  <2>3. QED
    BY <1>1, <2>1, <2>2, CancelShape, LeaveShape DEF Shape
<1>5. QED
  BY <1>2, <1>3, <1>4

\* What is done with a pair that was created, or that fails while it is shown.
LEMMA CreatedChange ==
  ASSUME Shape, AfterCreation \/ ShowFails
  PROVE  /\ UNCHANGED <<native, world>> /\ (UNCHANGED past \/ Trouble)
         /\ \/ UNCHANGED <<ledger, slots>>
            \/ ledger' = Transferred /\ slots' = [id \in Ids |-> "none"] /\ UNCHANGED past
         /\ observer.at \in {"created", "shown"} /\ observer.step = "none"
         /\ \/ Leave \/ Process("shown")
            \/ observer' = [observer EXCEPT !.at = "deferred"]
         /\ \/ pair' = CancelledPair /\ mailbox' = CancelledMail
            \/ pair' = pair /\ mailbox' \in {mailbox, "disable"}
         /\ session' \in Session /\ session'.enabled = session.enabled
         /\ \/ session'.holding = session.holding /\ session'.retired = session.retired
            \/ session'.holding /\ (session'.retired => ~session.enabled)
<1> session \in Session
  BY DEF Shape
<1> DEFINE Rest == UNCHANGED <<mailbox, pair, session>>
<1>1. ASSUME Unvalidated
      PROVE  /\ Leave \/ Process("shown")
             /\ \/ pair' = CancelledPair /\ mailbox' = CancelledMail
                \/ pair' = pair /\ mailbox' \in {mailbox, "disable"}
             /\ session' \in Session /\ session'.enabled = session.enabled
             /\ \/ session'.holding = session.holding /\ session'.retired = session.retired
                \/ session'.holding /\ (session'.retired => ~session.enabled)
  <2>1. CASE Turned /\ Leave
    BY <2>1 DEF Turned
  <2>2. CASE Process("shown") /\ mailbox' = "disable" /\ UNCHANGED <<pair, session>>
    BY <2>2
  <2>3. QED
    BY <1>1, <2>1, <2>2, UnvalidatedTurned
<1>2. CASE ShowFails
  <2>1. /\ UNCHANGED <<slots, ledger, native, world>> /\ (UNCHANGED past \/ Trouble)
        /\ observer.at = "shown" /\ observer.step = "none" /\ Unvalidated
    BY <1>2 DEF ShowFails, At
  <2>2. QED
    BY <1>1, <2>1
<1>3. CASE AfterCreation
  <2>1. UNCHANGED <<native, world, past>> /\ observer.at = "created" /\ observer.step = "none"
    BY <1>3 DEF AfterCreation, At
  <2>2. \/ /\ mailbox' = "disable" /\ UNCHANGED <<pair, slots, ledger>>
           /\ session' = [session EXCEPT !.again = @ \/ (observer.fresh /\ session.on)]
           /\ observer' = [observer EXCEPT !.at = "deferred"]
        \/ Leave /\ ClearIf(pair.shown = {}) /\ Rest
        \/ Unvalidated /\ UNCHANGED <<slots, ledger>>
        \/ Leave /\ Rest /\ UNCHANGED <<slots, ledger>>
    BY <1>3 DEF AfterCreation
  <2>3. CASE /\ mailbox' = "disable" /\ UNCHANGED <<pair, slots, ledger>>
             /\ session' = [session EXCEPT !.again = @ \/ (observer.fresh /\ session.on)]
             /\ observer' = [observer EXCEPT !.at = "deferred"]
    <3>1. PICK b \in BOOLEAN : b = (session.again \/ (observer.fresh /\ session.on))
      OBVIOUS
    <3>2. session' = [session EXCEPT !.again = b]
      BY <2>3, <3>1
    <3>3. /\ session' \in Session /\ session'.enabled = session.enabled
          /\ session'.holding = session.holding /\ session'.retired = session.retired
      BY <3>2
    <3>4. QED
      BY <2>1, <2>3, <3>3
  <2>4. CASE Leave /\ ClearIf(pair.shown = {}) /\ Rest
    <3>1. \/ UNCHANGED <<ledger, slots>>
          \/ ledger' = Transferred /\ slots' = [id \in Ids |-> "none"]
      BY <2>4 DEF ClearIf
    <3>2. QED
      BY <2>1, <2>4, <3>1
  <2>5. CASE Unvalidated /\ UNCHANGED <<slots, ledger>>
    BY <1>1, <2>1, <2>5
  <2>6. CASE Leave /\ Rest /\ UNCHANGED <<slots, ledger>>
    BY <2>1, <2>6
  <2>7. QED
    BY <2>2, <2>3, <2>4, <2>5, <2>6
<1>4. QED
  BY <1>2, <1>3

\* Where the observer is after it.
LEMMA CreatedObserver ==
  ASSUME observer \in Observer, observer.step = "none", observer.at \in {"created", "shown"},
         \/ Leave \/ Process("shown")
         \/ observer' = [observer EXCEPT !.at = "deferred"]
  PROVE  /\ observer' \in Observer /\ observer'.step \in {"none", "take"}
         /\ \/ observer'.made = 0
            \/ observer'.made = observer.made /\ observer'.at \in {"created", "deferred", "shown"}
         /\ observer'.drained => observer.drained
<1>1. CASE Leave
  BY <1>1 DEF Leave, Outside
<1>2. CASE Process("shown")
  BY <1>2 DEF Process
<1>3. CASE observer' = [observer EXCEPT !.at = "deferred"]
  BY <1>3
<1>4. QED
  BY <1>1, <1>2, <1>3

LEMMA CreatedShape ==
  ASSUME Shape, AfterCreation \/ ShowFails PROVE Shape'
<1>1. UNCHANGED <<native, world>> /\ session' \in Session
  BY CreatedChange
<1>2. observer' \in Observer
  BY CreatedChange, CreatedObserver DEF Shape
<1>3. ledger' \in Ledger /\ slots' \in SlotMap
  <2>1. ledger \in Ledger /\ slots \in SlotMap
    BY DEF Shape
  <2>2. CASE UNCHANGED <<ledger, slots>>
    BY <2>1, <2>2
  <2>3. CASE ledger' = Transferred /\ slots' = [id \in Ids |-> "none"]
    BY <2>1, <2>3, TransferredShape
  <2>4. QED
    BY <2>2, <2>3, CreatedChange
<1>4. mailbox' \in Mail /\ pair' \in Pair
  BY CreatedChange, CancelShape DEF Shape
<1>5. past' \in Past
  BY CreatedChange, TroubleShape DEF Shape
<1>6. QED
  BY <1>1, <1>2, <1>3, <1>4, <1>5 DEF Shape

\* The gates that are opened are among the pair's; the others of it close.
LEMMA ShowGates ==
  ASSUME Show
  PROVE  \/ UNCHANGED <<native, past>>
         \/ \E given \in SUBSET pair.shown :
              /\ native' = [native EXCEPT !.entry =
                    [id \in Ids |-> CASE id \in given -> "open"
                                     [] id \in pair.shown \ given -> "closed"
                                     [] OTHER -> native.entry[id]]]
              /\ past' = [past EXCEPT !.closed = @ \ given]
              /\ pair.active /\ \A id \in pair.shown : native.entry[id] \in {"open", "closed"}
<1>1. CASE UNCHANGED <<native, past>>
  BY <1>1
<1>2. CASE ~UNCHANGED <<native, past>>
  <2>1. PICK desired \in SUBSET pair.shown :
          LET given == IF work_allowed THEN desired ELSE {} IN
          /\ native' = [native EXCEPT !.entry =
                [id \in Ids |-> CASE id \in given -> "open"
                                 [] id \in pair.shown \ given -> "closed"
                                 [] OTHER -> native.entry[id]]]
          /\ past' = [past EXCEPT !.closed = @ \ given]
          /\ pair.active /\ \A id \in pair.shown : native.entry[id] \in {"open", "closed"}
    BY <1>2 DEF Show
  <2>2. PICK given \in SUBSET pair.shown : given = IF work_allowed THEN desired ELSE {}
    OBVIOUS
  <2>3. QED
    BY <2>1, <2>2
<1>3. QED
  BY <1>1, <1>2

LEMMA ShowShape ==
  ASSUME Shape, Show PROVE Shape'
<1>1. UNCHANGED <<mailbox, pair, session, world>> /\ Leave /\ ClearIf(pair.shown = {})
  BY DEF Show
<1>2. native \in Native /\ past \in Past
  BY DEF Shape
<1>3. native' \in Native /\ past' \in Past
  <2>1. CASE UNCHANGED <<native, past>>
    BY <1>2, <2>1
  <2>2. CASE ~UNCHANGED <<native, past>>
    <3>1. PICK allowed :
            /\ native' = [native EXCEPT !.entry =
                  [id \in Ids |-> CASE id \in allowed -> "open"
                                   [] id \in pair.shown \ allowed -> "closed"
                                   [] OTHER -> native.entry[id]]]
            /\ past' = [past EXCEPT !.closed = @ \ allowed]
      BY <2>2, ShowGates
    <3> DEFINE entry == [id \in Ids |-> CASE id \in allowed -> "open"
                                          [] id \in pair.shown \ allowed -> "closed"
                                          [] OTHER -> native.entry[id]]
    <3>2. entry \in [Ids -> States]
      <4> SUFFICES ASSUME NEW id \in Ids PROVE entry[id] \in States
        OBVIOUS
      <4>1. native.entry[id] \in States
        BY <1>2
      <4>2. entry[id] \in {"open", "closed", native.entry[id]}
        OBVIOUS
      <4>3. QED
        BY <4>1, <4>2
    <3> HIDE DEF entry
    <3>3. native' = [native EXCEPT !.entry = entry]
      BY <3>1 DEF entry
    <3>4. native' \in Native
      BY <1>2, <3>2, <3>3
    <3>5. past' \in Past
      BY <1>2, <3>1
    <3>6. QED
      BY <3>4, <3>5
  <2>3. QED
    BY <2>1, <2>2
<1>4. ledger' \in Ledger /\ slots' \in SlotMap
  BY <1>1, ClearShape DEF Shape
<1>5. QED
  BY <1>1, <1>3, <1>4, LeaveShape DEF Shape

LEMMA SettlesShape ==
  ASSUME Shape, Settles PROVE Shape'
<1> native \in Native /\ world \in World /\ session \in Session
  BY DEF Shape
<1>1. CASE FlightReady
  <2>1. UNCHANGED <<mailbox, pair, observer, slots, ledger, native, past>>
        /\ world' = [world EXCEPT !.flight = "ready"]
    BY <1>1 DEF FlightReady, FlightBecomes
  <2>2. PICK b \in BOOLEAN : b = (session.current /\ world.flight = "unready")
    OBVIOUS
  <2>3. session' = [session EXCEPT !.current = b]
    BY <1>1, <2>2 DEF FlightReady
  <2>4. session' \in Session
    BY <2>3
  <2>5. world' \in World
    BY <2>1
  <2>6. QED
    BY <2>1, <2>4, <2>5 DEF Shape
<1>2. CASE ManagerFound
  <2>1. UNCHANGED <<mailbox, pair, observer, session, slots, ledger, native, past>>
        /\ world' = [world EXCEPT !.managed = TRUE]
    BY <1>2 DEF ManagerFound
  <2>2. world' \in World
    BY <2>1
  <2>3. QED
    BY <2>1, <2>2 DEF Shape
<1>3. ASSUME NEW id \in Ids, SetupFinished(id) PROVE Shape'
  <2>1. UNCHANGED <<mailbox, pair, observer, session, slots, ledger, world, past>>
    BY <1>3 DEF SetupFinished
  <2>2. native' = [native EXCEPT !.entry = [native.entry EXCEPT ![id] = "open"]]
    BY <1>3 DEF SetupFinished
  <2>3. [native.entry EXCEPT ![id] = "open"] \in [Ids -> States]
    OBVIOUS
  <2>4. native' \in Native
    BY <2>2, <2>3
  <2>5. QED
    BY <2>1, <2>4 DEF Shape
<1>4. ASSUME NEW id \in Ids, ViewReleased(id) PROVE Shape'
  <2>1. UNCHANGED <<mailbox, pair, observer, session, slots, ledger, world, past>>
        /\ native' = [native EXCEPT !.releasing = @ \ {id}]
    BY <1>4 DEF ViewReleased
  <2>2. native' \in Native
    BY <2>1
  <2>3. QED
    BY <2>1, <2>2 DEF Shape
<1>5. QED
  BY <1>1, <1>2, <1>3, <1>4 DEF Settles

LEMMA TeardownShape ==
  ASSUME Shape, Teardown PROVE Shape'
<1> DEFINE gone == {id \in Ids : native.entry[id] \in Live}
           lost == {id \in gone : \A f \in 1..Feeds : ledger.views[f] # id}
           entry == [id \in Ids |-> IF id \in gone THEN "gone" ELSE native.entry[id]]
<1>1. native \in Native /\ past \in Past
  BY DEF Shape
<1>2. UNCHANGED <<mailbox, pair, observer, session, slots, ledger, world>>
  BY DEF Teardown
<1>3. entry \in [Ids -> States] /\ gone \subseteq Ids /\ lost \subseteq Ids
  BY <1>1
<1>4. native' = [native EXCEPT !.entry = entry, !.releasing = native.releasing \cup gone]
      /\ past' = [past EXCEPT !.troubles = @ + 1, !.dropped = @ \cup lost]
      /\ past.troubles < MaxTroubles
  BY DEF Teardown
<1> HIDE DEF entry, lost, gone
<1>5. native' \in Native
  BY <1>1, <1>3, <1>4
<1>6. past' \in Past
  <2>1. PICK n \in 0..MaxTroubles : n = past.troubles + 1
    BY <1>1, <1>4
  <2>2. past' = [past EXCEPT !.troubles = n, !.dropped = past.dropped \cup lost]
    BY <1>1, <1>4, <2>1
  <2>3. QED
    BY <1>1, <1>3, <2>2
<1>7. QED
  BY <1>2, <1>5, <1>6 DEF Shape

LEMMA LossShape ==
  ASSUME Shape, Load \/ TelemetryLost \/ ManagerLost PROVE Shape'
<1>1. UNCHANGED <<mailbox, pair, observer, session, slots, ledger, native>> /\ Trouble
  BY DEF Load, TelemetryLost, ManagerLost, FlightBecomes
<1>2. world' \in {[world EXCEPT !.flight = "loading"], [world EXCEPT !.flight = "unready"],
                  [world EXCEPT !.managed = FALSE]}
  BY DEF Load, TelemetryLost, ManagerLost, FlightBecomes
<1>3. world \in World
  BY DEF Shape
<1>4. world' \in World
  BY <1>2, <1>3
<1>5. past' \in Past
  BY <1>1, TroubleShape DEF Shape
<1>6. QED
  BY <1>1, <1>4, <1>5 DEF Shape

\* StoreEntry apart, which needs to know that an entry was created.
LEMMA NextShape ==
  ASSUME Shape, Next, StoreEntry => native.last \in Ids PROVE Shape'
<1>1. CASE ProcessUpdate
  BY <1>1, TakeMailboxShape, EraseCallbackShape, CleanupDoneShape, CreateRefusedShape,
     CreateEntryShape, StoreEntryShape DEF ProcessUpdate
<1>2. CASE ManagerUpdate
  BY <1>1, <1>2, UpdateShape, HoldShape, KeepingShape, NormalShape, CreatedShape, ShowShape
  DEF ManagerUpdate
<1>3. QED
  BY <1>2, RequestShape, SettlesShape, TeardownShape, LossShape DEF Next

(***************************************************************************)
(* The retirement slots in use never exceed the slots there are.            *)
(***************************************************************************)

Taken == {id \in Ids : slots[id] # "none"}

SlotsCounted == Cardinality(Taken) <= Slots

LEMMA IdsFinite ==
  /\ IsFiniteSet(Ids)
  /\ \A S \in SUBSET Ids : IsFiniteSet(S) /\ Cardinality(S) \in Nat
<1>1. IsFiniteSet(Ids)
  BY FS_Interval DEF Ids
<1>2. ASSUME NEW S \in SUBSET Ids PROVE IsFiniteSet(S) /\ Cardinality(S) \in Nat
  BY <1>1, FS_Subset, FS_CardinalityType
<1>3. QED
  BY <1>1, <1>2

\* The steps that move slots: the erase callback, and the ends of an update.
LEMMA SlotChange ==
  ASSUME Shape, Next
  PROVE  \/ UNCHANGED slots
         \/ EraseCallback
         \/ Update /\ Aged
         \/ slots' = [id \in Ids |-> "none"]
<1>1. CASE Request
  BY <1>1, RequestChange
<1>2. CASE ProcessUpdate
  BY <1>2 DEF ProcessUpdate, TakeMailbox, CleanupDone, CreateRefused, CreateEntry, StoreEntry
<1>3. CASE Update
  BY <1>3, UpdateChange
<1>4. CASE HoldDrain \/ HoldAcknowledge \/ Inspect \/ RequestCreation
  BY <1>4 DEF HoldDrain, HoldAcknowledge, Inspect, RequestCreation
<1>5. CASE HoldConfirm \/ CancelDeferred \/ Show
  <2>1. \E gone : ClearIf(gone)
    BY <1>5 DEF HoldConfirm, CancelDeferred, Show
  <2>2. QED
    BY <2>1 DEF ClearIf
<1>6. CASE KeptSettle \/ KeptInspect \/ KeptStore
  BY <1>6, KeepingChange
<1>7. CASE AfterCreation \/ ShowFails
  BY <1>7, CreatedChange
<1>8. CASE Settles
  BY <1>8 DEF Settles, FlightReady, FlightBecomes, ManagerFound, SetupFinished, ViewReleased
<1>9. CASE Teardown \/ Load \/ TelemetryLost \/ ManagerLost
  BY <1>9 DEF Teardown, Load, TelemetryLost, ManagerLost, FlightBecomes
<1>10. QED
  BY <1>1, <1>2, <1>3, <1>4, <1>5, <1>6, <1>7, <1>8, <1>9 DEF Next, ManagerUpdate

LEMMA EraseSlots ==
  ASSUME EraseCallback
  PROVE  UNCHANGED slots \/ \E id \in observer.todo :
            forget(id) \/ (FreeSlot /\ slots[id] = "none" /\ Slotted(id, "this"))
  BY DEF EraseCallback

LEMMA SlotsStayCounted ==
  ASSUME Shape, SlotsCounted, Next PROVE SlotsCounted'
<1> slots \in SlotMap /\ observer.todo \subseteq Ids
  BY DEF Shape
<1>1. IsFiniteSet(Taken) /\ Cardinality(Taken) \in Nat
  BY IdsFinite DEF Taken
<1>2. ASSUME Taken' \subseteq Taken PROVE SlotsCounted'
  <2>1. Cardinality(Taken') <= Cardinality(Taken) /\ Cardinality(Taken') \in Nat
    BY <1>1, <1>2, FS_Subset, FS_CardinalityType
  <2>2. QED
    BY <1>1, <2>1 DEF SlotsCounted
<1>3. CASE UNCHANGED slots
  BY <1>2, <1>3 DEF Taken
<1>4. CASE EraseCallback /\ ~UNCHANGED slots
  <2>1. PICK id \in observer.todo :
          forget(id) \/ (FreeSlot /\ slots[id] = "none" /\ Slotted(id, "this"))
    BY <1>4, EraseSlots
  <2>2. CASE forget(id)
    BY <1>2, <2>2 DEF forget, Slotted, Taken
  <2>3. CASE FreeSlot /\ slots[id] = "none" /\ Slotted(id, "this")
    <3>1. Taken' = Taken \cup {id}
      BY <2>3 DEF Slotted, Taken
    <3>2. id \notin Taken
      BY <2>3 DEF Taken
    <3>3. Cardinality(Taken') = Cardinality(Taken) + 1
      BY <1>1, <3>1, <3>2, FS_AddElement
    <3>4. Cardinality(Taken) < Slots
      BY <2>3 DEF FreeSlot, Taken
    <3>5. QED
      BY <1>1, <3>3, <3>4 DEF SlotsCounted
  <2>4. QED
    BY <2>1, <2>2, <2>3
<1>5. CASE Aged
  BY <1>2, <1>5 DEF Aged, Taken
<1>6. CASE slots' = [id \in Ids |-> "none"]
  BY <1>2, <1>6 DEF Taken
<1>7. QED
  BY <1>3, <1>4, <1>5, <1>6, SlotChange

(***************************************************************************)
(* A creation is asked for once per update, when nothing is owned, and then *)
(* makes one entry after the other.                                         *)
(***************************************************************************)

Late == {"created", "deferred", "shown"}

Creating ==
    /\ mailbox = "enable" =>
          /\ observer.at = "created" /\ observer.step = "take" /\ observer.made = 0
          /\ pair.ids = {}
    /\ ~pair.pending
    /\ observer.step = "none" => pair.shown = pair.ids
    /\ observer.at \notin Late => observer.made = 0
    /\ observer.step \in {"create", "store"} =>
          observer.at = "created" /\ Cardinality(pair.ids) < Feeds
    /\ observer.step = "create" => observer.made = Cardinality(pair.ids)
    /\ observer.step = "store" =>
          observer.made = Cardinality(pair.ids) + 1 /\ native.last \in Ids \ pair.ids
    /\ \A id \in pair.ids : id <= native.last
    /\ Cardinality(pair.ids) <= Feeds
    /\ observer.made <= Feeds

\* Nothing that Creating speaks of moves.
LEMMA CreatingUntouched ==
  ASSUME Creating, native'.last = native.last, pair'.ids = pair.ids, ~pair'.pending,
         observer'.at = observer.at, observer'.step = observer.step,
         observer'.made = observer.made,
         observer.step = "none" => pair'.shown = pair.ids,
         mailbox' = "enable" => mailbox = "enable"
  PROVE  Creating'
  BY DEF Creating

\* No creation is under way after the step.
LEMMA CreatingElsewhere ==
  ASSUME Creating, native'.last = native.last, pair'.ids = pair.ids, ~pair'.pending,
         observer'.step \in {"none", "take", "erase"},
         observer'.made \in {0, observer.made},
         observer'.at \in Late \/ observer'.made = 0,
         observer'.step = "none" => pair'.shown = pair.ids,
         mailbox' = "enable" => observer'.at = "created" /\ observer'.step = "take"
                                /\ observer'.made = 0 /\ pair.ids = {}
  PROVE  Creating'
  BY DEF Creating

LEMMA CancelCreating ==
  ASSUME pair \in Pair, Creating
  PROVE  /\ CancelledPair.ids = pair.ids /\ ~CancelledPair.pending
         /\ observer.step = "none" => CancelledPair.shown = pair.ids
         /\ CancelledPair.active => pair.active
         /\ CancelledMail = "enable" => mailbox = "enable"
<1>1. CASE Cancelled
  BY <1>1 DEF CancelledPair, CancelledMail, Cancelled
<1>2. CASE ~Cancelled
  BY <1>2 DEF CancelledPair, CancelledMail, Creating
<1>3. QED
  BY <1>1, <1>2

LEMMA InitCreating == Init => Creating
<1> SUFFICES ASSUME Init PROVE Creating
  OBVIOUS
<1>1. mailbox = "none" /\ pair.ids = {} /\ pair.shown = {} /\ ~pair.pending
  BY DEF Init
<1>2. observer.at = "between" /\ observer.step = "none" /\ observer.made = 0
  BY DEF Init, Outside
<1>3. Cardinality({}) = 0
  BY FS_EmptySet
<1>4. QED
  BY <1>1, <1>2, <1>3 DEF Creating, Late

LEMMA RequestCreating ==
  ASSUME Shape, Creating, Request PROVE Creating'
<1> observer \in Observer /\ pair \in Pair
  BY DEF Shape
<1>1. UNCHANGED native
  BY RequestChange
<1>2. observer'.at = observer.at /\ observer'.step = observer.step
      /\ observer'.made = observer.made
  BY RequestChange, SupersededShape
<1>3. \/ pair' = CancelledPair /\ mailbox' = CancelledMail
      \/ pair' = pair /\ mailbox' \in {mailbox, "disable"}
  BY RequestChange DEF Turned
<1>4. /\ pair'.ids = pair.ids /\ ~pair'.pending
      /\ observer.step = "none" => pair'.shown = pair.ids
      /\ mailbox' = "enable" => mailbox = "enable"
  <2>1. CASE pair' = CancelledPair /\ mailbox' = CancelledMail
    BY <2>1, CancelCreating
  <2>2. CASE pair' = pair /\ mailbox' \in {mailbox, "disable"}
    BY <2>2 DEF Creating
  <2>3. QED
    BY <1>3, <2>1, <2>2
<1>5. QED
  BY <1>1, <1>2, <1>4, CreatingUntouched

LEMMA EnvironmentCreating ==
  ASSUME Shape, Creating, Settles \/ Teardown \/ Load \/ TelemetryLost \/ ManagerLost
  PROVE  Creating'
<1>1. UNCHANGED <<mailbox, pair, observer>>
  BY DEF Settles, Teardown, Load, TelemetryLost, ManagerLost, FlightReady, ManagerFound,
     SetupFinished, ViewReleased, FlightBecomes
<1>2. native'.last = native.last
  <2>1. native \in Native
    BY DEF Shape
  <2>2. CASE FlightReady \/ ManagerFound \/ Load \/ TelemetryLost \/ ManagerLost
    BY <2>2 DEF FlightReady, ManagerFound, Load, TelemetryLost, ManagerLost, FlightBecomes
  <2>3. CASE Teardown
    BY <2>1, <2>3 DEF Teardown
  <2>4. ASSUME NEW id \in Ids, SetupFinished(id) \/ ViewReleased(id)
        PROVE  native'.last = native.last
    BY <2>1, <2>4 DEF SetupFinished, ViewReleased
  <2>5. QED
    BY <2>2, <2>3, <2>4 DEF Settles
<1>3. QED
  BY <1>1, <1>2, CreatingUntouched DEF Creating

LEMMA TakeMailboxCreating ==
  ASSUME Shape, Creating, TakeMailbox PROVE Creating'
<1> DEFINE p == Commanded
<1> observer \in Observer /\ pair \in Pair /\ mailbox \in Mail
  BY DEF Shape
<1>1. p \in Pair /\ p.ids = pair.ids
  BY CommandedShape
<1>2. p.pending => mailbox = "enable"
  BY DEF Creating, Commanded
<1>3. mailbox' = "none" /\ UNCHANGED native /\ observer.step = "take"
  BY DEF TakeMailbox, Inside
<1>4. \/ p.ids = {} /\ p.pending /\ StartCreation(p)
      \/ p.ids # {} /\ StartCleanup(p)
      \/ ~(p.ids = {} /\ p.pending) /\ Publish(p)
  BY DEF TakeMailbox
<1>5. mailbox = "enable" => pair.ids = {}
  BY DEF Creating
<1> HIDE DEF p
<1>6. CASE p.ids = {} /\ p.pending /\ StartCreation(p)
  <2>1. pair' = [p EXCEPT !.pending = FALSE]
        /\ observer' = [observer EXCEPT !.step = "create", !.todo = {}]
    BY <1>6 DEF StartCreation
  <2>2. pair'.ids = {} /\ ~pair'.pending
    BY <1>1, <1>6, <2>1
  <2>3. observer'.step = "create" /\ observer'.at = observer.at /\ observer'.made = observer.made
    BY <2>1
  <2>4. observer.at = "created" /\ observer.made = 0
    BY <1>2, <1>6 DEF Creating
  <2>5. Cardinality({}) = 0
    BY FS_EmptySet
  <2>6. Creating' <=>
          /\ Cardinality(pair'.ids) < Feeds /\ observer'.made = Cardinality(pair'.ids)
          /\ observer'.made <= Feeds
    BY <1>3, <2>2, <2>3, <2>4, <2>5 DEF Creating, Late
  <2>7. QED
    BY <2>2, <2>3, <2>4, <2>5, <2>6
<1>7. CASE p.ids # {} /\ StartCleanup(p)
  <2>1. pair' = [p EXCEPT !.active = FALSE]
        /\ observer' = [observer EXCEPT !.step = "erase", !.todo = p.ids]
    BY <1>7 DEF StartCleanup
  <2>2. pair'.ids = pair.ids /\ ~pair'.pending
    BY <1>1, <1>2, <1>5, <1>7, <2>1
  <2>3. observer'.step = "erase" /\ observer'.at = observer.at /\ observer'.made = observer.made
    BY <2>1
  <2>4. observer.at \in Late \/ observer.made = 0
    BY DEF Creating
  <2>5. QED
    BY <1>3, <2>2, <2>3, <2>4, CreatingElsewhere
<1>8. CASE ~(p.ids = {} /\ p.pending) /\ Publish(p)
  <2>1. pair' = [p EXCEPT !.shown = p.ids, !.shownPending = p.pending]
        /\ observer' = [observer EXCEPT !.step = "none", !.todo = {}]
    BY <1>8 DEF Publish
  <2>2. pair'.ids = pair.ids /\ ~pair'.pending /\ pair'.shown = pair.ids
    BY <1>1, <1>2, <1>5, <1>8, <2>1
  <2>3. observer'.step = "none" /\ observer'.at = observer.at /\ observer'.made = observer.made
    BY <2>1
  <2>4. observer.at \in Late \/ observer.made = 0
    BY DEF Creating
  <2>5. QED
    BY <1>3, <2>2, <2>3, <2>4, CreatingElsewhere
<1>9. QED
  BY <1>4, <1>6, <1>7, <1>8

LEMMA CloseLast ==
  ASSUME native \in Native, NEW S, Close(S) PROVE native'.last = native.last
  BY DEF Close

LEMMA EraseCallbackCreating ==
  ASSUME Shape, Creating, EraseCallback PROVE Creating'
<1> observer \in Observer /\ pair \in Pair /\ native \in Native
  BY DEF Shape
<1>1. PICK id \in observer.todo :
        /\ Tried(id, TRUE) \/ Tried(id, FALSE)
        /\ UNCHANGED native \/ Close({id}) \/ EraseEntry(id)
  BY DEF EraseCallback
<1>2. mailbox' = mailbox /\ observer.step = "erase"
  BY DEF EraseCallback, Inside
<1>3. native'.last = native.last
  BY <1>1, CloseLast DEF EraseEntry
<1>4. pair'.ids \subseteq pair.ids /\ pair'.pending = pair.pending
  BY <1>1 DEF Tried
<1>5. observer' = [observer EXCEPT !.todo = @ \ {id}]
  BY <1>1 DEF Tried
<1>6. observer'.step = "erase" /\ observer'.at = observer.at /\ observer'.made = observer.made
  BY <1>2, <1>5
<1>7. Cardinality(pair'.ids) <= Cardinality(pair.ids) /\ Cardinality(pair'.ids) \in Nat
      /\ Cardinality(pair.ids) \in Nat
  <2>1. IsFiniteSet(pair.ids)
    BY IdsFinite
  <2>2. QED
    BY <1>4, <2>1, FS_Subset, FS_CardinalityType
<1>8. mailbox # "enable"
  BY <1>2 DEF Creating
<1>9. Cardinality(pair'.ids) <= Feeds
  BY <1>7 DEF Creating
<1>10. QED
  BY <1>2, <1>3, <1>4, <1>6, <1>8, <1>9 DEF Creating, Late

LEMMA CleanupDoneCreating ==
  ASSUME Shape, Creating, CleanupDone PROVE Creating'
<1> observer \in Observer /\ pair \in Pair
  BY DEF Shape
<1>1. Publish(pair) /\ UNCHANGED <<mailbox, native>> /\ observer.step = "erase"
  BY DEF CleanupDone, Creating, Inside
<1>2. pair' = [pair EXCEPT !.shown = pair.ids, !.shownPending = pair.pending]
      /\ observer' = [observer EXCEPT !.step = "none", !.todo = {}]
  BY <1>1 DEF Publish
<1>3. pair'.ids = pair.ids /\ pair'.shown = pair.ids /\ pair'.pending = pair.pending
  BY <1>2
<1>4. observer'.step = "none" /\ observer'.at = observer.at /\ observer'.made = observer.made
  BY <1>2
<1>5. ~pair.pending /\ mailbox # "enable" /\ (observer.at \in Late \/ observer.made = 0)
  BY <1>1 DEF Creating
<1>6. QED
  BY <1>1, <1>3, <1>4, <1>5, CreatingElsewhere

\* What a refused creation leaves, in fields.
LEMMA RefusedFields ==
  ASSUME Shape, CreateRefused
  PROVE  /\ pair'.ids = pair.ids /\ pair'.pending = pair.pending
         /\ observer'.at = observer.at /\ observer'.made = observer.made
         /\ UNCHANGED <<mailbox, native, slots>> /\ observer.step = "create"
         /\ \/ observer'.step = "none" /\ pair.ids = {} /\ pair'.shown = {}
               /\ pair'.active = pair.active
            \/ observer'.step = "erase" /\ ~pair'.active
<1> observer \in Observer /\ pair \in Pair
  BY DEF Shape
<1> DEFINE p == [pair EXCEPT !.failed = TRUE]
<1>1. p \in Pair /\ p.ids = pair.ids /\ p.pending = pair.pending /\ p.active = pair.active
  OBVIOUS
<1>2. UNCHANGED <<mailbox, native, slots>> /\ observer.step = "create"
  BY DEF CreateRefused, Inside
<1>3. PICK full \in BOOLEAN :
        LET d == observer.deferred \/ (Admissible /\ (full \/ ~capacity)) IN
        IF p.ids = {}
        THEN /\ pair' = [p EXCEPT !.shown = {}, !.shownPending = FALSE]
             /\ observer' = [observer EXCEPT !.step = "none", !.deferred = d]
        ELSE /\ pair' = [p EXCEPT !.active = FALSE]
             /\ observer' = [observer EXCEPT !.step = "erase", !.todo = p.ids, !.deferred = d]
  BY DEF CreateRefused
<1>4. PICK d \in BOOLEAN : d = (observer.deferred \/ (Admissible /\ (full \/ ~capacity)))
  OBVIOUS
<1> HIDE DEF p
<1>5. CASE p.ids = {}
  <2>1. pair' = [p EXCEPT !.shown = {}, !.shownPending = FALSE]
        /\ observer' = [observer EXCEPT !.step = "none", !.deferred = d]
    BY <1>3, <1>4, <1>5
  <2>2. QED
    BY <1>1, <1>2, <1>5, <2>1
<1>6. CASE p.ids # {}
  <2>1. pair' = [p EXCEPT !.active = FALSE]
        /\ observer' = [observer EXCEPT !.step = "erase", !.todo = p.ids, !.deferred = d]
    BY <1>3, <1>4, <1>6
  <2>2. QED
    BY <1>1, <1>2, <2>1
<1>7. QED
  BY <1>5, <1>6

LEMMA CreateRefusedCreating ==
  ASSUME Shape, Creating, CreateRefused PROVE Creating'
<1>1. ~pair.pending /\ mailbox # "enable" /\ (observer.at \in Late \/ observer.made = 0)
  BY RefusedFields DEF Creating
<1>2. QED
  BY <1>1, RefusedFields, CreatingElsewhere

\* What a creation changes, in fields.
LEMMA CreatedFields ==
  ASSUME Shape, CreateEntry
  PROVE  /\ UNCHANGED <<mailbox, pair, slots>> /\ observer.step = "create"
         /\ observer'.step = "store" /\ observer'.at = observer.at
         /\ observer'.made = observer.made + 1
         /\ NextId \in Ids /\ native'.last = NextId
         /\ native'.entry \in {[native.entry EXCEPT ![NextId] = "open"],
                               [native.entry EXCEPT ![NextId] = "pending"]}
<1> observer \in Observer /\ native \in Native
  BY DEF Shape
<1>1. observer' = [observer EXCEPT !.step = "store", !.made = @ + 1]
      /\ UNCHANGED <<mailbox, pair, slots>> /\ observer.step = "create" /\ NextId \in Ids
  BY DEF CreateEntry, Inside
<1>2. observer'.step = "store" /\ observer'.at = observer.at /\ observer'.made = observer.made + 1
  BY <1>1
<1>3. PICK state \in {"open", "pending"} : Create(state)
  BY DEF CreateEntry
<1>4. native' = [native EXCEPT !.entry = [native.entry EXCEPT ![NextId] = state], !.last = NextId]
  BY <1>3 DEF Create
<1> HIDE DEF NextId
<1>5. native'.last = NextId /\ native'.entry = [native.entry EXCEPT ![NextId] = state]
  BY <1>4
<1>6. QED
  BY <1>1, <1>2, <1>5

LEMMA CreateEntryCreating ==
  ASSUME Shape, Creating, CreateEntry PROVE Creating'
<1> observer.made \in Nat /\ native.last \in 0..MaxIds /\ pair.ids \subseteq Ids
  BY DEF Shape
<1>1. /\ observer.at = "created" /\ Cardinality(pair.ids) < Feeds /\ ~pair.pending
      /\ observer.made = Cardinality(pair.ids) /\ mailbox # "enable"
      /\ \A id \in pair.ids : id <= native.last
  BY CreatedFields DEF Creating
<1>2. native'.last = native.last + 1 /\ native'.last \in Ids
  BY CreatedFields DEF NextId
<1>3. Cardinality(pair.ids) \in Nat /\ \A id \in pair.ids : id \in Nat
  BY IdsFinite DEF Ids
<1>4. native'.last \notin pair.ids /\ \A id \in pair.ids : id <= native'.last
  BY <1>1, <1>2, <1>3
<1>5. observer'.made = Cardinality(pair.ids) + 1 /\ observer'.made <= Feeds
  BY <1>1, <1>3, CreatedFields
<1>6. QED
  BY <1>1, <1>2, <1>4, <1>5, CreatedFields DEF Creating, Late

\* What storing an entry changes, in fields.
LEMMA StoredFields ==
  ASSUME Shape, StoreEntry
  PROVE  /\ UNCHANGED <<mailbox, slots>> /\ observer.step = "store"
         /\ Close({native.last})
         /\ pair'.ids = pair.ids \cup {native.last} /\ pair'.pending = pair.pending
         /\ observer'.at = observer.at /\ observer'.made = observer.made
         /\ \/ /\ Cardinality(pair'.ids) < Feeds
               /\ observer'.step = "create" /\ pair'.active = pair.active
            \/ /\ ~(Cardinality(pair'.ids) < Feeds)
               /\ observer'.step = "none" /\ pair'.shown = pair'.ids
<1> DEFINE id == native.last
           p == [pair EXCEPT !.ids = pair.ids \cup {id}]
<1> observer \in Observer /\ pair \in Pair
  BY DEF Shape
<1>1. UNCHANGED <<mailbox, slots>> /\ Close({id}) /\ observer.step = "store"
  BY DEF StoreEntry, Inside
<1>2. PICK valid :
        IF Cardinality(p.ids) < Feeds
        THEN pair' = p /\ observer' = [observer EXCEPT !.step = "create", !.valid = valid]
        ELSE /\ pair' = [p EXCEPT !.active = TRUE, !.shown = p.ids, !.shownPending = FALSE]
             /\ observer' = [observer EXCEPT !.step = "none", !.valid = valid]
  <2>1. PICK valid \in BOOLEAN : valid = (native.entry[id] = "open" /\ work_allowed)
    OBVIOUS
  <2>2. QED
    BY <2>1 DEF StoreEntry
<1>3. /\ p.ids = pair.ids \cup {id} /\ p.pending = pair.pending /\ p.active = pair.active
      /\ DOMAIN p = {"ids", "enabled", "pending", "active", "failed", "shown", "shownPending"}
  OBVIOUS
<1> HIDE DEF p, id
<1>4. CASE Cardinality(p.ids) < Feeds
  <2>1. pair' = p /\ observer' = [observer EXCEPT !.step = "create", !.valid = valid]
    BY <1>2, <1>4
  <2>2. observer'.step = "create" /\ observer'.at = observer.at /\ observer'.made = observer.made
    BY <2>1
  <2>3. QED
    BY <1>1, <1>3, <1>4, <2>1, <2>2 DEF id
<1>5. CASE ~(Cardinality(p.ids) < Feeds)
  <2>1. pair' = [p EXCEPT !.active = TRUE, !.shown = p.ids, !.shownPending = FALSE]
        /\ observer' = [observer EXCEPT !.step = "none", !.valid = valid]
    BY <1>2, <1>5
  <2>2. observer'.step = "none" /\ observer'.at = observer.at /\ observer'.made = observer.made
    BY <2>1
  <2>3. pair'.ids = p.ids /\ pair'.shown = p.ids /\ pair'.pending = p.pending
    BY <1>3, <2>1
  <2>4. QED
    BY <1>1, <1>3, <1>5, <2>2, <2>3 DEF id
<1>6. QED
  BY <1>4, <1>5

LEMMA StoreEntryCreating ==
  ASSUME Shape, Creating, StoreEntry PROVE Creating'
<1> native \in Native /\ pair.ids \subseteq Ids
  BY DEF Shape
<1>1. native'.last = native.last
  BY StoredFields, CloseLast
<1>2. /\ observer.at = "created" /\ Cardinality(pair.ids) < Feeds /\ ~pair.pending
      /\ observer.made = Cardinality(pair.ids) + 1 /\ native.last \notin pair.ids
      /\ \A id \in pair.ids : id <= native.last
      /\ mailbox # "enable" /\ observer.made <= Feeds
  BY StoredFields DEF Creating
<1>3. IsFiniteSet(pair.ids) /\ Cardinality(pair.ids) \in Nat
  BY IdsFinite
<1>4. Cardinality(pair'.ids) = Cardinality(pair.ids) + 1
  BY <1>2, <1>3, StoredFields, FS_AddElement, SMTT(20)
<1>5. Cardinality(pair'.ids) <= Feeds /\ observer'.made = Cardinality(pair'.ids)
  BY <1>2, <1>3, <1>4, StoredFields
<1>6. \A id \in pair'.ids : id <= native'.last
  BY <1>1, <1>2, StoredFields
<1>7. QED
  BY <1>1, <1>2, <1>5, <1>6, StoredFields DEF Creating, Late

LEMMA UpdateCreating ==
  ASSUME Shape, Creating, Update PROVE Creating'
<1> pair \in Pair /\ native \in Native
  BY DEF Shape
<1>1. observer.step = "none" /\ observer.at = "between"
      /\ observer'.step = "none" /\ observer'.made = 0
  BY UpdateChange
<1>2. native'.last = native.last
  BY UpdateChange, CloseLast
<1>3. \/ pair' = CancelledPair /\ mailbox' = CancelledMail
      \/ UNCHANGED <<mailbox, pair>>
  BY UpdateChange DEF Turned
<1>4. pair'.ids = pair.ids /\ ~pair'.pending /\ pair'.shown = pair.ids /\ mailbox' # "enable"
  BY <1>1, <1>3, CancelCreating DEF Creating
<1>5. QED
  BY <1>1, <1>2, <1>4, CreatingElsewhere

LEMMA KeepingCreating ==
  ASSUME Shape, Creating, KeptSettle \/ KeptInspect \/ KeptStore PROVE Creating'
<1> pair \in Pair /\ native \in Native
  BY DEF Shape
<1>1. observer.step = "none" /\ observer.made = 0 /\ mailbox # "enable" /\ ~pair.pending
      /\ pair.shown = pair.ids
  BY KeepingChange DEF Creating, Late
<1>2. native'.last = native.last
  BY KeepingChange, CloseLast
<1>3. pair'.ids = pair.ids /\ ~pair'.pending /\ pair'.shown = pair.ids /\ mailbox' # "enable"
  BY <1>1, KeepingChange, CancelCreating
<1>4. observer'.step = "none" /\ observer'.made = 0
  <2>1. Outside.step = "none" /\ Outside.made = 0
    BY DEF Outside
  <2>2. QED
    BY <1>1, <2>1, KeepingChange
<1>5. QED
  BY <1>1, <1>2, <1>3, <1>4, CreatingElsewhere

LEMMA CreatedCreating ==
  ASSUME Shape, Creating, AfterCreation \/ ShowFails PROVE Creating'
<1> pair \in Pair /\ observer \in Observer
  BY DEF Shape
<1>1. observer.step = "none" /\ mailbox # "enable" /\ ~pair.pending /\ pair.shown = pair.ids
  BY CreatedChange DEF Creating
<1>2. native'.last = native.last
  BY CreatedChange
<1>3. pair'.ids = pair.ids /\ ~pair'.pending /\ pair'.shown = pair.ids /\ mailbox' # "enable"
  BY <1>1, CreatedChange, CancelCreating
<1>4. /\ observer'.step \in {"none", "take"} /\ observer'.made \in {0, observer.made}
      /\ observer'.at \in Late \/ observer'.made = 0
  BY CreatedChange, CreatedObserver DEF Late
<1>5. QED
  BY <1>1, <1>2, <1>3, <1>4, CreatingElsewhere

LEMMA HoldCreating ==
  ASSUME Shape, Creating, HoldDrain \/ HoldConfirm \/ HoldAcknowledge PROVE Creating'
<1> observer \in Observer /\ pair \in Pair
  BY DEF Shape
<1>1. observer.step = "none" /\ observer.made = 0 /\ mailbox # "enable" /\ ~pair.pending
      /\ pair.shown = pair.ids
  BY DEF HoldDrain, HoldConfirm, HoldAcknowledge, At, Creating, Late
<1>2. UNCHANGED native
  BY DEF HoldDrain, HoldConfirm, HoldAcknowledge
<1>3. pair' = CancelledPair \/ pair' = pair
  BY DEF HoldDrain, HoldConfirm, HoldAcknowledge
<1>4. pair'.ids = pair.ids /\ ~pair'.pending /\ pair'.shown = pair.ids
  BY <1>1, <1>3, CancelCreating
<1>5. mailbox' # "enable"
  BY <1>1, CancelCreating DEF HoldDrain, HoldConfirm, HoldAcknowledge
<1>6. observer'.step \in {"none", "take"} /\ observer'.made = 0
  <2>1. Outside.step = "none" /\ Outside.made = 0
    BY DEF Outside
  <2>2. \/ observer' = [observer EXCEPT !.at = "drained", !.step = "take"]
        \/ observer' = [observer EXCEPT !.at = "drained"]
        \/ \E b : observer' = [observer EXCEPT !.at = "confirmed", !.drained = b]
        \/ observer' = Outside
    BY DEF HoldDrain, HoldConfirm, HoldAcknowledge, Process, Leave
  <2>3. QED
    BY <1>1, <2>1, <2>2
<1>7. QED
  BY <1>2, <1>4, <1>5, <1>6, CreatingElsewhere

LEMMA NormalCreating ==
  ASSUME Shape, Creating, Inspect \/ RequestCreation PROVE Creating'
<1> observer \in Observer /\ pair \in Pair
  BY DEF Shape
<1>1. observer.step = "none" /\ observer.made = 0 /\ mailbox # "enable" /\ ~pair.pending
      /\ pair.shown = pair.ids
  BY DEF Inspect, RequestCreation, At, Creating, Late
<1>2. UNCHANGED <<native, pair>>
  BY DEF Inspect, RequestCreation
<1>3. CASE Inspect
  <2>1. Outside.step = "none" /\ Outside.made = 0
    BY DEF Outside
  <2>2. \/ observer' = [observer EXCEPT !.at = "processed", !.step = "take"]
        \/ observer' = Outside
    BY <1>3 DEF Inspect, Process, Leave
  <2>3. observer'.step \in {"none", "take"} /\ observer'.made = 0
    BY <1>1, <2>1, <2>2
  <2>4. mailbox' # "enable"
    BY <1>1, <1>3 DEF Inspect
  <2>5. QED
    BY <1>1, <1>2, <2>3, <2>4, CreatingElsewhere
<1>4. CASE RequestCreation
  <2>1. \/ /\ mailbox' = "enable" /\ pair.shown = {}
           /\ observer' = [observer EXCEPT !.at = "created", !.step = "take"]
        \/ /\ UNCHANGED mailbox
           /\ observer' = [observer EXCEPT !.at = "shown"]
    BY <1>4 DEF RequestCreation
  <2>2. CASE /\ mailbox' = "enable" /\ pair.shown = {}
             /\ observer' = [observer EXCEPT !.at = "created", !.step = "take"]
    <3>1. observer'.at = "created" /\ observer'.step = "take" /\ observer'.made = 0
      BY <1>1, <2>2
    <3>2. QED
      BY <1>1, <1>2, <2>2, <3>1, CreatingElsewhere
  <2>3. CASE UNCHANGED mailbox /\ observer' = [observer EXCEPT !.at = "shown"]
    <3>1. observer'.step = "none" /\ observer'.made = 0
      BY <1>1, <2>3
    <3>2. QED
      BY <1>1, <1>2, <2>3, <3>1, CreatingElsewhere
  <2>4. QED
    BY <2>1, <2>2, <2>3
<1>5. QED
  BY <1>3, <1>4

LEMMA LateCreating ==
  ASSUME Shape, Creating, CancelDeferred \/ Show PROVE Creating'
<1> observer \in Observer /\ pair \in Pair /\ native \in Native
  BY DEF Shape
<1>1. observer.step = "none" /\ mailbox # "enable" /\ ~pair.pending /\ pair.shown = pair.ids
  BY DEF CancelDeferred, Show, At, Creating
<1>2. native'.last = native.last
  <2>1. UNCHANGED native \/ \E entry : native' = [native EXCEPT !.entry = entry]
    BY DEF CancelDeferred, Show
  <2>2. QED
    BY <2>1
<1>3. pair' = pair \/ pair' = CancelledPair
  BY DEF CancelDeferred, Show
<1>4. pair'.ids = pair.ids /\ ~pair'.pending /\ pair'.shown = pair.ids
  BY <1>1, <1>3, CancelCreating
<1>5. mailbox' # "enable"
  BY <1>1, CancelCreating DEF CancelDeferred, Show
<1>6. observer'.step = "none" /\ observer'.made = 0
  BY DEF CancelDeferred, Show, Leave, Outside
<1>7. QED
  BY <1>1, <1>2, <1>4, <1>5, <1>6, CreatingElsewhere

LEMMA NextCreating ==
  ASSUME Shape, Creating, Next PROVE Creating'
<1>1. CASE ProcessUpdate
  BY <1>1, TakeMailboxCreating, EraseCallbackCreating, CleanupDoneCreating,
     CreateRefusedCreating, CreateEntryCreating, StoreEntryCreating DEF ProcessUpdate
<1>2. CASE ManagerUpdate
  BY <1>1, <1>2, UpdateCreating, HoldCreating, KeepingCreating, NormalCreating, CreatedCreating,
     LateCreating DEF ManagerUpdate
<1>3. QED
  BY <1>2, RequestCreating, EnvironmentCreating DEF Next

(***************************************************************************)
(* The type invariant.                                                      *)
(***************************************************************************)

Typed == Shape /\ Creating /\ SlotsCounted

LEMMA TypedHolds == Spec => []Typed
<1>1. Init => Typed
  <2> SUFFICES ASSUME Init PROVE Typed
    OBVIOUS
  <2>1. Taken = {}
    BY DEF Init, Taken
  <2>2. Cardinality(Taken) = 0
    BY <2>1, FS_EmptySet
  <2>3. SlotsCounted
    BY <2>2 DEF SlotsCounted
  <2>4. QED
    BY <2>3, InitShape, InitCreating DEF Typed
<1>2. Typed /\ [Next]_vars => Typed'
  <2> SUFFICES ASSUME Typed, [Next]_vars PROVE Typed'
    OBVIOUS
  <2>1. CASE Next
    <3>1. StoreEntry => native.last \in Ids
      BY DEF Typed, Creating, StoreEntry, Inside
    <3>2. QED
      BY <2>1, <3>1, NextShape, NextCreating, SlotsStayCounted DEF Typed
  <2>2. CASE UNCHANGED vars
    <3>1. Shape'
      BY <2>2 DEF Typed, Shape, vars
    <3>2. Creating'
      BY <2>2 DEF Typed, Creating, vars
    <3>3. SlotsCounted'
      BY <2>2 DEF Typed, SlotsCounted, Taken, vars
    <3>4. QED
      BY <3>1, <3>2, <3>3 DEF Typed
  <2>3. QED
    BY <2>1, <2>2
<1>3. QED
  BY <1>1, <1>2, PTL DEF Spec

\* Whatever is requested and whatever fails: the pair owns at most an entry per view,
\* and the retirement's fixed slots (view_retirement.hpp, slots_) never overflow.
THEOREM TypeCorrect == Spec => []TypeOK
<1>1. Typed => TypeOK
  <2> SUFFICES ASSUME Typed PROVE TypeOK
    OBVIOUS
  <2>1. /\ mailbox \in Mail /\ pair \in Pair /\ session \in Session /\ slots \in SlotMap
        /\ ledger \in Ledger /\ native \in Native /\ world \in World /\ past \in Past
    BY DEF Typed, Shape
  <2>2. observer \in Observer /\ observer.made \in 0..Feeds
    BY DEF Typed, Shape, Creating
  <2>3. observer \in [at : Places, step : Steps, todo : SUBSET Ids, made : 0..Feeds,
                      valid : BOOLEAN, wanted : BOOLEAN, fresh : BOOLEAN,
                      deferred : BOOLEAN, drained : BOOLEAN,
                      found : {"none", "wait", "ready", "refused"}]
    BY <2>2
  <2>4. Cardinality(pair.ids) <= Feeds /\ Cardinality({id \in Ids : slots[id] # "none"}) <= Slots
    BY DEF Typed, Creating, SlotsCounted, Taken
  <2>5. QED
    BY <2>1, <2>3, <2>4 DEF TypeOK
<1>2. QED
  BY <1>1, TypedHolds, PTL

(***************************************************************************)
(* What a retirement slot says of its entry, and whose entries have none.   *)
(***************************************************************************)

Waited == \A id \in Ids :
    slots[id] = "earlier" /\ native.entry[id] = "closed" => id \in past.closed
SlotsClosed == \A id \in Ids :
    slots[id] # "none" => native.entry[id] \in {"closed", "erased", "gone"}
Unmade == \A id \in Ids : id > native.last => native.entry[id] = "none"

Booked == Waited /\ SlotsClosed /\ Unmade

\* A pair that is shown, or being made, is not retired.
Making == observer.step \in {"create", "store"}
Unretired ==
    /\ pair.active \/ Making => \A id \in pair.ids : slots[id] = "none"
    /\ pair.active => pair.ids # {} /\ ~Making /\ observer.step # "erase"
    /\ observer.step = "store" => slots[native.last] = "none"

Quiet == UNCHANGED slots /\ native'.entry = native.entry /\ native'.last = native.last
         /\ past'.closed = past.closed

LEMMA QuietPast ==
  ASSUME past \in Past
  PROVE  /\ Trouble => past'.closed = past.closed
         /\ Requested => past'.closed = past.closed
  BY DEF Trouble, Requested

\* The retirement forgets its slots.
Vacated == slots' = [id \in Ids |-> "none"] /\ native'.entry = native.entry
           /\ native'.last = native.last

LEMMA BooksChange ==
  ASSUME Shape, Next
  PROVE  \/ Quiet \/ Vacated
         \/ EraseCallback \/ CreateEntry \/ StoreEntry
         \/ Update \/ (KeptInspect /\ Close(pair.shown)) \/ Show
         \/ \E id \in Ids : SetupFinished(id)
         \/ Teardown
<1> past \in Past /\ native \in Native
  BY DEF Shape
<1>1. CASE Request
  BY <1>1, QuietPast, RequestChange DEF Quiet
<1>2. CASE TakeMailbox \/ CleanupDone
  BY <1>2 DEF Quiet, TakeMailbox, CleanupDone
<1>3. CASE CreateRefused
  BY <1>3, QuietPast DEF Quiet, CreateRefused
<1>4. CASE HoldDrain \/ HoldAcknowledge \/ Inspect \/ RequestCreation
  BY <1>4 DEF Quiet, HoldDrain, HoldAcknowledge, Inspect, RequestCreation
<1>5. CASE HoldConfirm \/ CancelDeferred
  <2>1. (\E gone : ClearIf(gone)) /\ UNCHANGED <<native, past>>
    BY <1>5 DEF HoldConfirm, CancelDeferred
  <2>2. QED
    BY <2>1 DEF ClearIf, Quiet, Vacated
<1>6. CASE KeptSettle \/ KeptInspect \/ KeptStore
  BY <1>6, KeepingChange, QuietPast DEF Quiet
<1>7. CASE AfterCreation \/ ShowFails
  BY <1>7, CreatedChange, QuietPast DEF Quiet, Vacated
<1>8. CASE FlightReady \/ ManagerFound
  BY <1>8 DEF Quiet, FlightReady, FlightBecomes, ManagerFound
<1>9. ASSUME NEW id \in Ids, ViewReleased(id) PROVE Quiet
  BY <1>9 DEF Quiet, ViewReleased
<1>10. CASE Load \/ TelemetryLost \/ ManagerLost
  BY <1>10, QuietPast DEF Quiet, Load, TelemetryLost, ManagerLost, FlightBecomes
<1>11. QED
  BY <1>1, <1>2, <1>3, <1>4, <1>5, <1>6, <1>7, <1>8, <1>9, <1>10
  DEF Next, ManagerUpdate, ProcessUpdate, Settles

LEMMA ClosedEntries ==
  ASSUME native \in Native, NEW S, Close(S)
  PROVE  /\ native'.last = native.last
         /\ \A id \in Ids : native'.entry[id] =
              IF id \in S /\ native.entry[id] = "open" THEN "closed" ELSE native.entry[id]
  BY DEF Close

LEMMA QuietBooked == ASSUME Booked, Quiet \/ Vacated PROVE Booked'
  BY DEF Booked, Waited, SlotsClosed, Unmade, Quiet, Vacated

LEMMA EraseCallbackBooked ==
  ASSUME Shape, Booked, EraseCallback PROVE Booked'
<1> native \in Native /\ past \in Past /\ slots \in SlotMap /\ observer.todo \subseteq Ids
  BY DEF Shape
<1>1. PICK id \in observer.todo :
        \/ forget(id) /\ UNCHANGED native
        \/ forget(id) /\ Close({id})
        \/ native.entry[id] = "closed" /\ Slotted(id, "this") /\ UNCHANGED native
        \/ UNCHANGED <<slots, native>>
        \/ /\ EraseEntry(id) /\ native.entry[id] = "closed"
           /\ forget(id) \/ UNCHANGED slots
  BY DEF EraseCallback
<1>2. past'.closed = past.closed
  BY QuietPast DEF EraseCallback
<1>3. CASE forget(id) /\ UNCHANGED native
  BY <1>2, <1>3 DEF Booked, Waited, SlotsClosed, Unmade, forget, Slotted
<1>4. CASE forget(id) /\ Close({id})
  BY <1>2, <1>4, ClosedEntries DEF Booked, Waited, SlotsClosed, Unmade, forget, Slotted
<1>5. CASE native.entry[id] = "closed" /\ Slotted(id, "this") /\ UNCHANGED native
  BY <1>2, <1>5 DEF Booked, Waited, SlotsClosed, Unmade, Slotted
<1>6. CASE UNCHANGED <<slots, native>>
  BY <1>2, <1>6 DEF Booked, Waited, SlotsClosed, Unmade
<1>7. CASE EraseEntry(id) /\ native.entry[id] = "closed" /\ (forget(id) \/ UNCHANGED slots)
  <2>1. native'.last = native.last /\ native'.entry = [native.entry EXCEPT ![id] = "erased"]
    BY <1>7 DEF EraseEntry
  <2>2. \A x \in Ids : slots'[x] # "none" => slots'[x] = slots[x]
    BY <1>7 DEF forget, Slotted
  <2>3. \A x \in Ids : native'.entry[x] = IF x = id THEN "erased" ELSE native.entry[x]
    BY <2>1
  <2>4. ~(id > native.last)
    BY <1>7 DEF Booked, Unmade
  <2>5. Waited'
    BY <1>2, <2>2, <2>3 DEF Booked, Waited
  <2>6. SlotsClosed'
    BY <2>2, <2>3 DEF Booked, SlotsClosed
  <2>7. Unmade'
    BY <2>1, <2>3, <2>4 DEF Booked, Unmade
  <2>8. QED
    BY <2>5, <2>6, <2>7 DEF Booked
<1>8. QED
  BY <1>1, <1>3, <1>4, <1>5, <1>6, <1>7

LEMMA CreateEntryBooked ==
  ASSUME Shape, Booked, CreateEntry PROVE Booked'
<1> native \in Native /\ past \in Past /\ slots \in SlotMap
  BY DEF Shape
<1>1. past'.closed = past.closed
  BY QuietPast DEF CreateEntry
<1>2. NextId \in Ids /\ NextId = native.last + 1 /\ native'.last = NextId /\ UNCHANGED slots
  BY CreatedFields DEF NextId
<1>3. native.entry[NextId] = "none" /\ slots[NextId] = "none"
  BY <1>2 DEF Booked, Unmade, SlotsClosed, Ids
<1>4. \A id \in Ids : id # NextId => native'.entry[id] = native.entry[id]
  BY CreatedFields
<1>5. \A id \in Ids : id > NextId => id > native.last /\ id # NextId
  BY <1>2 DEF Ids
<1> HIDE DEF NextId
<1>6. Waited' /\ SlotsClosed'
  BY <1>1, <1>2, <1>3, <1>4 DEF Booked, Waited, SlotsClosed
<1>7. Unmade'
  BY <1>2, <1>4, <1>5 DEF Booked, Unmade
<1>8. QED
  BY <1>6, <1>7 DEF Booked

LEMMA StoreEntryBooked ==
  ASSUME Shape, Booked, StoreEntry PROVE Booked'
<1> native \in Native /\ past \in Past /\ slots \in SlotMap
  BY DEF Shape
<1>1. past'.closed = past.closed
  BY DEF StoreEntry
<1>2. UNCHANGED slots /\ Close({native.last})
  BY StoredFields
<1>3. QED
  BY <1>1, <1>2, ClosedEntries DEF Booked, Waited, SlotsClosed, Unmade

LEMMA UpdateBooked ==
  ASSUME Shape, Booked, Update PROVE Booked'
<1> native \in Native /\ past \in Past /\ slots \in SlotMap
  BY DEF Shape
<1>1. past'.closed = {id \in Ids : native.entry[id] = "closed"} /\ Aged
  BY UpdateChange
<1>2. \A id \in Ids : slots'[id] # "none" => slots[id] # "none"
  BY <1>1 DEF Aged
<1>3. UNCHANGED native \/ Close(pair.shown)
  BY UpdateChange
<1>4. CASE UNCHANGED native
  BY <1>1, <1>2, <1>4 DEF Booked, Waited, SlotsClosed, Unmade
<1>5. CASE Close(pair.shown)
  BY <1>1, <1>2, <1>5, ClosedEntries DEF Booked, Waited, SlotsClosed, Unmade
<1>6. QED
  BY <1>3, <1>4, <1>5

\* Only open gates are closed, and the entry of an open gate has no slot.
LEMMA KeepingBooked ==
  ASSUME Shape, Booked, KeptInspect, Close(pair.shown) PROVE Booked'
<1> native \in Native /\ past \in Past
  BY DEF Shape
<1>1. UNCHANGED slots /\ past'.closed = past.closed
  BY KeepingChange, QuietPast
<1>2. QED
  BY <1>1, ClosedEntries DEF Booked, Waited, SlotsClosed, Unmade

LEMMA ShowBooked ==
  ASSUME Shape, Creating, Booked, Unretired, Show PROVE Booked'
<1> native \in Native /\ past \in Past /\ slots \in SlotMap /\ pair.shown \subseteq Ids
  BY DEF Shape
<1>1. observer.step = "none"
  BY DEF Show, At
<1> UNCHANGED slots \/ slots' = [id \in Ids |-> "none"]
  BY DEF Show, ClearIf
<1>2. CASE UNCHANGED <<native, past>>
  BY <1>2, QuietBooked DEF Quiet, Vacated
<1>3. CASE ~UNCHANGED <<native, past>>
  <2>1. PICK given \in SUBSET pair.shown :
          /\ native' = [native EXCEPT !.entry =
                [id \in Ids |-> CASE id \in given -> "open"
                                 [] id \in pair.shown \ given -> "closed"
                                 [] OTHER -> native.entry[id]]]
          /\ past' = [past EXCEPT !.closed = @ \ given]
          /\ pair.active /\ \A id \in pair.shown : native.entry[id] \in {"open", "closed"}
    BY <1>3, ShowGates
  <2>2. \A id \in pair.shown : slots[id] = "none" /\ native.entry[id] # "none"
    BY <1>1, <2>1 DEF Unretired, Creating
  <2>3. native'.last = native.last /\ past'.closed = past.closed \ given
    BY <2>1
  <2>4. \A id \in Ids \ pair.shown : native'.entry[id] = native.entry[id] /\ id \notin given
    BY <2>1
  <2>5. \A id \in Ids : slots'[id] # "none" => slots'[id] = slots[id]
    OBVIOUS
  <2>6. QED
    BY <2>2, <2>3, <2>4, <2>5 DEF Booked, Waited, SlotsClosed, Unmade
<1>4. QED
  BY <1>2, <1>3

LEMMA EngineBooked ==
  ASSUME Shape, Booked, Teardown \/ \E id \in Ids : SetupFinished(id)
  PROVE  Booked'
<1> native \in Native /\ past \in Past /\ slots \in SlotMap
  BY DEF Shape
<1>1. CASE Teardown
  <2>1. UNCHANGED slots /\ past'.closed = past.closed /\ native'.last = native.last
    BY <1>1 DEF Teardown
  <2>2. \A id \in Ids : native'.entry[id] =
          IF native.entry[id] \in Live THEN "gone" ELSE native.entry[id]
    BY <1>1 DEF Teardown
  <2>3. QED
    BY <2>1, <2>2 DEF Booked, Waited, SlotsClosed, Unmade, Live
<1>2. ASSUME NEW id \in Ids, SetupFinished(id) PROVE Booked'
  <2>1. UNCHANGED <<slots, past>> /\ native.entry[id] = "pending"
        /\ native' = [native EXCEPT !.entry = [native.entry EXCEPT ![id] = "open"]]
    BY <1>2 DEF SetupFinished
  <2>2. native'.last = native.last
        /\ \A x \in Ids : native'.entry[x] = IF x = id THEN "open" ELSE native.entry[x]
    BY <2>1
  <2>3. QED
    BY <2>1, <2>2 DEF Booked, Waited, SlotsClosed, Unmade
<1>3. QED
  BY <1>1, <1>2

LEMMA NextBooked ==
  ASSUME Shape, Creating, Booked, Unretired, Next PROVE Booked'
  BY BooksChange, QuietBooked, EraseCallbackBooked, CreateEntryBooked, StoreEntryBooked,
     UpdateBooked, KeepingBooked, ShowBooked, EngineBooked

(***************************************************************************)
(* The pair's own entries are not retired while they are made and shown.    *)
(***************************************************************************)

\* The step neither owns nor activates, and no creation is under way after it.
LEMMA UnretiredElsewhere ==
  ASSUME Unretired, pair'.ids = pair.ids, pair'.active => pair.active,
         \A id \in pair.ids : slots[id] = "none" => slots'[id] = "none",
         observer'.step \in {"none", "take"} \/ (observer'.step = "erase" /\ ~pair'.active)
  PROVE  Unretired'
  BY DEF Unretired, Making

LEMMA UnretiredUntouched ==
  ASSUME Unretired, pair'.ids = pair.ids, pair'.active => pair.active, UNCHANGED slots,
         observer'.step = observer.step, native'.last = native.last
  PROVE  Unretired'
  BY DEF Unretired, Making

LEMMA RequestUnretired ==
  ASSUME Shape, Creating, Unretired, Request PROVE Unretired'
<1> observer \in Observer /\ pair \in Pair
  BY DEF Shape
<1>1. UNCHANGED <<native, slots>> /\ pair' \in {CancelledPair, pair}
  BY RequestChange DEF Turned
<1>2. observer'.step = observer.step
  BY RequestChange, SupersededShape
<1>3. pair'.ids = pair.ids /\ (pair'.active => pair.active)
  BY <1>1, CancelCreating
<1>4. QED
  BY <1>1, <1>2, <1>3, UnretiredUntouched

LEMMA EnvironmentUnretired ==
  ASSUME Shape, Creating, Unretired,
         Settles \/ Teardown \/ Load \/ TelemetryLost \/ ManagerLost
  PROVE  Unretired'
<1> native \in Native
  BY DEF Shape
<1>1. UNCHANGED <<pair, observer, slots>>
  BY DEF Settles, Teardown, Load, TelemetryLost, ManagerLost, FlightReady, ManagerFound,
     SetupFinished, ViewReleased, FlightBecomes
<1>2. native'.last = native.last
  <2>1. CASE FlightReady \/ ManagerFound \/ Load \/ TelemetryLost \/ ManagerLost
    BY <2>1 DEF FlightReady, ManagerFound, Load, TelemetryLost, ManagerLost, FlightBecomes
  <2>2. CASE Teardown
    BY <2>2 DEF Teardown
  <2>3. ASSUME NEW id \in Ids, SetupFinished(id) \/ ViewReleased(id)
        PROVE  native'.last = native.last
    BY <2>3 DEF SetupFinished, ViewReleased
  <2>4. QED
    BY <2>1, <2>2, <2>3 DEF Settles
<1>3. QED
  BY <1>1, <1>2, UnretiredUntouched

LEMMA TakeMailboxUnretired ==
  ASSUME Shape, Creating, Unretired, TakeMailbox PROVE Unretired'
<1> DEFINE p == Commanded
<1> observer \in Observer /\ pair \in Pair /\ mailbox \in Mail
  BY DEF Shape
<1>1. p \in Pair /\ p.ids = pair.ids /\ p.active = pair.active
  BY CommandedShape
<1>2. UNCHANGED slots
  BY DEF TakeMailbox
<1>3. \/ p.ids = {} /\ StartCreation(p)
      \/ StartCleanup(p)
      \/ Publish(p)
  BY DEF TakeMailbox
<1> HIDE DEF p
<1>4. CASE p.ids = {} /\ StartCreation(p)
  <2>1. pair' = [p EXCEPT !.pending = FALSE]
        /\ observer' = [observer EXCEPT !.step = "create", !.todo = {}]
    BY <1>4 DEF StartCreation
  <2>2. pair'.ids = {} /\ pair'.active = pair.active /\ observer'.step = "create"
    BY <1>1, <1>4, <2>1
  <2>3. ~pair.active
    BY <1>1, <1>4 DEF Unretired
  <2>4. QED
    BY <2>2, <2>3 DEF Unretired, Making
<1>5. CASE StartCleanup(p)
  <2>1. pair' = [p EXCEPT !.active = FALSE]
        /\ observer' = [observer EXCEPT !.step = "erase", !.todo = p.ids]
    BY <1>5 DEF StartCleanup
  <2>2. ~pair'.active /\ pair'.ids = pair.ids /\ observer'.step = "erase"
    BY <1>1, <2>1
  <2>3. QED
    BY <1>2, <2>2, UnretiredElsewhere
<1>6. CASE Publish(p)
  <2>1. pair' = [p EXCEPT !.shown = p.ids, !.shownPending = p.pending]
        /\ observer' = [observer EXCEPT !.step = "none", !.todo = {}]
    BY <1>6 DEF Publish
  <2>2. pair'.active = pair.active /\ pair'.ids = pair.ids /\ observer'.step = "none"
    BY <1>1, <2>1
  <2>3. QED
    BY <1>2, <2>2, UnretiredElsewhere
<1>7. QED
  BY <1>3, <1>4, <1>5, <1>6

LEMMA EraseCallbackUnretired ==
  ASSUME Shape, Unretired, EraseCallback PROVE Unretired'
<1> observer \in Observer /\ pair \in Pair
  BY DEF Shape
<1>1. PICK id \in observer.todo : Tried(id, TRUE) \/ Tried(id, FALSE)
  BY DEF EraseCallback
<1>2. observer' = [observer EXCEPT !.todo = @ \ {id}] /\ observer.step = "erase"
  BY <1>1 DEF Tried, EraseCallback, Inside
<1>3. observer'.step = "erase" /\ pair'.active = pair.active
  BY <1>1, <1>2 DEF Tried
<1>4. ~pair.active
  BY <1>2 DEF Unretired
<1>5. QED
  BY <1>3, <1>4 DEF Unretired, Making

LEMMA CleanupDoneUnretired ==
  ASSUME Shape, Creating, Unretired, CleanupDone PROVE Unretired'
<1> observer \in Observer /\ pair \in Pair
  BY DEF Shape
<1>1. Publish(pair) /\ UNCHANGED slots
  BY DEF CleanupDone, Creating
<1>2. pair' = [pair EXCEPT !.shown = pair.ids, !.shownPending = pair.pending]
      /\ observer' = [observer EXCEPT !.step = "none", !.todo = {}]
  BY <1>1 DEF Publish
<1>3. pair'.ids = pair.ids /\ pair'.active = pair.active /\ observer'.step = "none"
  BY <1>2
<1>4. QED
  BY <1>1, <1>3, UnretiredElsewhere

LEMMA CreationUnretired ==
  ASSUME Shape, Booked, Unretired, CreateRefused \/ CreateEntry \/ StoreEntry PROVE Unretired'
<1> native \in Native
  BY DEF Shape
<1>1. CASE CreateRefused
  <2>1. UNCHANGED slots /\ pair'.ids = pair.ids
        /\ \/ observer'.step = "none" /\ pair'.active = pair.active
           \/ observer'.step = "erase" /\ ~pair'.active
    BY <1>1, RefusedFields
  <2>2. QED
    BY <2>1, UnretiredElsewhere
<1>2. CASE CreateEntry
  <2>1. NextId \in Ids /\ NextId = native.last + 1 /\ native'.last = NextId
        /\ UNCHANGED <<slots, pair>> /\ observer.step = "create" /\ observer'.step = "store"
    BY <1>2, CreatedFields DEF NextId
  <2>2. slots[NextId] = "none"
    BY <2>1 DEF Booked, Unmade, SlotsClosed, Ids
  <2>3. QED
    BY <2>1, <2>2 DEF Unretired, Making
<1>3. CASE StoreEntry
  <2>1. native'.last = native.last
    BY <1>3, StoredFields, CloseLast
  <2>2. UNCHANGED slots /\ observer.step = "store" /\ pair'.ids = pair.ids \cup {native.last}
        /\ \/ observer'.step = "create" /\ pair'.active = pair.active
           \/ observer'.step = "none"
    BY <1>3, StoredFields
  <2>3. \A id \in pair'.ids : slots'[id] = "none"
    BY <2>2 DEF Unretired, Making
  <2>4. QED
    BY <2>2, <2>3 DEF Unretired, Making
<1>4. QED
  BY <1>1, <1>2, <1>3

LEMMA ObserverUnretired ==
  ASSUME Shape, Creating, Unretired,
         \/ Update \/ HoldDrain \/ HoldConfirm \/ HoldAcknowledge
         \/ KeptSettle \/ KeptInspect \/ KeptStore
         \/ Inspect \/ RequestCreation \/ AfterCreation \/ CancelDeferred \/ Show \/ ShowFails
  PROVE  Unretired'
<1> observer \in Observer /\ pair \in Pair
  BY DEF Shape
<1>1. pair' \in {pair, CancelledPair}
  <2>1. CASE Update
    BY <2>1, UpdateChange DEF Turned
  <2>2. CASE KeptSettle \/ KeptInspect \/ KeptStore
    BY <2>2, KeepingChange
  <2>3. CASE AfterCreation \/ ShowFails
    BY <2>3, CreatedChange
  <2>4. CASE HoldDrain \/ HoldConfirm \/ HoldAcknowledge \/ Inspect \/ RequestCreation
             \/ CancelDeferred \/ Show
    BY <2>4 DEF HoldDrain, HoldConfirm, HoldAcknowledge, Inspect, RequestCreation,
       CancelDeferred, Show
  <2>5. QED
    BY <2>1, <2>2, <2>3, <2>4
<1>2. pair'.ids = pair.ids /\ (pair'.active => pair.active)
  BY <1>1, CancelCreating
<1>3. \A id \in pair.ids : slots[id] = "none" => slots'[id] = "none"
  <2>1. UNCHANGED slots \/ Aged \/ slots' = [id \in Ids |-> "none"]
    <3>1. ~EraseCallback
      BY DEF EraseCallback, Inside, Update, HoldDrain, HoldConfirm, HoldAcknowledge, KeptSettle,
         KeptInspect, KeptStore, Inspect, RequestCreation, AfterCreation, CancelDeferred, Show,
         ShowFails, At
    <3>2. QED
      BY <3>1, SlotChange DEF Next, ManagerUpdate
  <2>2. QED
    BY <2>1 DEF Aged
<1>4. observer'.step \in {"none", "take"}
  <2>1. Outside \in Observer /\ Outside.step = "none"
    BY DEF Outside
  <2>2. CASE Update
    BY <2>2, UpdateChange
  <2>3. CASE KeptSettle \/ KeptInspect \/ KeptStore
    BY <2>1, <2>3, KeepingChange
  <2>4. CASE AfterCreation \/ ShowFails
    BY <2>4, CreatedChange, CreatedObserver
  <2>5. CASE HoldDrain \/ HoldConfirm \/ HoldAcknowledge \/ Inspect \/ RequestCreation
             \/ CancelDeferred \/ Show
    <3>1. observer.step = "none"
      BY <2>5 DEF HoldDrain, HoldConfirm, HoldAcknowledge, Inspect, RequestCreation,
         CancelDeferred, Show, At
    <3>2. \/ \E at : Process(at)
          \/ \E at : observer' = [observer EXCEPT !.at = at]
          \/ \E b : observer' = [observer EXCEPT !.at = "confirmed", !.drained = b]
          \/ observer' = Outside
          \/ observer' = [observer EXCEPT !.at = "created", !.step = "take"]
      BY <2>5 DEF HoldDrain, HoldConfirm, HoldAcknowledge, Inspect, RequestCreation,
         CancelDeferred, Show, Leave
    <3>3. QED
      BY <2>1, <3>1, <3>2 DEF Process
  <2>6. QED
    BY <2>2, <2>3, <2>4, <2>5
<1>5. QED
  BY <1>2, <1>3, <1>4, UnretiredElsewhere

LEMMA NextUnretired ==
  ASSUME Shape, Creating, Booked, Unretired, Next PROVE Unretired'
  BY RequestUnretired, EnvironmentUnretired, TakeMailboxUnretired, EraseCallbackUnretired,
     CleanupDoneUnretired, CreationUnretired, ObserverUnretired
  DEF Next, ManagerUpdate, ProcessUpdate

(***************************************************************************)
(* The bridge erases only what an earlier update found closed.              *)
(***************************************************************************)

Kept == Typed /\ Booked /\ Unretired

LEMMA KeptHolds == Spec => []Kept
<1>1. Init => Booked /\ Unretired
  <2> SUFFICES ASSUME Init PROVE Booked /\ Unretired
    OBVIOUS
  <2>1. slots = [id \in Ids |-> "none"] /\ native.entry = [id \in Ids |-> "none"]
        /\ ~pair.active /\ observer.step = "none"
    BY DEF Init, Outside
  <2>2. QED
    BY <2>1 DEF Booked, Waited, SlotsClosed, Unmade, Unretired, Making
<1>2. Typed /\ Booked /\ Unretired /\ [Next]_vars => Booked' /\ Unretired'
  <2> SUFFICES ASSUME Typed, Booked, Unretired, [Next]_vars PROVE Booked' /\ Unretired'
    OBVIOUS
  <2>1. CASE Next
    BY <2>1, NextBooked, NextUnretired DEF Typed
  <2>2. CASE UNCHANGED vars
    BY <2>2 DEF vars, Booked, Waited, SlotsClosed, Unmade, Unretired, Making
  <2>3. QED
    BY <2>1, <2>2
<1>3. QED
  BY <1>1, <1>2, TypedHolds, PTL DEF Spec, Kept

\* Only the erase callback erases.
LEMMA OthersEraseNothing ==
  ASSUME Shape, Next, ~EraseCallback, NEW id \in Ids, native'.entry[id] = "erased"
  PROVE  native.entry[id] = "erased"
<1> native \in Native
  BY DEF Shape
<1>1. CASE Quiet \/ Vacated
  BY <1>1 DEF Quiet, Vacated
<1>2. CASE CreateEntry
  <2>1. PICK state \in {"open", "pending"} :
          NextId \in Ids /\ native'.entry = [native.entry EXCEPT ![NextId] = state]
    BY <1>2, CreatedFields
  <2>2. QED
    BY <2>1
<1>3. CASE StoreEntry
  BY <1>3, StoredFields, ClosedEntries
<1>4. CASE Update \/ (KeptInspect /\ Close(pair.shown))
  <2>1. UNCHANGED native \/ Close(pair.shown)
    BY <1>4, UpdateChange
  <2>2. QED
    BY <2>1, ClosedEntries
<1>5. CASE Show
  <2>1. native' = native \/ \E given : native' = [native EXCEPT !.entry =
            [x \in Ids |-> CASE x \in given -> "open"
                            [] x \in pair.shown \ given -> "closed"
                            [] OTHER -> native.entry[x]]]
    BY <1>5, ShowGates
  <2>2. native'.entry[id] \in {"open", "closed", native.entry[id]}
    BY <2>1
  <2>3. QED
    BY <2>2
<1>6. ASSUME NEW x \in Ids, SetupFinished(x) PROVE native.entry[id] = "erased"
  BY <1>6 DEF SetupFinished
<1>7. CASE Teardown
  BY <1>7 DEF Teardown
<1>8. QED
  BY <1>1, <1>2, <1>3, <1>4, <1>5, <1>6, <1>7, BooksChange

\* The native removal is called for a view only when the update that calls it began
\* with the view's gate closed and found it closed still (view_retirement.hpp, observe;
\* probe.cpp, erase).
THEOREM ErasedOnlyAfterClosed == Spec => ErasedClosed
<1>1. Kept /\ [Next]_vars =>
        [\A id \in Ids :
            native.entry[id] # "erased" /\ native'.entry[id] = "erased"
                => native.entry[id] = "closed" /\ id \in past.closed]_vars
  <2> SUFFICES ASSUME Kept, Next, NEW id \in Ids, native.entry[id] # "erased",
                      native'.entry[id] = "erased"
               PROVE  native.entry[id] = "closed" /\ id \in past.closed
    OBVIOUS
  <2> Shape /\ Booked /\ native \in Native
    BY DEF Kept, Typed, Shape
  <2>1. EraseCallback
    BY OthersEraseNothing
  <2>2. PICK x \in observer.todo :
          \/ UNCHANGED native
          \/ Close({x})
          \/ EraseEntry(x) /\ native.entry[x] = "closed" /\ Ripe(x)
    BY <2>1 DEF EraseCallback
  <2>3. x \in Ids
    BY DEF Shape
  <2>4. ~UNCHANGED native /\ ~Close({x})
    BY ClosedEntries
  <2>5. native'.entry = [native.entry EXCEPT ![x] = "erased"]
    BY <2>2, <2>4 DEF EraseEntry
  <2>6. id = x
    BY <2>5
  <2>7. native.entry[id] = "closed" /\ slots[id] = "earlier"
    BY <2>2, <2>4, <2>6 DEF Ripe
  <2>8. QED
    BY <2>7 DEF Booked, Waited
<1>2. QED
  BY <1>1, KeptHolds, PTL DEF Spec, ErasedClosed

(***************************************************************************)
(* A reset that is over leaves nothing behind.                              *)
(***************************************************************************)

\* A live entry is owned, or was just made and is about to be.
Known == \A id \in Ids : native.entry[id] \in Live =>
            id \in pair.ids \/ (observer.step = "store" /\ id = native.last)

\* A view still to be released is in the books, unless the bridge lost it.
Accounted == \A id \in native.releasing :
    id \in ledger.retired \/ id \in past.dropped \/ \E f \in 1..Feeds : ledger.views[f] = id

\* What HoldConfirm found stands until the observer acts on it.
Confirmed == observer.drained =>
    /\ observer.at = "confirmed" /\ observer.step = "none" /\ pair.ids = {}
    /\ \A f \in 1..Feeds : ledger.views[f] = 0

\* Before the first start the observer has not run.
Unused == ~session.enabled =>
    /\ observer.at = "between" /\ observer.step = "none" /\ pair.ids = {}
    /\ native.releasing = {}

\* A session reported retired stays so while the reset holds.
Emptied == session.holding /\ session.retired =>
    /\ observer.at \in {"between", "hold", "drained", "confirmed"} /\ observer.step = "none"
    /\ pair.ids = {} /\ native.releasing \subseteq past.dropped

\* Entries are made by the creation callbacks and removed by the erase callback.
Entering == EraseCallback \/ CreateEntry \/ StoreEntry

\* Where the observer is after a call, or after it has left.
LEMMA OutsideFields == Outside \in Observer /\ Outside.step = "none" /\ ~Outside.drained
  BY DEF Outside

LEMMA ProcessFields ==
  ASSUME observer \in Observer, NEW at \in Places, Process(at)
  PROVE  observer'.step = "take" /\ observer'.at = at /\ observer'.drained = observer.drained
  BY DEF Process

LEMMA InspectFields ==
  ASSUME Inspect
  PROVE  /\ At("normal") /\ observer.at = "normal" /\ observer.step = "none"
         /\ Process("processed") \/ Leave
         /\ UNCHANGED <<pair, slots, ledger, native, world, past>>
  BY Zenon DEF Inspect, At

\* No other step changes what is owned.
LEMMA OwnedElsewhere ==
  ASSUME Shape, Creating, Next, ~Entering
  PROVE  pair'.ids = pair.ids /\ (observer'.step = "store" <=> observer.step = "store")
<1> observer \in Observer /\ pair \in Pair /\ mailbox \in Mail
  BY DEF Shape
<1> CancelledPair.ids = pair.ids
  BY CancelShape
<1>1. CASE Request
  <2>1. pair' = pair \/ pair' = CancelledPair
    BY <1>1, RequestChange DEF Turned
  <2>2. observer'.step = observer.step
    BY <1>1, RequestChange, SupersededShape
  <2>3. QED
    BY <2>1, <2>2
<1>2. CASE TakeMailbox
  <2> DEFINE p == Commanded
  <2>1. p \in Pair /\ p.ids = pair.ids
    BY CommandedShape
  <2>2. StartCreation(p) \/ StartCleanup(p) \/ Publish(p)
    BY <1>2 DEF TakeMailbox
  <2> HIDE DEF p
  <2>3. pair'.ids = p.ids /\ observer'.step \in {"create", "erase", "none"}
    BY <2>1, <2>2 DEF StartCreation, StartCleanup, Publish
  <2>4. observer.step = "take"
    BY <1>2 DEF TakeMailbox, Inside
  <2>5. QED
    BY <2>1, <2>3, <2>4
<1>3. CASE CleanupDone
  <2>1. StartCreation(pair) \/ Publish(pair)
    BY <1>3 DEF CleanupDone
  <2>2. pair'.ids = pair.ids /\ observer'.step \in {"create", "none"} /\ observer.step = "erase"
    BY <1>3, <2>1 DEF StartCreation, Publish, CleanupDone, Inside
  <2>3. QED
    BY <2>2
<1>4. CASE CreateRefused
  <2>1. pair'.ids = pair.ids /\ observer.step = "create" /\ observer'.step \in {"none", "erase"}
    BY <1>4, RefusedFields
  <2>2. QED
    BY <2>1
<1>5. CASE Update
  BY <1>5, UpdateChange DEF Turned
<1>6. CASE HoldDrain \/ HoldConfirm \/ HoldAcknowledge \/ CancelDeferred
  <2>1. pair' = pair \/ pair' = CancelledPair
    BY <1>6 DEF HoldDrain, HoldConfirm, HoldAcknowledge, CancelDeferred
  <2>2. observer.step = "none"
    BY <1>6 DEF HoldDrain, HoldConfirm, HoldAcknowledge, CancelDeferred, At
  <2>3. observer'.step \in {"none", "take"}
    <3>1. CASE HoldDrain
      <4>1. Process("drained") \/ observer' = [observer EXCEPT !.at = "drained"]
        BY <3>1 DEF HoldDrain
      <4>2. QED
        BY <2>2, <4>1, ProcessFields
    <3>2. CASE HoldConfirm
      BY <2>2, <3>2 DEF HoldConfirm
    <3>3. CASE HoldAcknowledge \/ CancelDeferred
      BY <3>3, OutsideFields DEF HoldAcknowledge, CancelDeferred, Leave
    <3>4. QED
      BY <1>6, <3>1, <3>2, <3>3
  <2>4. QED
    BY <2>1, <2>2, <2>3
<1>7. CASE Inspect \/ RequestCreation \/ Show
  <2>1. pair' = pair /\ observer.step = "none"
    <3>1. CASE Inspect
      BY <3>1, InspectFields
    <3>2. CASE RequestCreation
      BY <3>2 DEF RequestCreation, At
    <3>3. CASE Show
      BY <3>3 DEF Show, At
    <3>4. QED
      BY <1>7, <3>1, <3>2, <3>3
  <2>2. observer'.step \in {"none", "take"}
    <3>1. CASE Inspect \/ Show
      <4>1. Process("processed") \/ Leave
        BY <3>1, InspectFields DEF Show
      <4>2. QED
        BY <4>1, ProcessFields, OutsideFields DEF Leave
    <3>2. CASE RequestCreation
      <4>1. \/ observer' = [observer EXCEPT !.at = "created", !.step = "take"]
            \/ observer' = [observer EXCEPT !.at = "shown"]
        BY <3>2 DEF RequestCreation
      <4>2. QED
        BY <2>1, <4>1
    <3>3. QED
      BY <1>7, <3>1, <3>2
  <2>3. QED
    BY <2>1, <2>2
<1>8. CASE KeptSettle \/ KeptInspect \/ KeptStore
  BY <1>8, KeepingChange, OutsideFields
<1>9. CASE AfterCreation \/ ShowFails
  BY <1>9, CreatedChange, CreatedObserver
<1>10. CASE Settles \/ Teardown \/ Load \/ TelemetryLost \/ ManagerLost
  <2>1. UNCHANGED <<pair, observer>>
    BY <1>10 DEF Settles, Teardown, Load, TelemetryLost, ManagerLost, FlightReady, ManagerFound,
       SetupFinished, ViewReleased, FlightBecomes
  <2>2. QED
    BY <2>1
<1>11. QED
  BY <1>1, <1>2, <1>3, <1>4, <1>5, <1>6, <1>7, <1>8, <1>9, <1>10
  DEF Next, ManagerUpdate, ProcessUpdate, Entering

\* No other step brings an entry to life.
LEMMA LiveElsewhere ==
  ASSUME Shape, Creating, Next, ~Entering, NEW id \in Ids, native'.entry[id] \in Live
  PROVE  native.entry[id] \in Live /\ native'.last = native.last
<1> native \in Native /\ past \in Past /\ pair.shown \subseteq Ids
  BY DEF Shape
<1>1. CASE Quiet \/ Vacated
  BY <1>1 DEF Quiet, Vacated
<1>2. CASE Update \/ (KeptInspect /\ Close(pair.shown))
  <2>1. UNCHANGED native \/ Close(pair.shown)
    BY <1>2, UpdateChange
  <2>2. QED
    BY <2>1, ClosedEntries DEF Live
<1>3. CASE Show
  <2>1. CASE UNCHANGED <<native, past>>
    BY <2>1
  <2>2. CASE ~UNCHANGED <<native, past>>
    <3>1. PICK given \in SUBSET pair.shown :
            /\ native' = [native EXCEPT !.entry =
                  [x \in Ids |-> CASE x \in given -> "open"
                                  [] x \in pair.shown \ given -> "closed"
                                  [] OTHER -> native.entry[x]]]
            /\ \A x \in pair.shown : native.entry[x] \in {"open", "closed"}
      BY <1>3, <2>2, ShowGates
    <3>2. native'.last = native.last
      BY <3>1
    <3>3. id \notin pair.shown => native'.entry[id] = native.entry[id]
      BY <3>1
    <3>4. QED
      BY <3>1, <3>2, <3>3 DEF Live
  <2>3. QED
    BY <2>1, <2>2
<1>4. ASSUME NEW x \in Ids, SetupFinished(x)
      PROVE  native.entry[id] \in Live /\ native'.last = native.last
  <2>1. native.entry[x] = "pending"
        /\ native' = [native EXCEPT !.entry = [native.entry EXCEPT ![x] = "open"]]
    BY <1>4 DEF SetupFinished
  <2>2. native'.last = native.last /\ (id # x => native'.entry[id] = native.entry[id])
    BY <2>1
  <2>3. QED
    BY <2>1, <2>2 DEF Live
<1>5. CASE Teardown
  <2>1. native'.last = native.last /\ native'.entry[id] =
          IF native.entry[id] \in Live THEN "gone" ELSE native.entry[id]
    BY <1>5 DEF Teardown
  <2>2. QED
    BY <2>1 DEF Live
<1>6. QED
  BY <1>1, <1>2, <1>3, <1>4, <1>5, BooksChange DEF Entering

LEMMA EraseCallbackKnown == ASSUME Shape, Known, EraseCallback PROVE Known'
<1> native \in Native /\ observer \in Observer /\ pair \in Pair
  BY DEF Shape
<1>1. PICK id \in observer.todo :
        \/ Tried(id, FALSE) /\ (UNCHANGED native \/ Close({id}) \/ EraseEntry(id))
        \/ Tried(id, TRUE) /\ UNCHANGED native /\ native.entry[id] \notin Live
        \/ Tried(id, TRUE) /\ EraseEntry(id)
  BY DEF EraseCallback
<1>2. id \in Ids /\ observer.step = "erase"
  BY DEF EraseCallback, Inside
<1>3. \A x \in Ids : native'.entry[x] \in Live => native.entry[x] \in Live
  <2>1. CASE EraseEntry(id)
    <3>1. native'.entry = [native.entry EXCEPT ![id] = "erased"]
      BY <2>1 DEF EraseEntry
    <3>2. QED
      BY <1>2, <3>1 DEF Live
  <2>2. QED
    BY <1>1, <2>1, ClosedEntries DEF Live
<1>4. native'.entry[id] \in Live => Tried(id, FALSE)
  <2>1. ASSUME EraseEntry(id) PROVE native'.entry[id] \notin Live
    <3>1. native'.entry = [native.entry EXCEPT ![id] = "erased"]
      BY <2>1 DEF EraseEntry
    <3>2. QED
      BY <1>2, <3>1 DEF Live
  <2>2. QED
    BY <1>1, <2>1
<1>5. \A x \in pair.ids : x # id => x \in pair'.ids
  BY <1>1 DEF Tried
<1>6. Tried(id, FALSE) => pair'.ids = pair.ids
  BY DEF Tried
<1>7. QED
  BY <1>2, <1>3, <1>4, <1>5, <1>6 DEF Known

LEMMA NextKnown == ASSUME Shape, Creating, Known, Next PROVE Known'
<1> native \in Native
  BY DEF Shape
<1>1. CASE CreateEntry
  <2>1. /\ pair' = pair /\ observer.step = "create" /\ observer'.step = "store"
        /\ native'.last = NextId /\ NextId \in Ids
        /\ \A id \in Ids : id # NextId => native'.entry[id] = native.entry[id]
    BY <1>1, CreatedFields
  <2>2. QED
    BY <2>1 DEF Known
<1>2. CASE StoreEntry
  <2>1. Close({native.last}) /\ pair'.ids = pair.ids \cup {native.last}
    BY <1>2, StoredFields
  <2>2. \A id \in Ids : native'.entry[id] \in Live => native.entry[id] \in Live
    BY <2>1, ClosedEntries DEF Live
  <2>3. QED
    BY <2>1, <2>2 DEF Known
<1>3. CASE ~Entering
  BY <1>3, OwnedElsewhere, LiveElsewhere DEF Known
<1>4. QED
  BY <1>1, <1>2, <1>3, EraseCallbackKnown DEF Entering

(* The books. *)

\* Nothing the books are about moves.
Unbooked == /\ native'.releasing = native.releasing /\ ledger' = ledger
            /\ past'.dropped = past.dropped

LEMMA PastFields ==
  ASSUME past \in Past
  PROVE  /\ Trouble => past'.dropped = past.dropped
         /\ Requested => past'.dropped = past.dropped
  BY DEF Trouble, Requested

LEMMA CloseReleases ==
  ASSUME native \in Native, NEW S, Close(S) PROVE native'.releasing = native.releasing
  BY DEF Close

LEMMA ObservedFields ==
  ASSUME ledger \in Ledger, native \in Native, ledger' \in {ledger, Observed}
  PROVE  /\ ledger'.views = ledger.views
         /\ \A id \in native.releasing : id \in ledger.retired => id \in ledger'.retired
  BY DEF Observed, StillRetired

\* clear_retired_pair moves the views the bridge owned to the retired ones.
Cleared == /\ native'.releasing = native.releasing /\ ledger' = Transferred
           /\ past'.dropped = past.dropped

LEMMA ShowReleases ==
  ASSUME Shape, Show
  PROVE  native'.releasing = native.releasing /\ past'.dropped = past.dropped
<1> past \in Past /\ native \in Native
  BY DEF Shape
<1>1. CASE UNCHANGED <<native, past>>
  BY <1>1
<1>2. CASE ~UNCHANGED <<native, past>>
  <2>1. PICK given \in SUBSET pair.shown :
          /\ native' = [native EXCEPT !.entry =
                [id \in Ids |-> CASE id \in given -> "open"
                                [] id \in pair.shown \ given -> "closed"
                                [] OTHER -> native.entry[id]]]
          /\ past' = [past EXCEPT !.closed = @ \ given]
    BY <1>2, ShowGates DEF Shape
  <2>2. QED
    BY <2>1
<1>3. QED
  BY <1>1, <1>2

LEMMA LedgerChange ==
  ASSUME Shape, Next
  PROVE  \/ Unbooked \/ Cleared
         \/ EraseCallback \/ CreateRefused \/ CreateEntry \/ StoreEntry
         \/ HoldAcknowledge \/ RequestCreation
         \/ \E id \in Ids : ViewReleased(id)
         \/ Teardown
<1> past \in Past /\ native \in Native
  BY DEF Shape
<1>1. CASE Request
  BY <1>1, RequestChange, PastFields DEF Unbooked
<1>2. CASE TakeMailbox \/ CleanupDone
  BY <1>2 DEF Unbooked, TakeMailbox, CleanupDone
<1>3. CASE Update
  BY <1>3, UpdateChange, CloseReleases DEF Unbooked
<1>4. CASE HoldDrain
  BY <1>4 DEF Unbooked, HoldDrain
<1>5. CASE HoldConfirm \/ CancelDeferred
  <2>1. (\E gone : ClearIf(gone)) /\ UNCHANGED <<native, past>>
    BY <1>5 DEF HoldConfirm, CancelDeferred
  <2>2. QED
    BY <2>1 DEF ClearIf, Unbooked, Cleared
<1>6. CASE KeptSettle \/ KeptInspect \/ KeptStore
  BY <1>6, KeepingChange, PastFields, CloseReleases DEF Unbooked
<1>7. CASE AfterCreation \/ ShowFails
  BY <1>7, CreatedChange, PastFields DEF Unbooked, Cleared
<1>8. CASE Inspect
  BY <1>8, InspectFields DEF Unbooked
<1>9. CASE Show
  <2>1. ClearIf(pair.shown = {})
    BY <1>9 DEF Show
  <2>2. QED
    BY <1>9, <2>1, ShowReleases DEF ClearIf, Unbooked, Cleared
<1>10. CASE FlightReady \/ ManagerFound
  BY <1>10 DEF Unbooked, FlightReady, FlightBecomes, ManagerFound
<1>11. ASSUME NEW id \in Ids, SetupFinished(id) PROVE Unbooked
  BY <1>11 DEF Unbooked, SetupFinished
<1>12. CASE Load \/ TelemetryLost \/ ManagerLost
  BY <1>12, PastFields DEF Unbooked, Load, TelemetryLost, ManagerLost, FlightBecomes
<1>13. QED
  BY <1>1, <1>2, <1>3, <1>4, <1>5, <1>6, <1>7, <1>8, <1>9, <1>10, <1>11, <1>12
  DEF Next, ManagerUpdate, ProcessUpdate, Settles

\* An erased entry's view is among the retired ones.
LEMMA EraseCallbackAccounted == ASSUME Shape, Accounted, EraseCallback PROVE Accounted'
<1> native \in Native /\ ledger \in Ledger /\ past \in Past
  BY DEF Shape
<1>1. PICK id \in observer.todo :
        \/ ledger' = ledger /\ (UNCHANGED native \/ Close({id}))
        \/ Retain({id}) /\ EraseEntry(id)
  BY DEF EraseCallback
<1>2. past'.dropped = past.dropped
  BY PastFields DEF EraseCallback
<1>3. CASE ledger' = ledger /\ (UNCHANGED native \/ Close({id}))
  BY <1>2, <1>3, CloseReleases DEF Accounted
<1>4. CASE Retain({id}) /\ EraseEntry(id)
  <2>1. ledger'.retired = ledger.retired \cup {id} /\ ledger'.views = ledger.views
    BY <1>4 DEF Retain
  <2>2. native'.releasing = native.releasing \cup {id}
    BY <1>4 DEF EraseEntry
  <2>3. QED
    BY <1>2, <2>1, <2>2 DEF Accounted
<1>5. QED
  BY <1>1, <1>3, <1>4

\* A view taken out of the pool's list was released, or is lost to the bridge.
LEMMA StoreEntryAccounted == ASSUME Shape, Creating, Accounted, StoreEntry PROVE Accounted'
<1> native \in Native /\ ledger \in Ledger /\ past \in Past /\ observer \in Observer
  BY DEF Shape
<1> DEFINE made == observer.made
<1>1. native'.releasing = native.releasing
  BY StoredFields, CloseReleases
<1>2. \/ UNCHANGED <<ledger, past>>
      \/ /\ ledger' = [ledger EXCEPT !.views[made] = native.last]
         /\ past' = [past EXCEPT !.dropped = @ \cup ({ledger.views[made]} \cap native.releasing)]
  BY DEF StoreEntry
<1>3. CASE UNCHANGED <<ledger, past>>
  BY <1>1, <1>3 DEF Accounted
<1>4. CASE /\ ledger' = [ledger EXCEPT !.views[made] = native.last]
           /\ past' = [past EXCEPT !.dropped = @ \cup ({ledger.views[made]} \cap native.releasing)]
  <2>1. past'.dropped = past.dropped \cup ({ledger.views[made]} \cap native.releasing)
    BY <1>4
  <2>2. ledger'.retired = ledger.retired
        /\ \A f \in 1..Feeds : f # made => ledger'.views[f] = ledger.views[f]
    BY <1>4
  <2>3. QED
    BY <1>1, <2>1, <2>2 DEF Accounted
<1>5. QED
  BY <1>2, <1>3, <1>4

\* No view is lost when clear_retired_pair is done.
LEMMA ClearedAccounted ==
  ASSUME Shape, Accounted, Cleared PROVE Accounted'
<1> native \in Native /\ ledger \in Ledger /\ past \in Past
  BY DEF Shape
<1>1. ledger'.retired = ledger.retired
        \cup {ledger.views[f] : f \in {f \in 1..Feeds : ledger.views[f] # 0}}
  BY DEF Cleared, Transferred
<1>2. \A id \in native.releasing : id # 0
  BY DEF Ids
<1>3. QED
  BY <1>1, <1>2 DEF Accounted, Cleared

LEMMA HoldConfirmDrains ==
  ASSUME Shape, HoldConfirm
  PROVE  /\ observer'.at = "confirmed" /\ observer'.step = "none" /\ observer.step = "none"
         /\ pair' = CancelledPair
         /\ observer'.drained =>
              pair.ids = {} /\ \A f \in 1..Feeds : ledger'.views[f] = 0
<1> observer \in Observer
  BY DEF Shape
<1> DEFINE done == Cancelled /\ empty(CancelledPair, CancelledMail)
<1>1. /\ observer' = [observer EXCEPT !.at = "confirmed", !.drained = done]
      /\ pair' = CancelledPair /\ observer.step = "none"
      /\ done => ledger' = Transferred
  BY DEF HoldConfirm, At, ClearIf
<1>2. done => pair.ids = {}
  BY DEF Cancelled
<1>3. ledger' = Transferred => \A f \in 1..Feeds : ledger'.views[f] = 0
  BY DEF Transferred
<1> HIDE DEF done
<1>4. observer'.at = "confirmed" /\ observer'.step = "none" /\ (observer'.drained => done)
  BY <1>1
<1>5. QED
  BY <1>1, <1>2, <1>3, <1>4

\* A view that no list holds was never the bridge's to wait for.
LEMMA TeardownAccounted == ASSUME Shape, Accounted, Teardown PROVE Accounted'
<1> native \in Native /\ ledger \in Ledger /\ past \in Past
  BY DEF Shape
<1> DEFINE gone == {id \in Ids : native.entry[id] \in Live}
<1>1. ledger' = ledger /\ native'.releasing = native.releasing \cup gone
  BY DEF Teardown
<1>2. past'.dropped = past.dropped
                        \cup {id \in gone : \A f \in 1..Feeds : ledger.views[f] # id}
  BY DEF Teardown
<1> HIDE DEF gone
<1>3. QED
  BY <1>1, <1>2 DEF Accounted

LEMMA NextAccounted == ASSUME Shape, Creating, Accounted, Next PROVE Accounted'
<1> native \in Native /\ ledger \in Ledger /\ past \in Past
  BY DEF Shape
<1>1. CASE Unbooked
  BY <1>1 DEF Unbooked, Accounted
<1>2. CASE CreateRefused \/ CreateEntry \/ RequestCreation
  <2>1. ledger' \in {ledger, Observed} /\ past'.dropped = past.dropped
    <3>1. CASE CreateRefused
      BY <3>1, PastFields DEF CreateRefused
    <3>2. CASE CreateEntry
      BY <3>2, PastFields DEF CreateEntry
    <3>3. CASE RequestCreation
      BY <3>3 DEF RequestCreation
    <3>4. QED
      BY <1>2, <3>1, <3>2, <3>3
  <2>2. native'.releasing = native.releasing
    <3>1. CASE CreateEntry
      <4>1. PICK state \in {"open", "pending"} : Create(state)
        BY <3>1 DEF CreateEntry
      <4> HIDE DEF NextId
      <4>2. native' = [native EXCEPT !.entry = [native.entry EXCEPT ![NextId] = state],
                                     !.last = NextId]
        BY <4>1 DEF Create
      <4>3. QED
        BY <4>2
    <3>2. CASE CreateRefused
      BY <3>2 DEF CreateRefused
    <3>3. CASE RequestCreation
      BY <3>3 DEF RequestCreation
    <3>4. QED
      BY <1>2, <3>1, <3>2, <3>3
  <2>3. QED
    BY <2>1, <2>2, ObservedFields DEF Accounted
<1>3. CASE HoldAcknowledge
  <2>1. UNCHANGED <<native, past>>
        /\ (ledger' = [ledger EXCEPT !.retired = StillRetired] \/ ledger' = ledger)
    BY <1>3 DEF HoldAcknowledge
  <2>2. QED
    BY <2>1 DEF Accounted, StillRetired
<1>4. ASSUME NEW id \in Ids, ViewReleased(id) PROVE Accounted'
  BY <1>4 DEF ViewReleased, Accounted
<1>5. QED
  BY <1>1, <1>2, <1>3, <1>4, LedgerChange, EraseCallbackAccounted, StoreEntryAccounted,
     ClearedAccounted, TeardownAccounted

(* What the observer confirmed. *)

\* Only HoldConfirm finds the session drained.
LEMMA DrainedElsewhere ==
  ASSUME Shape, Next, ~HoldConfirm, observer'.drained
  PROVE  observer.drained
<1> observer \in Observer
  BY DEF Shape
<1>1. CASE Request
  BY <1>1, RequestChange, SupersededShape
<1>2. CASE TakeMailbox \/ CleanupDone
  <2>1. \E p : StartCreation(p) \/ StartCleanup(p) \/ Publish(p)
    BY <1>2 DEF TakeMailbox, CleanupDone
  <2>2. QED
    BY <2>1 DEF StartCreation, StartCleanup, Publish
<1>3. CASE EraseCallback
  <2>1. PICK id \in observer.todo : Tried(id, TRUE) \/ Tried(id, FALSE)
    BY <1>3 DEF EraseCallback
  <2>2. observer' = [observer EXCEPT !.todo = @ \ {id}]
    BY <2>1 DEF Tried
  <2>3. QED
    BY <2>2
<1>4. CASE CreateRefused
  <2>1. \E d, ids : \/ observer' = [observer EXCEPT !.step = "none", !.deferred = d]
                    \/ observer' = [observer EXCEPT !.step = "erase", !.todo = ids, !.deferred = d]
    BY <1>4, ZenonT(30) DEF CreateRefused
  <2>2. QED
    BY <2>1
<1>5. CASE CreateEntry
  <2>1. observer' = [observer EXCEPT !.step = "store", !.made = @ + 1]
    BY <1>5 DEF CreateEntry
  <2>2. QED
    BY <2>1
<1>6. CASE StoreEntry
  <2>1. \E valid : \/ observer' = [observer EXCEPT !.step = "create", !.valid = valid]
                   \/ observer' = [observer EXCEPT !.step = "none", !.valid = valid]
    BY <1>6, ZenonT(30) DEF StoreEntry
  <2>2. QED
    BY <2>1
<1>7. CASE Update
  BY <1>7, UpdateChange
<1>8. CASE HoldDrain
  <2>1. Process("drained") \/ observer' = [observer EXCEPT !.at = "drained"]
    BY <1>8 DEF HoldDrain
  <2>2. QED
    BY <2>1, ProcessFields
<1>9. CASE HoldAcknowledge \/ CancelDeferred \/ Show
  BY <1>9, OutsideFields DEF HoldAcknowledge, CancelDeferred, Show, Leave
<1>10. CASE Inspect
  BY <1>10, InspectFields, OutsideFields, ProcessFields DEF Leave
<1>11. CASE RequestCreation
  <2>1. \/ observer' = [observer EXCEPT !.at = "created", !.step = "take"]
        \/ observer' = [observer EXCEPT !.at = "shown"]
    BY <1>11 DEF RequestCreation
  <2>2. QED
    BY <2>1
<1>12. CASE AfterCreation \/ ShowFails
  BY <1>12, CreatedChange, CreatedObserver
<1>13. CASE Settles \/ Teardown \/ Load \/ TelemetryLost \/ ManagerLost
  <2>1. UNCHANGED observer
    BY <1>13 DEF Settles, Teardown, Load, TelemetryLost, ManagerLost, FlightReady, ManagerFound,
       SetupFinished, ViewReleased, FlightBecomes
  <2>2. QED
    BY <2>1
<1>14. CASE KeptSettle \/ KeptInspect \/ KeptStore
  BY <1>14, KeepingChange, OutsideFields
<1>15. QED
  BY <1>1, <1>2, <1>3, <1>4, <1>5, <1>6, <1>7, <1>8, <1>9, <1>10, <1>11, <1>12, <1>13, <1>14
  DEF Next, ManagerUpdate, ProcessUpdate

\* Between the phases of a reset's update the observer does nothing else.
LEMMA WhereUpdates ==
  ASSUME ManagerUpdate, observer.step = "none",
         observer.at \in {"between", "hold", "drained", "confirmed"}
  PROVE  \/ Update /\ observer.at = "between" /\ session.enabled
         \/ HoldDrain /\ observer.at = "hold"
         \/ HoldConfirm /\ observer.at = "drained"
         \/ HoldAcknowledge /\ observer.at = "confirmed"
<1>1. ~ProcessUpdate
  BY DEF ProcessUpdate, TakeMailbox, EraseCallback, CleanupDone, CreateRefused, CreateEntry,
     StoreEntry, Inside
<1>2. ~Inspect
  BY InspectFields
<1>3. ~RequestCreation
  BY DEF RequestCreation, At
<1>4. ~AfterCreation /\ ~CancelDeferred /\ ~Show /\ ~ShowFails
  BY DEF AfterCreation, CancelDeferred, Show, ShowFails, At
<1> ~KeptSettle /\ ~KeptInspect /\ ~KeptStore
  BY DEF KeptSettle, KeptInspect, KeptStore, At
<1>5. QED
  BY <1>1, <1>2, <1>3, <1>4
  DEF ManagerUpdate, Update, HoldDrain, HoldConfirm, HoldAcknowledge, At

\* Requests and the world leave the observer where it is.
LEMMA OutsideSteps ==
  ASSUME Shape, Next, ~ManagerUpdate
  PROVE  /\ observer'.at = observer.at /\ observer'.step = observer.step
         /\ ledger' = ledger /\ pair'.ids = pair.ids
<1> observer \in Observer /\ pair \in Pair /\ mailbox \in Mail
  BY DEF Shape
<1>1. CASE Request
  <2>1. ledger' = ledger /\ (pair' = pair \/ pair' = CancelledPair)
    BY <1>1, RequestChange DEF Turned
  <2>2. observer'.at = observer.at /\ observer'.step = observer.step
    BY <1>1, RequestChange, SupersededShape
  <2>3. QED
    BY <2>1, <2>2, CancelShape
<1>2. CASE Settles \/ Teardown \/ Load \/ TelemetryLost \/ ManagerLost
  <2>1. UNCHANGED <<pair, observer, ledger>>
    BY <1>2 DEF Settles, Teardown, Load, TelemetryLost, ManagerLost, FlightReady, ManagerFound,
       SetupFinished, ViewReleased, FlightBecomes
  <2>2. QED
    BY <2>1
<1>3. QED
  BY <1>1, <1>2 DEF Next

LEMMA NextConfirmed == ASSUME Shape, Confirmed, Next PROVE Confirmed'
<1> observer \in Observer /\ pair \in Pair /\ mailbox \in Mail
  BY DEF Shape
<1>1. CASE HoldConfirm
  BY <1>1, HoldConfirmDrains, CancelShape DEF Confirmed
<1>2. CASE ~HoldConfirm
  <2> SUFFICES ASSUME observer'.drained PROVE Confirmed'
    BY DEF Confirmed
  <2>1. /\ observer.at = "confirmed" /\ observer.step = "none" /\ pair.ids = {}
        /\ \A f \in 1..Feeds : ledger.views[f] = 0
    BY <1>2, DrainedElsewhere DEF Confirmed
  <2>2. ~ManagerUpdate
    <3>1. ManagerUpdate => HoldAcknowledge
      BY <2>1, WhereUpdates
    <3>2. HoldAcknowledge => ~observer'.drained
      BY OutsideFields DEF HoldAcknowledge, Leave
    <3>3. QED
      BY <3>1, <3>2
  <2>3. QED
    BY <2>1, <2>2, OutsideSteps DEF Confirmed
<1>3. QED
  BY <1>1, <1>2

(* The session. *)

LEMMA InspectSession ==
  ASSUME Inspect
  PROVE  \E temporary \in BOOLEAN :
            \/ session' = session
            \/ session' = [session EXCEPT !.start = FALSE, !.again = temporary /\ session.on]
<1>1. CASE world.managed
  BY <1>1, Zenon DEF Inspect
<1>2. CASE ~world.managed
  <2>1. \E temporary \in BOOLEAN : session' = IF observer.fresh
          THEN [session EXCEPT !.start = FALSE, !.again = temporary /\ session.on]
          ELSE session
    BY <1>2, Zenon DEF Inspect
  <2>2. QED
    BY <2>1, Zenon
<1>3. QED
  BY <1>1, <1>2, Zenon

\* The observer and the world leave a reset as it is where they do not report it
\* retired; a new pair that fails its validation may begin one.
LEMMA SessionElsewhere ==
  ASSUME Shape, Next, ~Request, ~Update, ~HoldAcknowledge
  PROVE  /\ session'.enabled = session.enabled
         /\ \/ session'.holding = session.holding /\ session'.retired = session.retired
            \/ /\ session'.holding /\ (session'.retired => ~session.enabled)
               /\ observer.at # "between"
<1> session \in Session
  BY DEF Shape
<1>1. CASE ProcessUpdate \/ HoldDrain \/ HoldConfirm \/ CancelDeferred \/ Show
  <2>1. CASE TakeMailbox \/ EraseCallback \/ CleanupDone
    BY <2>1 DEF TakeMailbox, EraseCallback, CleanupDone
  <2>2. CASE CreateRefused
    BY <2>2 DEF CreateRefused
  <2>3. CASE CreateEntry \/ StoreEntry
    BY <2>3 DEF CreateEntry, StoreEntry
  <2>4. CASE HoldDrain \/ HoldConfirm \/ CancelDeferred \/ Show
    BY <2>4 DEF HoldDrain, HoldConfirm, CancelDeferred, Show
  <2>5. QED
    BY <1>1, <2>1, <2>2, <2>3, <2>4 DEF ProcessUpdate
<1>2. CASE Inspect
  <2>1. PICK temporary \in BOOLEAN :
          \/ session' = session
          \/ session' = [session EXCEPT !.start = FALSE, !.again = temporary /\ session.on]
    BY <1>2, InspectSession, Zenon
  <2>2. PICK b \in BOOLEAN : b = (temporary /\ session.on)
    OBVIOUS
  <2>3. session' = session \/ session' = [session EXCEPT !.start = FALSE, !.again = b]
    BY <2>1, <2>2
  <2>4. QED
    BY <2>3
<1>3. CASE RequestCreation
  <2>1. PICK a \in BOOLEAN, b \in BOOLEAN :
          a = (session.start \/ Retried) /\ b = (session.again /\ ~Retried)
    OBVIOUS
  <2>2. \/ session' = [session EXCEPT !.start = FALSE, !.again = FALSE]
        \/ session' = [session EXCEPT !.start = a, !.again = b]
    BY <1>3, <2>1 DEF RequestCreation
  <2>3. QED
    BY <2>2
<1>4. CASE AfterCreation \/ ShowFails
  BY <1>4, CreatedChange
<1>5. CASE FlightReady
  <2>1. PICK b \in BOOLEAN : b = (session.current /\ world.flight = "unready")
    OBVIOUS
  <2>2. session' = [session EXCEPT !.current = b]
    BY <1>5, <2>1 DEF FlightReady
  <2>3. QED
    BY <2>2
<1>6. CASE ManagerFound \/ Teardown \/ Load \/ TelemetryLost \/ ManagerLost
           \/ \E id \in Ids : SetupFinished(id) \/ ViewReleased(id)
  <2>1. UNCHANGED session
    BY <1>6 DEF ManagerFound, Teardown, Load, TelemetryLost, ManagerLost, SetupFinished, ViewReleased
  <2>2. QED
    BY <2>1
<1>7. CASE KeptSettle \/ KeptInspect \/ KeptStore
  BY <1>7, KeepingChange
<1>8. QED
  BY <1>1, <1>2, <1>3, <1>4, <1>5, <1>6, <1>7 DEF Next, ManagerUpdate, Settles

\* A reset that begins is reported retired at once only when there is nothing to do, and
\* nothing begun lets a reset go.
LEMMA TurnedFields ==
  ASSUME Turned
  PROVE  /\ session'.enabled = session.enabled
         /\ session.holding => session'.holding
         /\ \/ session'.holding = session.holding /\ session'.retired = session.retired
            \/ session'.holding /\ (session'.retired => ~session.enabled)
  BY DEF Turned

\* The observer reports the session retired when it found it drained and the last
\* retired view released.
LEMMA AcknowledgeFields ==
  ASSUME Shape, HoldAcknowledge
  PROVE  /\ UNCHANGED <<pair, native, past>> /\ observer' = Outside
         /\ session'.enabled = session.enabled /\ session'.holding = session.holding
         /\ session'.retired => \/ session.retired
                                \/ observer.drained /\ ledger.retired \cap native.releasing = {}
<1> session \in Session
  BY DEF Shape
<1> DEFINE retired == IF ledger.retired # {} /\ world.managed THEN StillRetired ELSE ledger.retired
<1>1. PICK b \in BOOLEAN :
        b = (session.retired \/ (session.holding /\ retired = {} /\ observer.drained))
  OBVIOUS
<1>2. session' = [session EXCEPT !.retired = b] /\ UNCHANGED <<pair, native, past>>
      /\ observer' = Outside
  BY <1>1 DEF HoldAcknowledge, Leave
<1>3. retired = {} => ledger.retired \cap native.releasing = {}
  BY DEF StillRetired
<1> HIDE DEF retired
<1>4. /\ session'.enabled = session.enabled /\ session'.holding = session.holding
      /\ session'.retired = b
  BY <1>2
<1>5. QED
  BY <1>1, <1>2, <1>3, <1>4

LEMMA RequestFields ==
  ASSUME Shape, Request
  PROVE  /\ native' = native /\ past'.dropped = past.dropped
         /\ \/ Turned
            \/ request_scene_test /\ ~session'.holding /\ session'.enabled
            \/ /\ session'.holding = session.holding /\ session'.retired = session.retired
               /\ session'.enabled = session.enabled
<1> past \in Past
  BY DEF Shape
<1>1. QED
  BY RequestChange, PastFields

\* With nothing owned and nothing under way, the world releases and loses nothing
\* that the bridge waits for.
LEMMA WorldReleases ==
  ASSUME Shape, Known, Settles \/ Teardown \/ Load \/ TelemetryLost \/ ManagerLost,
         pair.ids = {}, observer.step = "none"
  PROVE  native'.releasing \subseteq native.releasing /\ past'.dropped = past.dropped
<1> native \in Native /\ past \in Past
  BY DEF Shape
<1>1. ~Teardown
  BY DEF Teardown, Known
<1>2. CASE FlightReady \/ ManagerFound
  BY <1>2 DEF FlightReady, FlightBecomes, ManagerFound
<1>3. CASE Load \/ TelemetryLost \/ ManagerLost
  BY <1>3, PastFields DEF Load, TelemetryLost, ManagerLost, FlightBecomes
<1>4. ASSUME NEW id \in Ids, SetupFinished(id) \/ ViewReleased(id)
      PROVE  native'.releasing \subseteq native.releasing /\ past'.dropped = past.dropped
  <2>1. CASE SetupFinished(id)
    BY <2>1 DEF SetupFinished
  <2>2. CASE ViewReleased(id)
    BY <2>2 DEF ViewReleased
  <2>3. QED
    BY <1>4, <2>1, <2>2
<1>5. QED
  BY <1>1, <1>2, <1>3, <1>4 DEF Settles

LEMMA NextUnused == ASSUME Shape, Known, Unused, Next PROVE Unused'
<1> SUFFICES ASSUME ~session'.enabled PROVE Unused'
  BY DEF Unused
<1>1. ~session.enabled
  <2>1. CASE Request
    BY <2>1, RequestFields, TurnedFields
  <2>2. CASE Update
    BY <2>2, UpdateChange, TurnedFields
  <2>3. CASE HoldAcknowledge
    BY <2>3, AcknowledgeFields
  <2>4. QED
    BY <2>1, <2>2, <2>3, SessionElsewhere
<1>2. /\ observer.at = "between" /\ observer.step = "none" /\ pair.ids = {}
      /\ native.releasing = {}
  BY <1>1 DEF Unused
<1>3. ~ManagerUpdate
  BY <1>1, <1>2, WhereUpdates
<1>4. native'.releasing = {}
  <2>1. CASE Request
    BY <1>2, <2>1, RequestFields
  <2>2. CASE Settles \/ Teardown \/ Load \/ TelemetryLost \/ ManagerLost
    BY <1>2, <2>2, WorldReleases
  <2>3. QED
    BY <1>3, <2>1, <2>2 DEF Next
<1>5. QED
  BY <1>2, <1>3, <1>4, OutsideSteps DEF Unused

\* A session that is reported retired has nothing left, and creates nothing.
LEMMA NextEmptied ==
  ASSUME Shape, Creating, Known, Accounted, Confirmed, Unused, Emptied, Next
  PROVE  Emptied'
<1> SUFFICES ASSUME session'.holding, session'.retired PROVE Emptied'
  BY DEF Emptied
<1> native \in Native /\ observer \in Observer /\ mailbox \in Mail /\ pair \in Pair
  BY DEF Shape
<1> DEFINE Phases == {"between", "hold", "drained", "confirmed"}
\* It was retired already, or this is the step that reports it.
<1>1. CASE session.holding /\ session.retired
  <2>1. /\ observer.at \in Phases /\ observer.step = "none"
        /\ pair.ids = {} /\ native.releasing \subseteq past.dropped
    BY <1>1 DEF Emptied
  <2>2. CASE ManagerUpdate
    <3>1. ~Entering
      BY <2>1 DEF Entering, EraseCallback, CreateEntry, StoreEntry, Inside
    <3>2. pair'.ids = {}
      BY <2>1, <3>1, OwnedElsewhere
    <3>3. CASE Update
      <4>1. /\ observer'.at = "hold" /\ observer'.step = "none" /\ native' = native
            /\ past' = [past EXCEPT !.closed = {id \in Ids : native.entry[id] = "closed"}]
        BY <3>3, UpdateChange
      <4>2. past'.dropped = past.dropped
        BY <4>1 DEF Shape
      <4>3. QED
        BY <2>1, <3>2, <4>1, <4>2 DEF Emptied
    <3>4. CASE HoldDrain
      <4>1. observer' = [observer EXCEPT !.at = "drained"] /\ UNCHANGED <<native, past>>
        BY <2>1, <3>4 DEF HoldDrain, Owned
      <4>2. observer'.at = "drained" /\ observer'.step = "none"
        BY <2>1, <4>1
      <4>3. QED
        BY <2>1, <3>2, <4>1, <4>2 DEF Emptied
    <3>5. CASE HoldConfirm
      BY <2>1, <3>2, <3>5, HoldConfirmDrains DEF Emptied, HoldConfirm
    <3>6. CASE HoldAcknowledge
      <4>1. observer'.at = "between" /\ observer'.step = "none"
        BY <3>6, AcknowledgeFields DEF Outside
      <4>2. QED
        BY <2>1, <3>2, <3>6, <4>1, AcknowledgeFields DEF Emptied
    <3>7. QED
      BY <2>1, <2>2, <3>3, <3>4, <3>5, <3>6, WhereUpdates
  <2>3. CASE ~ManagerUpdate
    <3>1. native'.releasing \subseteq native.releasing /\ past'.dropped = past.dropped
      <4>1. CASE Request
        BY <4>1, RequestFields
      <4>2. CASE Settles \/ Teardown \/ Load \/ TelemetryLost \/ ManagerLost
        BY <2>1, <4>2, WorldReleases
      <4>3. QED
        BY <2>3, <4>1, <4>2 DEF Next
    <3>2. QED
      BY <2>1, <2>3, <3>1, OutsideSteps DEF Emptied
  <2>4. QED
    BY <2>2, <2>3
<1>2. CASE ~(session.holding /\ session.retired)
  <2>1. CASE Request
    <3>1. Turned
      BY <1>2, <2>1, RequestFields
    <3>2. ~session.enabled
      BY <1>2, <3>1, TurnedFields
    <3>3. /\ observer.at = "between" /\ observer.step = "none" /\ pair.ids = {}
          /\ native.releasing = {}
      BY <3>2 DEF Unused
    <3>4. ~ManagerUpdate
      BY <3>2, <3>3, WhereUpdates
    <3>5. QED
      BY <2>1, <3>3, <3>4, OutsideSteps, RequestFields DEF Emptied
  <2>2. CASE Update
    BY <1>2, <2>2, UpdateChange, TurnedFields
  <2>3. CASE HoldAcknowledge
    <3>1. observer.drained /\ ledger.retired \cap native.releasing = {}
      BY <1>2, <2>3, AcknowledgeFields
    <3>2. pair.ids = {} /\ \A f \in 1..Feeds : ledger.views[f] = 0
      BY <3>1 DEF Confirmed
    <3>3. native.releasing \subseteq past.dropped
      <4>1. \A id \in native.releasing : id # 0
        BY DEF Ids
      <4>2. QED
        BY <3>1, <3>2, <4>1 DEF Accounted
    <3>4. observer'.at = "between" /\ observer'.step = "none"
      BY <2>3, AcknowledgeFields DEF Outside
    <3>5. QED
      BY <2>3, <3>2, <3>3, <3>4, AcknowledgeFields DEF Emptied
  <2>4. CASE ~Request /\ ~Update /\ ~HoldAcknowledge
    <3>1. ~session.enabled /\ observer.at # "between"
      BY <1>2, <2>4, SessionElsewhere
    <3>2. QED
      BY <3>1 DEF Unused
  <2>5. QED
    BY <2>1, <2>2, <2>3, <2>4
<1>3. QED
  BY <1>1, <1>2

Retirement == Known /\ Accounted /\ Confirmed /\ Unused /\ Emptied

LEMMA RetirementHolds == Spec => []Retirement
<1>1. Init => Retirement
  <2> SUFFICES ASSUME Init PROVE Retirement
    OBVIOUS
  <2>1. native.entry = [id \in Ids |-> "none"] /\ native.releasing = {}
        /\ observer = Outside /\ ~session.holding /\ pair.ids = {}
    BY DEF Init
  <2>2. observer.at = "between" /\ observer.step = "none" /\ ~observer.drained
    BY <2>1 DEF Outside
  <2>3. QED
    BY <2>1, <2>2 DEF Retirement, Known, Accounted, Confirmed, Unused, Emptied, Live
<1>2. Typed /\ Retirement /\ [Next]_vars => Retirement'
  <2> SUFFICES ASSUME Typed, Retirement, [Next]_vars PROVE Retirement'
    OBVIOUS
  <2>1. CASE Next
    BY <2>1, NextKnown, NextAccounted, NextConfirmed, NextUnused, NextEmptied
    DEF Typed, Retirement
  <2>2. CASE UNCHANGED vars
    BY <2>2 DEF vars, Retirement, Known, Accounted, Confirmed, Unused, Emptied
  <2>3. QED
    BY <2>1, <2>2
<1>3. QED
  BY <1>1, <1>2, TypedHolds, PTL DEF Spec

\* A start that ends a reset is admitted by SceneSessionReset::ready, which holds only
\* when the observer has confirmed that nothing is owned, every view moved to the
\* retired ones, and none of them was left: no entry of the bridge is alive, and no
\* view it knows of is still to be released (probe.cpp, request_scene_test;
\* scene_session_reset.hpp, ready and observe_empty).
THEOREM ResetLeavesNothing == Spec => ResetMeansEmpty
<1>1. Typed /\ Retirement /\ [Next]_vars =>
        [session.holding /\ ~session'.holding =>
            /\ \A id \in Ids : native.entry[id] \notin Live
            /\ native.releasing \subseteq past.dropped]_vars
  <2> SUFFICES ASSUME Typed, Retirement, Next, session.holding, ~session'.holding
               PROVE  /\ \A id \in Ids : native.entry[id] \notin Live
                      /\ native.releasing \subseteq past.dropped
    OBVIOUS
  <2> Shape
    BY DEF Typed
  <2>1. request_scene_test
    <3>1. CASE Request
      BY <3>1, RequestFields, TurnedFields
    <3>2. CASE Update
      BY <3>2, UpdateChange, TurnedFields
    <3>3. CASE HoldAcknowledge
      BY <3>3, AcknowledgeFields
    <3>4. QED
      BY <3>1, <3>2, <3>3, SessionElsewhere
  <2>2. session.retired
    BY <2>1 DEF request_scene_test, ready
  <2>3. /\ observer.step = "none" /\ pair.ids = {}
        /\ native.releasing \subseteq past.dropped
    BY <2>2 DEF Retirement, Emptied
  <2>4. QED
    BY <2>3 DEF Retirement, Known
<1>2. QED
  BY <1>1, TypedHolds, RetirementHolds, PTL DEF Spec, ResetMeansEmpty
=============================================================================

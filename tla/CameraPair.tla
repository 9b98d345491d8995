----------------------------- MODULE CameraPair -----------------------------
(***************************************************************************)
(* The native camera entries of the bridge: how they are created, closed,   *)
(* erased, kept and retired across requests, flights and failures of the    *)
(* simulator's manager (camera/entry_pair.cpp, camera/view_retirement.hpp,  *)
(* camera/scene_session_reset.hpp, camera/retained_profile.hpp,             *)
(* camera/view_pool.hpp, camera/probe.cpp).                                 *)
(*                                                                          *)
(* Request threads leave commands in a mailbox.  The observer, called by    *)
(* the simulator on every manager update, takes them, creates one entry per *)
(* feed, and erases an entry only on a later update than the one that saw   *)
(* its gate closed.  A new flight keeps the pair: it is closed, validated   *)
(* on every update, and resumes when the next request finds it valid.  What *)
(* cannot be kept is reset: creation is forbidden until the observer has    *)
(* seen every entry absent and every view released.                         *)
(*                                                                          *)
(* A request thread that meets the observer inside process_update finds the *)
(* pair busy.  One manager, one renderer and one aircraft live throughout,  *)
(* so a kept pair is never resized.                                         *)
(***************************************************************************)
EXTENDS Integers, FiniteSets

CONSTANTS
    Feeds,          \* views of a pair
    Slots,          \* slots_ of ViewRetirement
    MaxIds,         \* bound: entries ever created
    MaxRequests,    \* bound: Start, Stop and reset requests
    MaxTroubles     \* bound: failures and losses of the environment

ASSUME PairAssumption ==
    /\ Feeds \in Nat \ {0} /\ Slots \in Nat \ {0}
    /\ MaxIds \in Nat /\ MaxRequests \in Nat /\ MaxTroubles \in Nat

VARIABLES
    mailbox,    \* PairController::mailbox_
    pair,       \* the rest of PairController, and what it published
    observer,   \* where the manager update is
    session,    \* the reset, the kept pair and the requests, under the probe's mutex
    slots,      \* ViewRetirement: ids seen closed, and whether on this update
    ledger,     \* retired_views and owned_pool_views
    native,     \* the simulator's entries, and the views it has yet to release
    world,      \* readiness of the flight, and of the manager
    past        \* history

vars == <<mailbox, pair, observer, session, slots, ledger, native, world, past>>

-----------------------------------------------------------------------------
Ids == 1..MaxIds
Live == {"pending", "open", "closed"}

Outside == [at |-> "between", step |-> "none", todo |-> {}, made |-> 0, valid |-> FALSE,
            wanted |-> FALSE, fresh |-> TRUE, deferred |-> FALSE, drained |-> FALSE,
            found |-> "none"]

Init ==
    /\ mailbox = "none"
    /\ pair = [ids |-> {}, enabled |-> FALSE, pending |-> FALSE, active |-> FALSE,
               failed |-> FALSE, shown |-> {}, shownPending |-> FALSE]
    /\ observer = Outside
    /\ session = [holding |-> FALSE, retired |-> FALSE, start |-> FALSE, on |-> FALSE,
                  again |-> FALSE, current |-> FALSE, enabled |-> FALSE,
                  kept |-> "none", held |-> FALSE, resume |-> FALSE, fallback |-> FALSE]
    /\ slots = [id \in Ids |-> "none"]
    /\ ledger = [retired |-> {}, views |-> [f \in 1..Feeds |-> 0]]
    /\ native = [entry |-> [id \in Ids |-> "none"], last |-> 0, releasing |-> {}]
    /\ world = [flight |-> "ready", managed |-> TRUE]
    /\ past = [closed |-> {}, dropped |-> {}, requests |-> 0, troubles |-> 0]

\* Trouble is bounded.
Trouble ==
    /\ past.troubles < MaxTroubles
    /\ past' = [past EXCEPT !.troubles = @ + 1]

Requested ==
    /\ past.requests < MaxRequests
    /\ past' = [past EXCEPT !.requests = @ + 1]

-----------------------------------------------------------------------------
(* PairController seen from outside. *)

\* cancel_uncreated_request.
Cancelled == observer.step = "none" /\ pair.ids = {}
Owned == observer.step = "none" /\ pair.ids # {}
CancelledPair ==
    IF Cancelled
    THEN [pair EXCEPT !.enabled = FALSE, !.pending = FALSE, !.active = FALSE, !.failed = FALSE,
                      !.shown = {}, !.shownPending = FALSE]
    ELSE pair
CancelledMail == IF Cancelled THEN "none" ELSE mailbox

\* empty: what a snapshot of the pair says.
empty(p, mail) == p.shown = {} /\ mail = "none" /\ ~p.shownPending

\* work_allowed.
work_allowed == ~session.holding /\ session.current /\ world.flight = "ready"

\* begin_session_reset.  Without an observer there is nothing to retire.
can_retire == session.enabled
BeginReset ==
    /\ pair' = CancelledPair /\ mailbox' = CancelledMail
    /\ session' = [session EXCEPT !.holding = TRUE, !.start = FALSE,
          !.on = FALSE, !.again = FALSE,
          !.retired = ~can_retire /\ Cancelled /\ empty(CancelledPair, CancelledMail),
          !.kept = "none", !.held = FALSE, !.resume = FALSE, !.fallback = FALSE]

-----------------------------------------------------------------------------
(* RetainedProfileTransition: "none" when it does not hold, else its decision, *)
(* or "awaiting" while the pair it is to keep is not known.                  *)

\* valid_pair, of the pair as published.
valid_pair ==
    /\ pair.active /\ ~pair.failed /\ pair.shown # {}
    /\ mailbox = "none" /\ ~pair.shownPending

\* begin_published.  A pair made on this update has no allocation evidence yet.
Begun ==
    CASE observer.step # "none" -> "awaiting"
      [] Cancelled -> "ready"
      [] Owned /\ valid_pair -> IF observer.made = 0 THEN "wait" ELSE "awaiting"
      [] OTHER -> "refused"

BeginKept(held) ==
    /\ pair' = CancelledPair /\ mailbox' = CancelledMail
    /\ session' = [session EXCEPT !.start = FALSE, !.on = FALSE, !.again = FALSE,
          !.kept = Begun, !.held = held, !.resume = FALSE, !.fallback = FALSE]

\* begin_flight_change.  A pair being kept already is only held again; without a
\* pair, or after a refusal, the reset is taken.
BeginFlightChange ==
    CASE pair.shown = {} \/ session.kept = "refused" -> BeginReset
      [] pair.shown # {} /\ session.kept = "none" -> BeginKept(TRUE)
      [] OTHER -> session' = [session EXCEPT !.held = TRUE] /\ UNCHANGED <<mailbox, pair>>

-----------------------------------------------------------------------------
(* Request threads.  A new request revision voids what the observer sampled, *)
(* and a new transition what it found.                                       *)

Superseded == observer' = [observer EXCEPT !.fresh = FALSE]
Voided == observer' = [observer EXCEPT !.fresh = FALSE, !.found = "none"]

request_scene_session_reset ==
    /\ Requested
    /\ BeginReset /\ Voided
    /\ UNCHANGED <<slots, ledger, native, world>>

\* request_scene_profile_transition, for the same aircraft: a Disconnect, or the
\* worker following a flight change.
request_scene_profile_transition ==
    /\ Requested
    /\ IF session.holding THEN BeginReset ELSE BeginKept(session.held)
    /\ Voided
    /\ UNCHANGED <<slots, ledger, native, world>>

\* Fault: an empty snapshot is enough.
FaultReadyWhenEmpty == session.holding /\ empty(pair, mailbox)

\* SceneSessionReset::ready.
ready == session.holding /\ session.retired /\ empty(pair, mailbox)

\* can_resume.
can_resume == session.kept = "ready" /\ valid_pair

\* request_scene_test.  A pair that is kept resumes, and one that may not resume
\* yet refuses the request; any other is replaced.
request_scene_test ==
    /\ Requested
    /\ world.flight = "ready"
    /\ session.holding => ready
    /\ session.kept # "none" /\ pair.shown # {} => can_resume
    /\ session' = [session EXCEPT !.holding = FALSE, !.retired = FALSE, !.start = ~can_resume,
          !.on = TRUE, !.again = FALSE, !.current = TRUE, !.enabled = TRUE,
          !.kept = IF can_resume THEN @ ELSE "none",
          !.held = @ /\ ~can_resume, !.resume = can_resume]
    /\ mailbox' = IF can_resume THEN mailbox ELSE "disable"
    /\ Superseded
    /\ UNCHANGED <<pair, slots, ledger, native, world>>

\* What is reset or kept is closed by the observer alone.
may_disable == ~session.holding /\ (session.kept = "none" \/ pair.shown = {})

request_scene_stop ==
    /\ Requested
    /\ session' = [session EXCEPT !.start = FALSE, !.on = FALSE, !.again = FALSE,
                       !.resume = FALSE, !.kept = IF may_disable THEN "none" ELSE @]
    /\ mailbox' = IF may_disable THEN "disable" ELSE mailbox
    /\ Superseded
    /\ UNCHANGED <<pair, slots, ledger, native, world>>

-----------------------------------------------------------------------------
(* process_update, which the observer is in while its step is not "none". *)

Inside(step) == observer.step = step
Process(at) == observer' = [observer EXCEPT !.at = at, !.step = "take"]

\* publish, and return to the caller.
Publish(p) ==
    /\ pair' = [p EXCEPT !.shown = p.ids, !.shownPending = p.pending]
    /\ observer' = [observer EXCEPT !.step = "none", !.todo = {}]

\* Consumed once, before any callback.
StartCreation(p) ==
    /\ pair' = [p EXCEPT !.pending = FALSE]
    /\ observer' = [observer EXCEPT !.step = "create", !.todo = {}]

StartCleanup(p) ==
    /\ pair' = [p EXCEPT !.active = FALSE]
    /\ observer' = [observer EXCEPT !.step = "erase", !.todo = p.ids]

Commanded ==
    CASE mailbox = "enable" -> [pair EXCEPT !.enabled = TRUE, !.failed = FALSE,
                                            !.pending = ~pair.active]
      [] mailbox = "disable" -> [pair EXCEPT !.enabled = FALSE, !.failed = FALSE,
                                             !.pending = FALSE]
      [] OTHER -> pair

TakeMailbox ==
    /\ Inside("take")
    /\ mailbox' = "none"
    /\ LET p == Commanded IN
       CASE p.ids = {} /\ p.pending -> StartCreation(p)
         [] p.ids # {} /\ ~(p.enabled /\ p.active /\ ~p.pending /\ ~p.failed) -> StartCleanup(p)
         [] OTHER -> Publish(p)
    /\ UNCHANGED <<session, slots, ledger, native, world, past>>

-----------------------------------------------------------------------------
(* The erase callback and ViewRetirement. *)

\* Fault: one slot too many.
FaultFreeSlotLate == Cardinality({id \in Ids : slots[id] # "none"}) <= Slots

FreeSlot == Cardinality({id \in Ids : slots[id] # "none"}) < Slots
Slotted(id, value) == slots' = [slots EXCEPT ![id] = value]

\* Fault: an absent entry keeps its slot.
FaultForgetNothing(id) == UNCHANGED slots

forget(id) == Slotted(id, "none")

\* Fault: a closed gate is enough.
FaultRipeWhenClosed(id) == TRUE

\* ViewRetirement::observe: seen closed on an earlier update.
Ripe(id) == slots[id] = "earlier"

\* Never while the flight loads, nor in a reset before the flight is ready.
MayErase == world.flight # "loading" /\ (session.holding => world.flight = "ready")

\* The id is tried; it stays owned unless its absence was confirmed.
Tried(id, confirmed) ==
    /\ observer' = [observer EXCEPT !.todo = @ \ {id}]
    /\ pair' = [pair EXCEPT !.ids = IF confirmed THEN @ \ {id} ELSE @]

Close(S) == native' = [native EXCEPT !.entry =
                [id \in Ids |-> IF id \in S /\ native.entry[id] = "open" THEN "closed" ELSE native.entry[id]]]

\* The native call: the view goes back to the pool when the renderer is done.
EraseEntry(id) ==
    native' = [native EXCEPT !.entry = [native.entry EXCEPT ![id] = "erased"],
                             !.releasing = native.releasing \cup {id}]

Retain(S) == ledger' = [ledger EXCEPT !.retired = @ \cup S]

\* One entry, latest first.
EraseCallback ==
    /\ Inside("erase")
    /\ \E id \in observer.todo :
          LET entry == native.entry[id] IN
          /\ \A other \in observer.todo : other <= id
          /\ \/ /\ ~world.managed
                /\ Tried(id, FALSE) /\ UNCHANGED <<slots, ledger, native, past>>
             \/ /\ world.managed /\ entry \notin Live
                /\ forget(id) /\ Tried(id, TRUE) /\ UNCHANGED <<ledger, native, past>>
             \/ /\ world.managed /\ entry = "pending"
                /\ forget(id) /\ Tried(id, FALSE) /\ UNCHANGED <<ledger, native, past>>
             \/ /\ world.managed /\ entry = "open"
                /\ forget(id) /\ Close({id}) /\ Tried(id, FALSE) /\ UNCHANGED <<ledger, past>>
             \/ /\ world.managed /\ entry = "closed" /\ ~Ripe(id)
                /\ IF slots[id] = "none" /\ FreeSlot THEN Slotted(id, "this") ELSE UNCHANGED slots
                /\ Tried(id, FALSE) /\ UNCHANGED <<ledger, native, past>>
             \/ /\ world.managed /\ entry = "closed" /\ Ripe(id) /\ ~MayErase
                /\ Tried(id, FALSE) /\ UNCHANGED <<slots, ledger, native, past>>
             \/ /\ world.managed /\ entry = "closed" /\ Ripe(id) /\ MayErase
                /\ Retain({id}) /\ EraseEntry(id)
                \* The table may be unreadable right after the call.
                /\ \/ forget(id) /\ Tried(id, TRUE) /\ UNCHANGED past
                   \/ Trouble /\ UNCHANGED slots /\ Tried(id, FALSE)
    /\ UNCHANGED <<mailbox, session, world>>

\* A creation may follow once every id is confirmed absent.
CleanupDone ==
    /\ Inside("erase") /\ observer.todo = {}
    /\ IF pair.ids = {} /\ pair.enabled /\ pair.pending THEN StartCreation(pair) ELSE Publish(pair)
    /\ UNCHANGED <<mailbox, session, slots, ledger, native, world, past>>

-----------------------------------------------------------------------------
(* The creation callbacks. *)

\* creation_capacity: RetiredViewPool::observe drops the views that are released.
StillRetired == ledger.retired \cap native.releasing
capacity == StillRetired = {}
Observed == [ledger EXCEPT !.retired = StillRetired]

NextId == native.last + 1

\* The entry before is usable, and nothing forbids camera work.
Admissible == work_allowed /\ (observer.made > 0 => observer.valid)

\* initialize or create refuses, or the native call returns no id: creation_failed.
\* The pool may also be full of views that were never the bridge's.
CreateRefused ==
    /\ Inside("create")
    /\ IF Admissible /\ capacity /\ world.managed THEN Trouble ELSE UNCHANGED past
    /\ LET p == [pair EXCEPT !.failed = TRUE] IN
       \E full \in BOOLEAN :
          LET deferred == observer.deferred \/ (Admissible /\ (full \/ ~capacity)) IN
          IF p.ids = {}
          THEN /\ pair' = [p EXCEPT !.shown = {}, !.shownPending = FALSE]
               /\ observer' = [observer EXCEPT !.step = "none", !.deferred = deferred]
          ELSE /\ pair' = [p EXCEPT !.active = FALSE]
               /\ observer' = [observer EXCEPT !.step = "erase", !.todo = p.ids,
                                               !.deferred = deferred]
    /\ ledger' = IF Admissible THEN Observed ELSE ledger
    /\ UNCHANGED <<mailbox, session, slots, native, world>>

\* The simulator's ids are not used twice.
Create(state) ==
    native' = [native EXCEPT !.entry = [native.entry EXCEPT ![NextId] = state], !.last = NextId]

\* The native call; its setup may still be pending when it returns.
CreateEntry ==
    /\ Inside("create")
    /\ Admissible /\ capacity /\ world.managed
    /\ NextId \in Ids
    /\ \/ Create("open") /\ UNCHANGED past
       \/ Create("pending") /\ Trouble
    /\ ledger' = Observed
    /\ observer' = [observer EXCEPT !.step = "store", !.made = @ + 1]
    /\ UNCHANGED <<mailbox, pair, session, slots, world>>

\* The id is owned even if it is not valid; a ready view is closed at once.
StoreEntry ==
    /\ Inside("store")
    /\ LET id == native.last
           usable == native.entry[id] = "open"
           p == [pair EXCEPT !.ids = @ \cup {id}]
           valid == usable /\ work_allowed
           old == ledger.views[observer.made]
       IN /\ Close({id})
          /\ IF usable
             THEN /\ ledger' = [ledger EXCEPT !.views[observer.made] = id]
                  /\ past' = [past EXCEPT !.dropped = @ \cup ({old} \cap native.releasing)]
             ELSE UNCHANGED <<ledger, past>>
          /\ IF Cardinality(p.ids) < Feeds
             THEN /\ pair' = p
                  /\ observer' = [observer EXCEPT !.step = "create", !.valid = valid]
             ELSE /\ pair' = [p EXCEPT !.active = TRUE, !.shown = p.ids, !.shownPending = FALSE]
                  /\ observer' = [observer EXCEPT !.step = "none", !.valid = valid]
    /\ UNCHANGED <<mailbox, session, slots, world>>

-----------------------------------------------------------------------------
(* The observer: one call per manager update. *)

\* clear_retired_pair: an entry may have vanished without the erase callback.
Transferred ==
    [retired |-> ledger.retired \cup {ledger.views[f] : f \in {f \in 1..Feeds : ledger.views[f] # 0}},
     views |-> [f \in 1..Feeds |-> 0]]
ClearIf(gone) ==
    IF gone
    THEN ledger' = Transferred /\ slots' = [id \in Ids |-> "none"]
    ELSE UNCHANGED <<ledger, slots>>

At(at) == observer.at = at /\ observer.step = "none"
Leave == observer' = Outside

\* Slots of earlier updates.
Aged == slots' = [id \in Ids |-> IF slots[id] = "none" THEN "none" ELSE "earlier"]

\* park_unready_session: gates of ready views are closed, nothing is erased.
Park == IF world.managed THEN Close(pair.shown) ELSE UNCHANGED native

\* Another flight, or one that loads.
SessionChanged == world.flight = "loading" \/ (pair.shown # {} /\ ~session.current)

\* A kept pair whose validation was refused takes the reset.
Refused == session.kept = "refused" /\ (session.held \/ session.fallback)

FlightChanged == ~session.holding /\ ~session.held /\ SessionChanged

\* The lock of the update's start: what changed is begun, and the branch chosen.
Begin ==
    CASE Refused -> BeginReset
      [] ~Refused /\ FlightChanged -> BeginFlightChange
      [] OTHER -> UNCHANGED <<mailbox, pair, session>>

profile_hold(s) == s.kept # "none" /\ (pair.shown # {} \/ s.kept = "awaiting")

Update ==
    /\ At("between") /\ session.enabled
    /\ Aged
    /\ past' = [past EXCEPT !.closed = {id \in Ids : native.entry[id] = "closed"}]
    /\ Begin
    /\ \/ /\ session'.holding
          /\ observer' = [Outside EXCEPT !.at = "hold"]
          /\ UNCHANGED native
       \/ /\ ~session'.holding /\ profile_hold(session')
          /\ observer' = [Outside EXCEPT !.at = "kept"]
          /\ UNCHANGED native
       \/ /\ ~session'.holding /\ ~profile_hold(session') /\ world.flight # "ready"
          /\ Leave /\ Park
       \/ /\ ~session'.holding /\ ~profile_hold(session') /\ world.flight = "ready"
          /\ observer' = [Outside EXCEPT !.at = "normal", !.wanted = session.start]
          /\ UNCHANGED native
    /\ UNCHANGED <<ledger, world>>

(* service_profile_transition: an update of a kept pair. *)

\* A pair that was busy when it was to be kept is looked at again, under the mutex.
KeptSettle ==
    /\ At("kept") /\ session.kept = "awaiting"
    /\ mailbox' = CancelledMail /\ pair' = CancelledPair
    /\ session' = [session EXCEPT !.kept = Begun]
    /\ IF Cancelled THEN Leave ELSE UNCHANGED observer
    /\ UNCHANGED <<slots, ledger, native, world, past>>

\* inspect: an entry that is pending or cannot be found is waited for.
Inspected ==
    CASE ~valid_pair -> "refused"
      [] valid_pair /\ \A id \in pair.shown : native.entry[id] \in {"open", "closed"} -> "ready"
      [] OTHER -> "wait"

\* Fault: an earlier acknowledgement is enough.
FaultPriorAcknowledgement(found) == found = "ready" \/ session.kept = "ready"

\* "A prior ready acknowledgement never authorizes resume after a failed fresh
\* manager inspection."
Validated(found) == found = "ready"

Found(found, resumable) ==
    observer' = [observer EXCEPT !.at = "inspected", !.fresh = TRUE, !.found = found,
          !.wanted = session.resume, !.valid = resumable /\ session.resume /\ work_allowed]

\* The transition is sampled under the mutex and inspected without it: open gates
\* are closed, and the pair may resume with a fresh pose.
KeptInspect ==
    /\ At("kept") /\ session.kept # "awaiting"
    /\ \/ session.kept = "none" /\ Leave /\ UNCHANGED <<native, past>>
       \/ /\ session.kept = "refused" \/ (session.kept # "none" /\ ~world.managed)
          /\ Found(session.kept, FALSE) /\ UNCHANGED <<native, past>>
       \/ /\ session.kept \in {"wait", "ready"} /\ world.managed
          /\ IF Inspected = "ready" THEN Close(pair.shown) ELSE UNCHANGED native
          /\ \E posed \in BOOLEAN : Found(Inspected, Validated(Inspected) /\ posed)
          /\ UNCHANGED past
       \* A view cannot be read, or is not the one that was allocated.
       \/ /\ session.kept \in {"wait", "ready"} /\ world.managed
          /\ Trouble /\ UNCHANGED native
          /\ Found("wait", FALSE) \/ Found("refused", FALSE)
    /\ UNCHANGED <<mailbox, pair, session, slots, ledger, world>>

\* Under the mutex again; a transition begun meanwhile is left alone.
Resumes ==
    observer.valid /\ observer.fresh /\ session.resume /\ session.on /\ work_allowed

KeptStore ==
    /\ At("inspected")
    /\ session' =
          IF observer.found = "none" THEN session
          ELSE [session EXCEPT !.kept = IF Resumes THEN "none" ELSE observer.found,
                    !.resume = @ /\ ~Resumes,
                    !.fallback = @ \/ (observer.wanted /\ observer.found = "refused")]
    /\ Leave
    /\ UNCHANGED <<mailbox, pair, slots, ledger, native, world, past>>

\* service_session_reset: owned entries are drained through the mailbox.
HoldDrain ==
    /\ At("hold")
    /\ IF Owned /\ world.managed
       THEN mailbox' = "disable" /\ Process("drained") /\ UNCHANGED pair
       ELSE /\ mailbox' = CancelledMail /\ pair' = CancelledPair
            /\ observer' = [observer EXCEPT !.at = "drained"]
    /\ UNCHANGED <<session, slots, ledger, native, world, past>>

HoldConfirm ==
    /\ At("drained")
    /\ mailbox' = CancelledMail /\ pair' = CancelledPair
    /\ LET done == Cancelled /\ empty(CancelledPair, CancelledMail) IN
       /\ observer' = [observer EXCEPT !.at = "confirmed", !.drained = done]
       /\ ClearIf(done)
    /\ UNCHANGED <<session, native, world, past>>

\* The pool is looked at only through a valid manager; then, under the mutex,
\* observe_empty on what was seen before.
HoldAcknowledge ==
    /\ At("confirmed")
    /\ LET looked == ledger.retired # {} /\ world.managed
           retired == IF looked THEN StillRetired ELSE ledger.retired
       IN /\ ledger' = [ledger EXCEPT !.retired = retired]
          /\ session' = [session EXCEPT !.retired =
                @ \/ (session.holding /\ retired = {} /\ observer.drained)]
    /\ Leave
    /\ UNCHANGED <<mailbox, pair, slots, native, world, past>>

\* The ordinary update first processes what is in the mailbox.  When the manager
\* cannot be inspected it consumes the start; a temporary failure leaves a disable
\* and is retried, a refused identity is not.
Inspect ==
    /\ At("normal")
    /\ IF world.managed
       THEN Process("processed") /\ UNCHANGED <<mailbox, session>>
       ELSE /\ Leave
            /\ \E temporary \in BOOLEAN :
                  /\ mailbox' = IF temporary THEN "disable" ELSE mailbox
                  /\ session' = IF observer.fresh
                        THEN [session EXCEPT !.start = FALSE, !.again = temporary /\ session.on]
                        ELSE session
    /\ UNCHANGED <<pair, slots, ledger, native, world, past>>

\* A failed or deferred scene is taken up again once nothing is owned.
Retried ==
    /\ session.again /\ ~session.start /\ observer.fresh /\ ~observer.wanted
    /\ empty(pair, mailbox) /\ ~pair.failed /\ work_allowed

\* A start creates when nothing is owned, no retired view is left, and the request
\* still stands under the mutex; a Stop or a reset has withdrawn it.
RequestCreation ==
    /\ At("processed")
    /\ LET wanted == (observer.wanted \/ Retried) /\ pair.shown = {}
           stands == (observer.fresh /\ session.start) \/ Retried
       IN /\ IF wanted /\ capacity /\ stands /\ work_allowed
             THEN /\ mailbox' = "enable"
                  /\ session' = [session EXCEPT !.start = FALSE, !.again = FALSE]
                  /\ observer' = [observer EXCEPT !.at = "created", !.step = "take"]
             ELSE /\ session' = [session EXCEPT !.start = @ \/ Retried,
                                                !.again = @ /\ ~Retried]
                  /\ observer' = [observer EXCEPT !.at = "shown"]
                  /\ UNCHANGED mailbox
          /\ ledger' = IF wanted THEN Observed ELSE ledger
    /\ UNCHANGED <<pair, slots, native, world, past>>

\* hold_changed_session: a pair that failed its validation is kept if the flight
\* changed meanwhile, and taken back otherwise.
Unvalidated ==
    \/ /\ session.holding \/ session.held
       /\ Leave /\ UNCHANGED <<mailbox, pair, session>>
    \/ /\ ~session.holding /\ ~session.held /\ SessionChanged
       /\ BeginFlightChange /\ Leave
    \/ /\ ~session.holding /\ ~session.held /\ ~SessionChanged
       /\ mailbox' = "disable" /\ Process("shown") /\ UNCHANGED <<pair, session>>

\* The gates of a new pair stay closed for an update.  A creation put off for a
\* retired view is cancelled here and tried again.
AfterCreation ==
    /\ At("created")
    /\ \/ /\ ~pair.active /\ observer.deferred
          /\ mailbox' = "disable"
          /\ session' = [session EXCEPT !.again = @ \/ (observer.fresh /\ session.on)]
          /\ observer' = [observer EXCEPT !.at = "deferred"]
          /\ UNCHANGED <<pair, slots, ledger>>
       \/ /\ ~pair.active /\ ~observer.deferred
          /\ Leave /\ ClearIf(pair.shown = {})
          /\ UNCHANGED <<mailbox, pair, session>>
       \/ /\ pair.active /\ ~observer.valid
          /\ Unvalidated /\ UNCHANGED <<slots, ledger>>
       \/ /\ pair.active /\ observer.valid
          /\ Leave /\ UNCHANGED <<mailbox, pair, session, slots, ledger>>
    /\ UNCHANGED <<native, world, past>>

CancelDeferred ==
    /\ At("deferred")
    /\ mailbox' = CancelledMail /\ pair' = CancelledPair
    /\ Leave /\ ClearIf(pair.shown = {})
    /\ UNCHANGED <<session, native, world, past>>

\* apply_gates of an active, ready pair: the desired ones open, the others close.
Show ==
    /\ At("shown")
    /\ Leave /\ ClearIf(pair.shown = {})
    /\ \/ UNCHANGED <<native, past>>
       \/ /\ pair.active /\ world.managed
          /\ \A id \in pair.shown : native.entry[id] \in {"open", "closed"}
          /\ \E desired \in SUBSET pair.shown :
                LET allowed == IF work_allowed THEN desired ELSE {} IN
                /\ native' = [native EXCEPT !.entry =
                      [id \in Ids |-> CASE id \in allowed -> "open"
                                       [] id \in pair.shown \ allowed -> "closed"
                                       [] OTHER -> native.entry[id]]]
                /\ past' = [past EXCEPT !.closed = @ \ allowed]
    /\ UNCHANGED <<mailbox, pair, session, world>>

\* An entry is gone, or a view, an output or the pose is refused.
ShowFails ==
    /\ At("shown") /\ pair.active /\ world.managed
    /\ IF \A id \in pair.shown : native.entry[id] \in Live THEN Trouble ELSE UNCHANGED past
    /\ Unvalidated
    /\ UNCHANGED <<slots, ledger, native, world>>

-----------------------------------------------------------------------------
(* The simulator and the flight.  What goes wrong is bounded, and passes. *)

SetupFinished(id) ==
    /\ native.entry[id] = "pending"
    /\ native' = [native EXCEPT !.entry = [native.entry EXCEPT ![id] = "open"]]
    /\ UNCHANGED <<mailbox, pair, observer, session, slots, ledger, world, past>>

ViewReleased(id) ==
    /\ id \in native.releasing
    /\ native' = [native EXCEPT !.releasing = @ \ {id}]
    /\ UNCHANGED <<mailbox, pair, observer, session, slots, ledger, world, past>>

\* The flight ends: its entries are gone without the erase callback.  A view the
\* bridge never saw ready is not in its books.
Teardown ==
    LET gone == {id \in Ids : native.entry[id] \in Live} IN
    /\ world.flight = "loading" /\ gone # {}
    /\ past.troubles < MaxTroubles
    /\ native' = [native EXCEPT !.entry =
                        [id \in Ids |-> IF id \in gone THEN "gone" ELSE native.entry[id]],
                                !.releasing = native.releasing \cup gone]
    /\ past' = [past EXCEPT !.troubles = @ + 1,
          !.dropped = @ \cup {id \in gone : \A f \in 1..Feeds : ledger.views[f] # id}]
    /\ UNCHANGED <<mailbox, pair, observer, session, slots, ledger, world>>

FlightBecomes(flight) ==
    /\ world' = [world EXCEPT !.flight = flight]
    /\ UNCHANGED <<mailbox, pair, observer, slots, ledger, native>>

Load == world.flight # "loading" /\ Trouble /\ FlightBecomes("loading") /\ UNCHANGED session

TelemetryLost == world.flight = "ready" /\ Trouble /\ FlightBecomes("unready") /\ UNCHANGED session

\* A loaded flight has a new epoch.
FlightReady ==
    /\ world.flight # "ready"
    /\ FlightBecomes("ready")
    /\ session' = [session EXCEPT !.current = @ /\ world.flight = "unready"]
    /\ UNCHANGED past

ManagerLost ==
    /\ world.managed /\ Trouble
    /\ world' = [world EXCEPT !.managed = FALSE]
    /\ UNCHANGED <<mailbox, pair, observer, session, slots, ledger, native>>

ManagerFound ==
    /\ ~world.managed
    /\ world' = [world EXCEPT !.managed = TRUE]
    /\ UNCHANGED <<mailbox, pair, observer, session, slots, ledger, native, past>>

-----------------------------------------------------------------------------
Request ==
    \/ request_scene_session_reset \/ request_scene_profile_transition
    \/ request_scene_test \/ request_scene_stop

ProcessUpdate ==
    \/ TakeMailbox \/ EraseCallback \/ CleanupDone
    \/ CreateRefused \/ CreateEntry \/ StoreEntry

ManagerUpdate ==
    \/ Update \/ ProcessUpdate
    \/ HoldDrain \/ HoldConfirm \/ HoldAcknowledge
    \/ KeptSettle \/ KeptInspect \/ KeptStore
    \/ Inspect \/ RequestCreation \/ AfterCreation \/ CancelDeferred \/ Show \/ ShowFails

Settles ==
    \/ FlightReady \/ ManagerFound
    \/ \E id \in Ids : SetupFinished(id) \/ ViewReleased(id)

Next == Request \/ ManagerUpdate \/ Settles \/ Teardown \/ Load \/ TelemetryLost \/ ManagerLost

\* The simulator calls the observer on every manager update.  It finishes what it
\* sets up and releases, loads end, and telemetry and manager come back.
Fairness ==
    /\ WF_vars(ManagerUpdate)
    /\ WF_vars(FlightReady) /\ WF_vars(ManagerFound)
    /\ \A id \in Ids : WF_vars(SetupFinished(id)) /\ WF_vars(ViewReleased(id))

Spec == Init /\ [][Next]_vars
FairSpec == Spec /\ Fairness

-----------------------------------------------------------------------------
(* Properties. *)

TypeOK ==
    /\ mailbox \in {"none", "enable", "disable"}
    /\ pair \in [ids : SUBSET Ids, enabled : BOOLEAN, pending : BOOLEAN, active : BOOLEAN,
                 failed : BOOLEAN, shown : SUBSET Ids, shownPending : BOOLEAN]
    /\ Cardinality(pair.ids) <= Feeds
    /\ observer \in [at : {"between", "hold", "drained", "confirmed", "kept", "inspected",
                           "normal", "processed", "created", "deferred", "shown"},
                     step : {"none", "take", "erase", "create", "store"},
                     todo : SUBSET Ids, made : 0..Feeds, valid : BOOLEAN, wanted : BOOLEAN,
                     fresh : BOOLEAN, deferred : BOOLEAN, drained : BOOLEAN,
                     found : {"none", "wait", "ready", "refused"}]
    /\ session \in [holding : BOOLEAN, retired : BOOLEAN, start : BOOLEAN, on : BOOLEAN,
                    again : BOOLEAN, current : BOOLEAN, enabled : BOOLEAN,
                    kept : {"none", "awaiting", "wait", "ready", "refused"},
                    held : BOOLEAN, resume : BOOLEAN, fallback : BOOLEAN]
    /\ slots \in [Ids -> {"none", "this", "earlier"}]
    /\ Cardinality({id \in Ids : slots[id] # "none"}) <= Slots
    /\ ledger \in [retired : SUBSET Ids, views : [1..Feeds -> 0..MaxIds]]
    /\ native \in [entry : [Ids -> {"none", "pending", "open", "closed", "erased", "gone"}],
                   last : 0..MaxIds, releasing : SUBSET Ids]
    /\ world \in [flight : {"ready", "unready", "loading"}, managed : BOOLEAN]
    /\ past \in [closed : SUBSET Ids, dropped : SUBSET Ids, requests : 0..MaxRequests,
                 troubles : 0..MaxTroubles]

\* "A complete ready chain and a closed gate must be observed on distinct manager
\* updates before calling native removal": an entry erased by the bridge is closed,
\* and was closed before this update began.
ErasedClosed ==
    [][\A id \in Ids :
        native.entry[id] # "erased" /\ native'.entry[id] = "erased"
            => native.entry[id] = "closed" /\ id \in past.closed]_vars

\* "A telemetry sample can become valid again before old native camera ownership has
\* drained": a start that ends a reset finds no entry of the bridge alive, not even
\* one whose creation was under way, and no view that the bridge knows of unreleased.
ResetMeansEmpty ==
    [][session.holding /\ ~session'.holding =>
        /\ \A id \in Ids : native.entry[id] \notin Live
        /\ native.releasing \subseteq past.dropped]_vars

\* "Once the bridge has resumed the kept pair": whoever asks, stops or loads a flight
\* while the pair is inspected without the lock, a pair resumes with its entries alive,
\* every gate closed, and for the flight that is loaded.
ResumesClosed ==
    [][session.kept # "none" /\ session'.kept = "none" /\ pair.shown # {} /\ ~session'.holding
        => /\ \A id \in pair.shown : native.entry[id] = "closed"
           /\ session.current /\ world.flight = "ready"]_vars

\* Every reset ends: whatever it interrupted, the entries are closed, erased two
\* updates later and their views released, however few slots there are.
RetirementEnds == session.holding ~> (session.retired \/ ~session.holding)
=============================================================================

---------------------------- MODULE SceneHandoff ----------------------------
(***************************************************************************)
(* src/src/graphics/scene_handoff.{hpp,cpp}: the CPU identity table that   *)
(* ties the camera outputs the native observer inspected to the resources  *)
(* the graphics callbacks see.  Every method runs under one mutex, so each *)
(* is one action, except that an inspection (begin_capture ... publish)    *)
(* and a copy callback (hint, then match) span several of them.            *)
(*                                                                         *)
(* The object is the record `hs`; the helpers that the methods call one    *)
(* after the other under the mutex are functions of that record.           *)
(***************************************************************************)
EXTENDS Naturals, FiniteSets

CONSTANTS
  Devices,       \* device keys
  Handles,       \* native resource addresses; an address is reused freely
  RegistryIds,   \* ids the graphics registry gives to resources
  Managers,      \* engine managers: identity and generation together
  EntryIds,      \* camera entry ids
  NumFeeds,      \* SceneFeeds
  MaxDevices,    \* maximum_devices
  MaxResources,  \* maximum_resources_per_device
  MaxCounter,    \* the largest std::uint64_t, where advance() gives up; a bound
                 \* of its own for each counter
  Graphs,        \* what an inspection of the engine's owned set can read
  Observers,     \* threads that inspect and publish
  Recorders,     \* graphics callbacks that match copies
  Null           \* zero key, handle, id or manager

Feed == 0 .. NumFeeds - 1

Graph == [manager : Managers \union {Null},
          ids     : [Feed -> EntryIds \union {Null}],
          handles : [Feed -> Handles \union {Null}]]

Counters == {"device_counter", "resource_counter", "lifecycle_epoch",
             "scene_epoch", "capture_sequence"}

ASSUME FeedsAssumption == NumFeeds \in Nat /\ NumFeeds >= 2
ASSUME BoundsAssumption ==
  /\ MaxDevices \in Nat /\ MaxResources \in Nat
  /\ MaxCounter \in [Counters -> Nat \ {0}]
ASSUME NullAssumption ==
  Null \notin Devices \union Handles \union RegistryIds \union Managers \union EntryIds
ASSUME GraphsAssumption == Graphs \subseteq Graph

VARIABLES
  hs,        \* the SceneHandoff object
  pc,        \* Observers: "idle", "open" (ticket taken), "read" (graph read)
  ticket,    \* Observers: the SceneCaptureTicket in hand
  graph,     \* Observers: what its inspection read
  copy,      \* Recorders: the callback's device, handle and held match
  dead,      \* history: Recorders: the incarnation it copied from has ended
  seen,      \* history: Observers: the identities behind the handles it read
  witness    \* history: `seen` of the inspection that last published

vars == <<hs, pc, ticket, graph, copy, dead, seen, witness>>
engine == <<pc, ticket, graph, seen, witness>>

(***************************************************************************)
(* Values.                                                                 *)
(***************************************************************************)
Identity == [epoch : Nat, id : RegistryIds \union {Null}, generation : Nat]
NoIdentity == [epoch |-> 0, id |-> Null, generation |-> 0]

\* An unordered_map entry; generation 0 stands for an absent key.
Resource == [id : RegistryIds \union {Null}, generation : Nat]
NoResource == [id |-> Null, generation |-> 0]
NoResources == [h \in Handles |-> NoResource]

Ticket == [scene : Nat, lifecycle : Nat, sequence : Nat]
NoTicket == [scene |-> 0, lifecycle |-> 0, sequence |-> 0]

Match == [matched : BOOLEAN, feed : Feed, scene : Nat, sequence : Nat,
          manager : Managers \union {Null}, entry : EntryIds \union {Null},
          resource : Identity]
NoMatch == [matched |-> FALSE, feed |-> 0, scene |-> 0, sequence |-> 0,
            manager |-> Null, entry |-> Null, resource |-> NoIdentity]

NoGraph == [manager |-> Null, ids |-> [f \in Feed |-> Null],
            handles |-> [f \in Feed |-> Null]]

Publication == [valid : BOOLEAN, scene : Nat, sequence : Nat,
                device : Devices \union {Null}, graph : Graph,
                resources : [Feed -> Identity]]
NoPublication == [valid |-> FALSE, scene |-> 0, sequence |-> 0,
                  device |-> Null, graph |-> NoGraph,
                  resources |-> [f \in Feed |-> NoIdentity]]

Unseen == [f \in Feed |-> {}]

NoHandles == [f \in Feed |-> Null]
NoIds == [f \in Feed |-> Null]

Handoff == [epoch            : [Devices -> Nat],        \* 0: the slot is free
            resources        : [Devices -> [Handles -> Resource]],
            device_counter   : 0 .. MaxCounter["device_counter"],
            resource_counter : 0 .. MaxCounter["resource_counter"],
            lifecycle_epoch  : 1 .. MaxCounter["lifecycle_epoch"],
            scene_epoch      : 0 .. MaxCounter["scene_epoch"],
            capture_sequence : 0 .. MaxCounter["capture_sequence"],
            exhausted        : BOOLEAN,
            active           : BOOLEAN,
            owner_bound      : BOOLEAN,
            owner            : Managers \union {Null},
            owned_ids        : [Feed -> EntryIds \union {Null}],
            publication      : Publication,
            candidate        : [Feed -> Handles \union {Null}],
            observed         : [Feed -> Handles \union {Null}]]

(***************************************************************************)
(* Private helpers.                                                        *)
(***************************************************************************)
Clear(s) == [s EXCEPT !.publication = NoPublication,
                      !.candidate = NoHandles, !.observed = NoHandles]

CanAdvance(s, counter) == ~s.exhausted /\ s[counter] < MaxCounter[counter]

\* Seeded fault: the counter wraps past its width instead of giving up.
FaultAdvanceUnchecked(s, counter) == [s EXCEPT ![counter] = @ + 1]

advance(s, counter) ==
  IF CanAdvance(s, counter)
  THEN [s EXCEPT ![counter] = @ + 1]
  ELSE [Clear(s) EXCEPT !.exhausted = TRUE, !.active = FALSE]

observed_feed(s, h) == {f \in Feed : h # Null /\ s.observed[f] = h}

\* Seeded fault: a published handle's own event is taken for unrelated churn.
FaultLifecycleIgnoresTarget(s, changed) ==
  advance(IF changed = Null THEN Clear(s) ELSE s, "lifecycle_epoch")

lifecycle_event(s, changed) ==
  advance(IF changed = Null \/ observed_feed(s, changed) # {} THEN Clear(s) ELSE s,
          "lifecycle_epoch")

Registered(s) == {d \in Devices : s.epoch[d] # 0}

IdentityOf(s, d, h) == [epoch |-> s.epoch[d], id |-> s.resources[d][h].id,
                        generation |-> s.resources[d][h].generation]

\* The devices on which a native address is registered.
Holders(s, h) == {d \in Devices : /\ s.epoch[d] # 0
                                  /\ h # Null
                                  /\ s.resources[d][h].generation # 0}

\* match(): the caller holds the mutex.
MatchingFeeds(s, d, h) ==
  {f \in Feed : /\ h # Null /\ d # Null
                /\ s.active /\ ~s.exhausted /\ s.publication.valid
                /\ s.publication.scene = s.scene_epoch
                /\ s.publication.device = d
                /\ s.epoch[d] # 0
                /\ s.resources[d][h].generation # 0
                /\ s.publication.graph.handles[f] = h
                /\ s.publication.resources[f] = IdentityOf(s, d, h)}

match(s, d, h) ==
  LET feeds == MatchingFeeds(s, d, h)
      f == CHOOSE x \in feeds : TRUE   \* published handles are distinct
  IN IF feeds = {} THEN NoMatch
     ELSE [matched |-> TRUE, feed |-> f, scene |-> s.scene_epoch,
           sequence |-> s.publication.sequence,
           manager |-> s.publication.graph.manager,
           entry |-> s.publication.graph.ids[f],
           resource |-> IdentityOf(s, d, h)]

may_match_resource(s, h) == h # Null /\ \E f \in Feed : s.candidate[f] = h

\* Seeded fault: only the entry is compared, not the resource incarnation.
FaultCurrentByEntry(s, m) ==
  /\ m.matched /\ s.active /\ s.publication.valid
  /\ m.scene = s.scene_epoch
  /\ m.entry = s.publication.graph.ids[m.feed]

is_current(s, m) ==
  /\ m.matched
  /\ s.publication.valid
  /\ s.publication.graph.handles[m.feed] # Null
  /\ LET now == match(s, s.publication.device, s.publication.graph.handles[m.feed])
     IN /\ now.matched
        /\ m.scene = now.scene /\ m.manager = now.manager
        /\ m.entry = now.entry /\ m.resource = now.resource
        /\ m.sequence # 0 /\ m.sequence <= now.sequence

(***************************************************************************)
(* Device and resource lifecycle callbacks.                                *)
(***************************************************************************)
\* History only: the held matches whose incarnation is one of these are dead.
End(identities) ==
  dead' = [r \in Recorders |-> dead[r] \/ (copy[r].match.matched /\ copy[r].match.resource \in identities)]

Ended(s, d) == {IdentityOf(s, d, h) : h \in {x \in Handles : s.resources[d][x].generation # 0}}
EndedAt(s, d, h) == IF s.resources[d][h].generation # 0 THEN {IdentityOf(s, d, h)} ELSE {}

register_device(d) ==
  LET s == lifecycle_event(hs, Null)
      free == d \in Registered(s) \/ Cardinality(Registered(s)) < MaxDevices
      t == advance(s, "device_counter")
  IN /\ IF s.exhausted \/ ~free THEN hs' = s /\ UNCHANGED dead
        ELSE IF t.exhausted THEN hs' = t /\ UNCHANGED dead
        ELSE /\ hs' = [t EXCEPT !.resources[d] = NoResources,
                                !.epoch[d] = t.device_counter]
             /\ End(Ended(hs, d))
     /\ UNCHANGED <<engine, copy>>

unregister_device(d) ==
  /\ hs' = [lifecycle_event(hs, Null) EXCEPT !.resources[d] = NoResources, !.epoch[d] = 0]
  /\ End(Ended(hs, d))
  /\ UNCHANGED <<engine, copy>>

Registrations(s, d) == {h \in Handles : s.resources[d][h].generation # 0}

\* id = Null is the registry's zero id; bad_alloc: insert_or_assign ran out of
\* memory.  Both drop the previous incarnation at this address.
register_resource(d, h, id, bad_alloc) ==
  LET s == lifecycle_event(hs, h)
      known == d \in Registered(s) /\ h # Null
      room == h \in Registrations(s, d) \/ Cardinality(Registrations(s, d)) < MaxResources
      t == advance(s, "resource_counter")
  IN /\ \/ /\ s.exhausted \/ ~known
           /\ hs' = s /\ UNCHANGED dead
        \/ /\ ~s.exhausted /\ known /\ id = Null
           /\ hs' = [s EXCEPT !.resources[d][h] = NoResource]
           /\ End(EndedAt(hs, d, h))
        \/ /\ ~s.exhausted /\ known /\ id # Null /\ (~room \/ t.exhausted)
           /\ hs' = IF room THEN t ELSE s
           /\ UNCHANGED dead
        \/ /\ ~s.exhausted /\ known /\ id # Null /\ room /\ ~t.exhausted
           /\ hs' = [t EXCEPT !.resources[d][h] =
                       IF bad_alloc THEN NoResource
                       ELSE [id |-> id, generation |-> t.resource_counter]]
           /\ End(EndedAt(hs, d, h))
     /\ UNCHANGED <<engine, copy>>

\* Also try_unregister_resource once its bounded lock was taken; a lock that
\* timed out changes nothing and the caller retries.
unregister_resource(d, h) ==
  LET s == lifecycle_event(hs, h)
      known == d \in Registered(s)
  IN /\ hs' = IF known THEN [s EXCEPT !.resources[d][h] = NoResource] ELSE s
     /\ End(IF known THEN EndedAt(hs, d, h) ELSE {})
     /\ UNCHANGED <<engine, copy>>

(***************************************************************************)
(* Scene start and stop.                                                   *)
(***************************************************************************)
begin_scene ==
  LET s == [Clear(hs) EXCEPT !.owner_bound = FALSE, !.owner = Null, !.owned_ids = NoIds]
      t == advance(s, "scene_epoch")
  IN /\ hs' = [t EXCEPT !.active = CanAdvance(s, "scene_epoch")]
     /\ UNCHANGED <<engine, copy, dead>>

stop_scene ==
  /\ hs' = advance([Clear(hs) EXCEPT !.active = FALSE, !.owner_bound = FALSE], "scene_epoch")
  /\ UNCHANGED <<engine, copy, dead>>

(***************************************************************************)
(* An inspection: a ticket, then the engine is read without the mutex,     *)
(* then publish() decides with the ticket.                                 *)
(***************************************************************************)
begin_capture(o) ==
  LET t == advance(hs, "capture_sequence")
  IN /\ pc[o] = "idle"
     /\ hs.active
     /\ hs' = t
     /\ pc' = [pc EXCEPT ![o] = IF t.exhausted THEN "idle" ELSE "open"]
     /\ ticket' = [ticket EXCEPT ![o] =
                     IF t.exhausted THEN NoTicket
                     ELSE [scene |-> t.scene_epoch, lifecycle |-> t.lifecycle_epoch,
                           sequence |-> t.capture_sequence]]
     /\ UNCHANGED <<graph, copy, dead, seen, witness>>

Inspect(o, g) ==
  /\ pc[o] = "open"
  /\ pc' = [pc EXCEPT ![o] = "read"]
  /\ graph' = [graph EXCEPT ![o] = g]
  /\ seen' = [seen EXCEPT ![o] =
                [f \in Feed |-> {IdentityOf(hs, d, g.handles[f]) : d \in Holders(hs, g.handles[f])}]]
  /\ UNCHANGED <<hs, ticket, copy, dead, witness>>

\* A failed inspection: the ticket is dropped; the caller stops the scene.
Abandon(o) ==
  /\ pc[o] # "idle"
  /\ pc' = [pc EXCEPT ![o] = "idle"]
  /\ ticket' = [ticket EXCEPT ![o] = NoTicket]
  /\ graph' = [graph EXCEPT ![o] = NoGraph]
  /\ seen' = [seen EXCEPT ![o] = Unseen]
  /\ UNCHANGED <<hs, copy, dead, witness>>

\* Seeded fault: resource churn since the ticket was taken is not noticed.
FaultTicketIgnoresLifecycle(s, t) ==
  /\ s.active /\ ~s.exhausted /\ t.scene = s.scene_epoch
  /\ t.sequence # 0 /\ t.sequence = s.capture_sequence

\* Seeded fault: an older concurrent inspection may still complete.
FaultTicketIgnoresNewer(s, t) ==
  /\ s.active /\ ~s.exhausted /\ t.scene = s.scene_epoch
  /\ t.lifecycle = s.lifecycle_epoch /\ t.sequence # 0

\* publish()'s first test: only the newest ticket, in an unchanged world.
TicketCurrent(s, t) ==
  /\ s.active /\ ~s.exhausted
  /\ t.scene = s.scene_epoch
  /\ t.lifecycle = s.lifecycle_epoch
  /\ t.sequence # 0
  /\ t.sequence = s.capture_sequence
  /\ ~(s.publication.valid /\ s.publication.sequence = t.sequence)

\* Ordered nonzero ids and handles; an optional feed has both or neither.
WellFormed(g) ==
  /\ g.manager # Null
  /\ \A f \in Feed : (g.ids[f] = Null) <=> (g.handles[f] = Null)
  /\ \A f \in {0, 1} : g.ids[f] # Null
  /\ \A e, f \in Feed : e # f /\ g.ids[e] # Null =>
        g.ids[e] # g.ids[f] /\ g.handles[e] # g.handles[f]

\* Every handle is registered on exactly one device, the same for all feeds.
Resolvable(s, g) ==
  \E d \in Devices : \A f \in Feed : g.handles[f] # Null => Holders(s, g.handles[f]) = {d}

OwnerChanged(s, g) == s.owner_bound /\ (s.owner # g.manager \/ s.owned_ids # g.ids)

RefuseLatest(s) == [s EXCEPT !.publication = NoPublication, !.candidate = NoHandles]

Publish(s, t, g) ==
  LET d == CHOOSE x \in Devices : \A f \in Feed : g.handles[f] # Null => Holders(s, g.handles[f]) = {x}
  IN [s EXCEPT
        !.owner_bound = TRUE, !.owner = g.manager, !.owned_ids = g.ids,
        !.publication = [valid |-> TRUE, scene |-> s.scene_epoch, sequence |-> t.sequence,
                         device |-> d, graph |-> g,
                         resources |-> [f \in Feed |-> IF g.handles[f] = Null THEN NoIdentity
                                                       ELSE IdentityOf(s, d, g.handles[f])]],
        !.candidate = g.handles, !.observed = g.handles]

publish(o) ==
  LET g == graph[o] IN
  /\ pc[o] = "read"
  /\ pc' = [pc EXCEPT ![o] = "idle"]
  /\ ticket' = [ticket EXCEPT ![o] = NoTicket]
  /\ graph' = [graph EXCEPT ![o] = NoGraph]
  /\ seen' = [seen EXCEPT ![o] = Unseen]
  /\ \/ /\ ~TicketCurrent(hs, ticket[o])
        /\ UNCHANGED <<hs, witness>>
     \/ /\ TicketCurrent(hs, ticket[o])
        /\ ~WellFormed(g)
        /\ hs' = RefuseLatest(hs) /\ UNCHANGED witness
     \/ /\ TicketCurrent(hs, ticket[o])
        /\ WellFormed(g) /\ OwnerChanged(hs, g)
        /\ hs' = RefuseLatest(advance([Clear(hs) EXCEPT !.active = FALSE], "scene_epoch"))
        /\ UNCHANGED witness
     \/ /\ TicketCurrent(hs, ticket[o])
        /\ WellFormed(g) /\ ~OwnerChanged(hs, g) /\ ~Resolvable(hs, g)
        /\ hs' = RefuseLatest(hs) /\ UNCHANGED witness
     \/ /\ TicketCurrent(hs, ticket[o])
        /\ WellFormed(g) /\ ~OwnerChanged(hs, g) /\ Resolvable(hs, g)
        /\ hs' = Publish(hs, ticket[o], g)
        /\ witness' = seen[o]
  /\ UNCHANGED <<copy, dead>>

(***************************************************************************)
(* observe_copy(): the atomic hint first, then the authoritative match     *)
(* under the mutex.  A match is a value the recorder keeps and checks      *)
(* again with is_current() when its GPU capture has completed.             *)
(***************************************************************************)
ObserveHint(r, d, h) ==
  /\ copy[r].pc = "idle"
  /\ may_match_resource(hs, h)
  /\ copy' = [copy EXCEPT ![r] = [pc |-> "hinted", device |-> d, handle |-> h, match |-> NoMatch]]
  /\ UNCHANGED <<hs, engine, dead>>

ObserveMatch(r) ==
  /\ copy[r].pc = "hinted"
  /\ LET m == match(hs, copy[r].device, copy[r].handle)
     IN copy' = [copy EXCEPT ![r] = [@ EXCEPT !.pc = IF m.matched THEN "held" ELSE "idle",
                                              !.device = Null, !.handle = Null, !.match = m]]
  /\ dead' = [dead EXCEPT ![r] = FALSE]
  /\ UNCHANGED <<hs, engine>>

Drop(r) ==
  /\ copy[r].pc = "held"
  /\ copy' = [copy EXCEPT ![r] = [pc |-> "idle", device |-> Null, handle |-> Null, match |-> NoMatch]]
  /\ dead' = [dead EXCEPT ![r] = FALSE]
  /\ UNCHANGED <<hs, engine>>

(***************************************************************************)
(* Specification.                                                          *)
(***************************************************************************)
Init ==
  /\ hs = [epoch |-> [d \in Devices |-> 0],
           resources |-> [d \in Devices |-> NoResources],
           device_counter |-> 0, resource_counter |-> 0, lifecycle_epoch |-> 1,
           scene_epoch |-> 0, capture_sequence |-> 0,
           exhausted |-> FALSE, active |-> FALSE,
           owner_bound |-> FALSE, owner |-> Null, owned_ids |-> NoIds,
           publication |-> NoPublication, candidate |-> NoHandles, observed |-> NoHandles]
  /\ pc = [o \in Observers |-> "idle"]
  /\ ticket = [o \in Observers |-> NoTicket]
  /\ graph = [o \in Observers |-> NoGraph]
  /\ copy = [r \in Recorders |-> [pc |-> "idle", device |-> Null, handle |-> Null, match |-> NoMatch]]
  /\ dead = [r \in Recorders |-> FALSE]
  /\ seen = [o \in Observers |-> Unseen]
  /\ witness = Unseen

Lifecycle ==
  \/ \E d \in Devices : register_device(d) \/ unregister_device(d)
  \/ \E d \in Devices, h \in Handles, id \in RegistryIds \union {Null}, bad_alloc \in BOOLEAN :
       register_resource(d, h, id, bad_alloc)
  \/ \E d \in Devices, h \in Handles : unregister_resource(d, h)

Next ==
  \/ Lifecycle
  \/ begin_scene
  \/ stop_scene
  \/ \E o \in Observers : begin_capture(o) \/ Abandon(o) \/ publish(o)
  \/ \E o \in Observers, g \in Graphs : Inspect(o, g)
  \/ \E r \in Recorders, d \in Devices, h \in Handles : ObserveHint(r, d, h)
  \/ \E r \in Recorders : ObserveMatch(r) \/ Drop(r)

Spec == Init /\ [][Next]_vars

-----------------------------------------------------------------------------
(***************************************************************************)
(* Properties.                                                             *)
(***************************************************************************)

\* Every variable keeps its type; in particular no std::uint64_t counter
\* leaves its width (advance() refuses at the last value).
TypeOK ==
  /\ hs \in Handoff
  /\ pc \in [Observers -> {"idle", "open", "read"}]
  /\ ticket \in [Observers -> Ticket]
  /\ graph \in [Observers -> Graph]
  /\ copy \in [Recorders -> [pc : {"idle", "hinted", "held"},
                              device : Devices \union {Null},
                              handle : Handles \union {Null}, match : Match]]
  /\ dead \in [Recorders -> BOOLEAN]
  /\ seen \in [Observers -> [Feed -> SUBSET Identity]]
  /\ witness \in [Feed -> SUBSET Identity]

\* A valid publication always names registrations that still exist: whatever
\* lifecycle callback touches a published address (on any device) revokes the
\* publication in the same critical section, so match() never answers from a
\* stale table.
PublicationIsRegistered ==
  hs.publication.valid =>
    /\ hs.publication.device \in Registered(hs)
    /\ \A f \in Feed : hs.publication.graph.handles[f] # Null =>
         hs.publication.resources[f] =
           IdentityOf(hs, hs.publication.device, hs.publication.graph.handles[f])

\* No address reuse can revive an old capture: a match a recorder still holds
\* passes is_current() only while the very incarnation it copied from lives,
\* even if the same address was destroyed, created and published again.
CurrentMatchIsLive ==
  \A r \in Recorders :
    is_current(hs, copy[r].match) => ~dead[r]

\* What is published is what was inspected: the identities behind the
\* published handles are those that lived there when the engine was read,
\* although the inspection ran without the mutex.
PublishedAsInspected ==
  hs.publication.valid =>
    \A f \in Feed : hs.publication.graph.handles[f] # Null =>
      witness[f] = {hs.publication.resources[f]}

\* An inspection that read the engine while another, begun later, published.
Superseded(o) ==
  pc[o] = "read" /\ hs.publication.valid /\ ticket[o].sequence < hs.publication.sequence

\* Of two overlapping inspections the older neither replaces nor revokes what
\* the newer published: however the older one ends, and whatever it read, the
\* publication stays (publish() refuses its ticket before it looks at the
\* graph), and the published sequence only grows.
SequenceNeverRegresses ==
  [][/\ hs.publication.valid /\ hs'.publication.valid
          => hs'.publication.sequence >= hs.publication.sequence
     /\ \A o \in Observers :
          Superseded(o) /\ pc'[o] = "idle" => hs'.publication = hs.publication]_vars

\* The lock-free hint only rejects copies the authoritative match would also
\* reject, so no copy of a published output is ever missed.
HintNeverRejectsMatch ==
  \A d \in Devices, h \in Handles :
    match(hs, d, h).matched => may_match_resource(hs, h)
=============================================================================

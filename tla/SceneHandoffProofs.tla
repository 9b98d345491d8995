------------------------- MODULE SceneHandoffProofs -------------------------
(***************************************************************************)
(* For every number of devices, addresses, feeds, observers and recorders: *)
(* the handoff keeps its types; a valid publication names live             *)
(* registrations, those its inspection saw, and is covered by the          *)
(* lock-free hint; a held match outlives its incarnation in no state; and  *)
(* the published sequence never regresses.                                 *)
(***************************************************************************)
EXTENDS SceneHandoff, TLAPS

USE FeedsAssumption, BoundsAssumption, NullAssumption, GraphsAssumption

(***************************************************************************)
(* The helpers that run under the mutex keep the object's type.            *)
(***************************************************************************)

\* The empty values have the types of the fields they are stored in.
LEMMA EmptyTypes ==
  /\ NoIdentity \in Identity /\ NoResource \in Resource
  /\ NoResources \in [Handles -> Resource]
  /\ NoTicket \in Ticket /\ NoGraph \in Graph /\ NoMatch \in Match
  /\ NoPublication \in Publication
  /\ NoHandles \in [Feed -> Handles \union {Null}]
  /\ NoIds \in [Feed -> EntryIds \union {Null}]
  /\ Unseen \in [Feed -> SUBSET Identity]
<1>1. NoIdentity \in Identity
  BY DEF NoIdentity, Identity
<1>2. NoResource \in Resource /\ NoResources \in [Handles -> Resource]
  BY DEF NoResource, NoResources, Resource
<1>3. NoTicket \in Ticket /\ NoGraph \in Graph
  BY DEF NoTicket, Ticket, NoGraph, Graph
<1>4. NoMatch \in Match
  BY <1>1 DEF NoMatch, Match, Feed
<1>5. NoPublication \in Publication
  BY <1>1, <1>3 DEF NoPublication, Publication
<1>6. QED
  BY <1>1, <1>2, <1>3, <1>4, <1>5 DEF NoHandles, NoIds, Unseen

\* Revoking the publication keeps the type.
LEMMA ClearType == ASSUME NEW s \in Handoff PROVE Clear(s) \in Handoff
  BY EmptyTypes DEF Clear, Handoff

\* advance() keeps every counter within its width, for each of the counters.
LEMMA AdvanceType ==
  ASSUME NEW s \in Handoff, NEW c \in Counters
  PROVE  advance(s, c) \in Handoff
<1>1. CASE CanAdvance(s, c)
  <2>1. advance(s, c) = [s EXCEPT ![c] = @ + 1]
    BY <1>1 DEF advance
  <2>2. CASE c = "device_counter"
    BY <1>1, <2>1, <2>2, SMTT(20) DEF CanAdvance, Handoff, Counters
  <2>3. CASE c = "resource_counter"
    BY <1>1, <2>1, <2>3 DEF CanAdvance, Handoff, Counters
  <2>4. CASE c = "lifecycle_epoch"
    BY <1>1, <2>1, <2>4 DEF CanAdvance, Handoff, Counters
  <2>5. CASE c = "scene_epoch"
    BY <1>1, <2>1, <2>5 DEF CanAdvance, Handoff, Counters
  <2>6. CASE c = "capture_sequence"
    BY <1>1, <2>1, <2>6 DEF CanAdvance, Handoff, Counters
  <2>7. QED
    BY <2>2, <2>3, <2>4, <2>5, <2>6 DEF Counters
<1>2. CASE ~CanAdvance(s, c)
  <2>1. advance(s, c) = [Clear(s) EXCEPT !.exhausted = TRUE, !.active = FALSE]
    BY <1>2 DEF advance
  <2>2. QED
    BY <2>1, ClearType DEF Handoff
<1>3. QED
  BY <1>1, <1>2

\* A lifecycle event keeps the type.
LEMMA LifecycleType ==
  ASSUME NEW s \in Handoff, NEW h PROVE lifecycle_event(s, h) \in Handoff
  BY ClearType, AdvanceType DEF lifecycle_event, Counters

\* The identity registered at an address is an identity.
LEMMA IdentityType ==
  ASSUME NEW s \in Handoff, NEW d \in Devices, NEW h \in Handles
  PROVE  IdentityOf(s, d, h) \in Identity
  BY DEF IdentityOf, Identity, Handoff, Resource

\* match() answers with a match.
LEMMA MatchType ==
  ASSUME NEW s \in Handoff, NEW d \in Devices \union {Null}, NEW h \in Handles \union {Null}
  PROVE  match(s, d, h) \in Match
<1>1. CASE MatchingFeeds(s, d, h) = {}
  BY <1>1, EmptyTypes DEF match
<1>2. CASE MatchingFeeds(s, d, h) # {}
  <2> DEFINE f == CHOOSE x \in MatchingFeeds(s, d, h) : TRUE
  <2>1. f \in Feed /\ d \in Devices /\ h \in Handles
    BY <1>2 DEF MatchingFeeds
  <2>2. IdentityOf(s, d, h) \in Identity
    BY <2>1, IdentityType
  <2>3. match(s, d, h) =
          [matched |-> TRUE, feed |-> f, scene |-> s.scene_epoch,
           sequence |-> s.publication.sequence,
           manager |-> s.publication.graph.manager,
           entry |-> s.publication.graph.ids[f],
           resource |-> IdentityOf(s, d, h)]
    BY <1>2 DEF match
  <2>4. /\ s.scene_epoch \in Nat /\ s.publication.sequence \in Nat
        /\ s.publication.graph.manager \in Managers \union {Null}
        /\ s.publication.graph.ids[f] \in EntryIds \union {Null}
    BY <2>1 DEF Handoff, Publication, Graph
  <2> HIDE DEF f
  <2>5. QED
    BY <2>1, <2>2, <2>3, <2>4 DEF Match
<1>3. QED
  BY <1>1, <1>2
(***************************************************************************)
(* Type correctness.                                                       *)
(***************************************************************************)

\* The part of TypeOK that is not the object itself.
RestTypeOK ==
  /\ pc \in [Observers -> {"idle", "open", "read"}]
  /\ ticket \in [Observers -> Ticket]
  /\ graph \in [Observers -> Graph]
  /\ copy \in [Recorders -> [pc : {"idle", "hinted", "held"},
                              device : Devices \union {Null},
                              handle : Handles \union {Null}, match : Match]]
  /\ dead \in [Recorders -> BOOLEAN]
  /\ seen \in [Observers -> [Feed -> SUBSET Identity]]
  /\ witness \in [Feed -> SUBSET Identity]

\* Publishing a resolvable graph stores identities of registered resources.
LEMMA PublishType ==
  ASSUME NEW s \in Handoff, NEW t \in Ticket, NEW g \in Graph, Resolvable(s, g)
  PROVE  Publish(s, t, g) \in Handoff
<1> DEFINE d == CHOOSE x \in Devices : \A f \in Feed : g.handles[f] # Null => Holders(s, g.handles[f]) = {x}
           r == [f \in Feed |-> IF g.handles[f] = Null THEN NoIdentity ELSE IdentityOf(s, d, g.handles[f])]
           p == [valid |-> TRUE, scene |-> s.scene_epoch, sequence |-> t.sequence,
                 device |-> d, graph |-> g, resources |-> r]
<1>1. d \in Devices
  BY DEF Resolvable
<1>2. r \in [Feed -> Identity]
  <2> SUFFICES ASSUME NEW f \in Feed
               PROVE  (IF g.handles[f] = Null THEN NoIdentity ELSE IdentityOf(s, d, g.handles[f])) \in Identity
    OBVIOUS
  <2>1. g.handles[f] \in Handles \union {Null}
    BY DEF Graph
  <2> HIDE DEF d
  <2>2. QED
    BY <1>1, <2>1, IdentityType, EmptyTypes
<1>3. s.scene_epoch \in Nat /\ t.sequence \in Nat
  BY DEF Handoff, Ticket
<1>4. p \in Publication
  <2> HIDE DEF d, r
  <2>1. QED
    BY <1>1, <1>2, <1>3 DEF Publication
<1>5. Publish(s, t, g) = [s EXCEPT !.owner_bound = TRUE, !.owner = g.manager, !.owned_ids = g.ids,
                                   !.publication = p, !.candidate = g.handles, !.observed = g.handles]
  BY DEF Publish
<1> HIDE DEF p
<1>6. g.manager \in Managers \union {Null} /\ g.ids \in [Feed -> EntryIds \union {Null}]
      /\ g.handles \in [Feed -> Handles \union {Null}]
  BY DEF Graph
<1>7. [s EXCEPT !.owner_bound = TRUE, !.owner = g.manager, !.owned_ids = g.ids] \in Handoff
  BY <1>6 DEF Handoff
<1>8. QED
  <2> DEFINE u == [s EXCEPT !.owner_bound = TRUE, !.owner = g.manager, !.owned_ids = g.ids]
  <2>1. Publish(s, t, g) = [u EXCEPT !.publication = p, !.candidate = g.handles, !.observed = g.handles]
    BY <1>5
  <2> HIDE DEF u
  <2>2. u \in Handoff
    BY <1>7 DEF u
  <2>3. QED
    BY <1>4, <1>6, <2>1, <2>2 DEF Handoff

\* Withdrawing the latest publication keeps the type.
LEMMA RefuseType == ASSUME NEW s \in Handoff PROVE RefuseLatest(s) \in Handoff
  BY EmptyTypes DEF RefuseLatest, Handoff

\* Replacing one registration, or all those of a device, keeps the type.
LEMMA RegisterType ==
  ASSUME NEW s \in Handoff, NEW d \in Devices, NEW h \in Handles, NEW n \in Resource
  PROVE  [s EXCEPT !.resources[d][h] = n] \in Handoff
  BY DEF Handoff

LEMMA DeviceType ==
  ASSUME NEW s \in Handoff, NEW d \in Devices, NEW e \in Nat
  PROVE  [s EXCEPT !.resources[d] = NoResources, !.epoch[d] = e] \in Handoff
<1>1. NoResources \in [Handles -> Resource]
  BY EmptyTypes
<1>2. QED
  BY <1>1 DEF Handoff

\* The lifecycle callbacks keep the type of the object.
LEMMA LifecycleStepType ==
  ASSUME hs \in Handoff, Lifecycle PROVE hs' \in Handoff
<1> DEFINE s(h) == lifecycle_event(hs, h)
<1>0. \A h : s(h) \in Handoff
  BY LifecycleType
<1>1. ASSUME NEW d \in Devices, register_device(d) PROVE hs' \in Handoff
  <2> DEFINE t == advance(s(Null), "device_counter")
  <2>1. t \in Handoff
    BY <1>0, AdvanceType DEF Counters
  <2>2. hs' \in {s(Null), t, [t EXCEPT !.resources[d] = NoResources, !.epoch[d] = t.device_counter]}
    BY <1>1 DEF register_device
  <2> HIDE DEF t, s
  <2>3. [t EXCEPT !.resources[d] = NoResources, !.epoch[d] = t.device_counter] \in Handoff
    <3>1. t.device_counter \in Nat
      BY <2>1 DEF Handoff
    <3>2. QED
      BY <2>1, <3>1, DeviceType
  <2>4. QED
    BY <1>0, <2>1, <2>2, <2>3
<1>2. ASSUME NEW d \in Devices, unregister_device(d) PROVE hs' \in Handoff
  <2>1. hs' = [s(Null) EXCEPT !.resources[d] = NoResources, !.epoch[d] = 0]
    BY <1>2 DEF unregister_device
  <2> HIDE DEF s
  <2>2. QED
    BY <1>0, <2>1, DeviceType
<1>3. ASSUME NEW d \in Devices, NEW h \in Handles, NEW id \in RegistryIds \union {Null},
             NEW bad_alloc \in BOOLEAN, register_resource(d, h, id, bad_alloc)
      PROVE  hs' \in Handoff
  <2> DEFINE t == advance(s(h), "resource_counter")
             n == IF bad_alloc THEN NoResource ELSE [id |-> id, generation |-> t.resource_counter]
  <2>1. t \in Handoff
    BY <1>0, AdvanceType DEF Counters
  <2>2. hs' \in {s(h), t, [s(h) EXCEPT !.resources[d][h] = NoResource], [t EXCEPT !.resources[d][h] = n]}
    BY <1>3 DEF register_resource
  <2>3. n \in Resource
    <3>1. t.resource_counter \in Nat
      BY <2>1 DEF Handoff
    <3>2. QED
      BY <3>1, EmptyTypes DEF Resource
  <2> HIDE DEF t, s, n
  <2>4. [s(h) EXCEPT !.resources[d][h] = NoResource] \in Handoff
    <3>1. s(h) \in Handoff
      BY <1>0
    <3>2. QED
      BY <3>1, RegisterType, EmptyTypes
  <2>5. [t EXCEPT !.resources[d][h] = n] \in Handoff
    BY <2>1, <2>3, RegisterType
  <2>6. QED
    BY <1>0, <2>1, <2>2, <2>4, <2>5
<1>4. ASSUME NEW d \in Devices, NEW h \in Handles, unregister_resource(d, h) PROVE hs' \in Handoff
  <2>1. hs' \in {s(h), [s(h) EXCEPT !.resources[d][h] = NoResource]}
    BY <1>4 DEF unregister_resource
  <2> HIDE DEF s
  <2>2. [s(h) EXCEPT !.resources[d][h] = NoResource] \in Handoff
    <3>1. s(h) \in Handoff
      BY <1>0
    <3>2. QED
      BY <3>1, RegisterType, EmptyTypes
  <2>3. QED
    BY <1>0, <2>1, <2>2
<1>5. QED
  BY <1>1, <1>2, <1>3, <1>4 DEF Lifecycle

\* Every step keeps the type of the object.
LEMMA StepType ==
  ASSUME TypeOK, Next PROVE hs' \in Handoff
<1>0. hs \in Handoff
  BY DEF TypeOK
<1>1. CASE Lifecycle
  BY <1>0, <1>1, LifecycleStepType
<1>2. CASE begin_scene
  <2> DEFINE s == [Clear(hs) EXCEPT !.owner_bound = FALSE, !.owner = Null, !.owned_ids = NoIds]
             t == advance(s, "scene_epoch")
  <2>0. Clear(hs) \in Handoff
    BY <1>0, ClearType
  <2>1. s \in Handoff
    BY <2>0, EmptyTypes DEF Handoff
  <2>2. t \in Handoff
    <3> HIDE DEF s
    <3>1. QED BY <2>1, AdvanceType DEF Counters
  <2>3. hs' = [t EXCEPT !.active = CanAdvance(s, "scene_epoch")]
    BY <1>2 DEF begin_scene
  <2>4. CanAdvance(s, "scene_epoch") \in BOOLEAN
    BY DEF CanAdvance
  <2> HIDE DEF s, t
  <2>5. QED
    BY <2>2, <2>3, <2>4 DEF Handoff
<1>3. CASE stop_scene
  <2> DEFINE s == [Clear(hs) EXCEPT !.active = FALSE, !.owner_bound = FALSE]
  <2>0. Clear(hs) \in Handoff
    BY <1>0, ClearType
  <2>1. s \in Handoff
    BY <2>0 DEF Handoff
  <2>2. hs' = advance(s, "scene_epoch")
    BY <1>3 DEF stop_scene
  <2> HIDE DEF s
  <2>3. QED
    BY <2>1, <2>2, AdvanceType DEF Counters
<1>4. ASSUME NEW o \in Observers, begin_capture(o) PROVE hs' \in Handoff
  BY <1>0, <1>4, AdvanceType DEF begin_capture, Counters
<1>5. ASSUME NEW o \in Observers, publish(o) PROVE hs' \in Handoff
  <2>1. ticket[o] \in Ticket /\ graph[o] \in Graph
    BY DEF TypeOK
  <2> DEFINE e == [Clear(hs) EXCEPT !.active = FALSE]
  <2>0. Clear(hs) \in Handoff
    BY <1>0, ClearType
  <2>2. e \in Handoff
    BY <2>0 DEF Handoff
  <2>3. RefuseLatest(advance(e, "scene_epoch")) \in Handoff
    <3> HIDE DEF e
    <3>1. QED BY <2>2, AdvanceType, RefuseType DEF Counters
  <2>4. \/ hs' = hs
        \/ hs' = RefuseLatest(hs)
        \/ hs' = RefuseLatest(advance(e, "scene_epoch"))
        \/ Resolvable(hs, graph[o]) /\ hs' = Publish(hs, ticket[o], graph[o])
    BY <1>5 DEF publish
  <2> HIDE DEF e
  <2>5. QED
    BY <1>0, <2>1, <2>3, <2>4, RefuseType, PublishType
<1>6. QED
  BY <1>0, <1>1, <1>2, <1>3, <1>4, <1>5 DEF Next, Abandon, Inspect, ObserveHint, ObserveMatch, Drop
\* A callback's record, for the steps that replace it.
CopyType == [pc : {"idle", "hinted", "held"}, device : Devices \union {Null},
             handle : Handles \union {Null}, match : Match]

\* Ending incarnations keeps the type of the history variable.
LEMMA EndType == ASSUME NEW S, End(S) PROVE dead' \in [Recorders -> BOOLEAN]
  BY DEF End

\* Every step keeps the types of the threads' state.
LEMMA StepRestType ==
  ASSUME TypeOK, Next PROVE RestTypeOK'
<1> USE DEF RestTypeOK
<1>0. RestTypeOK /\ hs \in Handoff /\ hs' \in Handoff
  BY StepType DEF TypeOK
<1>1. CASE Lifecycle
  <2>1. dead' \in [Recorders -> BOOLEAN]
    <3>1. ASSUME NEW d \in Devices, register_device(d) \/ unregister_device(d)
          PROVE  dead' \in [Recorders -> BOOLEAN]
      BY <1>0, <3>1, EndType DEF register_device, unregister_device
    <3>2. ASSUME NEW d \in Devices, NEW h \in Handles, NEW id, NEW bad_alloc,
                 register_resource(d, h, id, bad_alloc) \/ unregister_resource(d, h)
          PROVE  dead' \in [Recorders -> BOOLEAN]
      BY <1>0, <3>2, EndType DEF register_resource, unregister_resource
    <3>3. QED
      BY <1>1, <3>1, <3>2 DEF Lifecycle
  <2>2. UNCHANGED <<engine, copy>>
    <3>1. \A d : register_device(d) \/ unregister_device(d) => UNCHANGED <<engine, copy>>
      BY DEF register_device, unregister_device
    <3>2. \A d, h, id, b : register_resource(d, h, id, b) \/ unregister_resource(d, h)
                             => UNCHANGED <<engine, copy>>
      BY DEF register_resource, unregister_resource
    <3>3. QED
      BY <1>1, <3>1, <3>2 DEF Lifecycle
  <2>3. QED
    BY <1>0, <2>1, <2>2 DEF engine
<1>2. CASE begin_scene \/ stop_scene
  BY <1>0, <1>2 DEF begin_scene, stop_scene, engine
<1>3. ASSUME NEW o \in Observers, begin_capture(o) PROVE RestTypeOK'
  <2> DEFINE t == advance(hs, "capture_sequence")
             k == [scene |-> t.scene_epoch, lifecycle |-> t.lifecycle_epoch, sequence |-> t.capture_sequence]
  <2>1. t \in Handoff
    BY <1>0, AdvanceType DEF Counters
  <2>2. k \in Ticket
    <3> HIDE DEF t
    <3>1. QED BY <2>1 DEF Handoff, Ticket
  <2>3. /\ pc' = [pc EXCEPT ![o] = IF t.exhausted THEN "idle" ELSE "open"]
        /\ ticket' = [ticket EXCEPT ![o] = IF t.exhausted THEN NoTicket ELSE k]
        /\ UNCHANGED <<graph, copy, dead, seen, witness>>
    BY <1>3 DEF begin_capture
  <2> HIDE DEF t, k
  <2>4. QED
    BY <1>0, <2>2, <2>3, EmptyTypes
<1>4. ASSUME NEW o \in Observers, NEW g \in Graphs, Inspect(o, g) PROVE RestTypeOK'
  <2> DEFINE w == [f \in Feed |-> {IdentityOf(hs, d, g.handles[f]) : d \in Holders(hs, g.handles[f])}]
  <2>1. g \in Graph
    OBVIOUS
  <2>2. w \in [Feed -> SUBSET Identity]
    <3> SUFFICES ASSUME NEW f \in Feed, NEW d \in Holders(hs, g.handles[f])
                 PROVE  IdentityOf(hs, d, g.handles[f]) \in Identity
      OBVIOUS
    <3>1. d \in Devices /\ g.handles[f] \in Handles
      BY <2>1 DEF Holders, Graph
    <3>2. QED
      BY <1>0, <3>1, IdentityType
  <2>3. /\ pc' = [pc EXCEPT ![o] = "read"]
        /\ graph' = [graph EXCEPT ![o] = g]
        /\ seen' = [seen EXCEPT ![o] = w]
        /\ UNCHANGED <<ticket, copy, dead, witness>>
    BY <1>4 DEF Inspect
  <2> HIDE DEF w
  <2>4. QED
    BY <1>0, <2>1, <2>2, <2>3
<1>5. ASSUME NEW o \in Observers, Abandon(o) \/ publish(o) PROVE RestTypeOK'
  <2>1. /\ pc' = [pc EXCEPT ![o] = "idle"]
        /\ ticket' = [ticket EXCEPT ![o] = NoTicket]
        /\ graph' = [graph EXCEPT ![o] = NoGraph]
        /\ seen' = [seen EXCEPT ![o] = Unseen]
        /\ witness' \in {witness, seen[o]}
        /\ UNCHANGED <<copy, dead>>
    BY <1>5 DEF Abandon, publish
  <2>2. QED
    BY <1>0, <2>1, EmptyTypes
<1>6. ASSUME NEW r \in Recorders, NEW d \in Devices, NEW h \in Handles, ObserveHint(r, d, h)
      PROVE  RestTypeOK'
  <2>1. [pc |-> "hinted", device |-> d, handle |-> h, match |-> NoMatch] \in CopyType
    BY EmptyTypes DEF CopyType
  <2>2. QED
    BY <1>0, <1>6, <2>1 DEF ObserveHint, engine, CopyType
<1>7. ASSUME NEW r \in Recorders, ObserveMatch(r) \/ Drop(r) PROVE RestTypeOK'
  <2> DEFINE m == match(hs, copy[r].device, copy[r].handle)
  <2>1. m \in Match
    BY <1>0, MatchType
  <2> HIDE DEF m
  <2>2. \E c \in CopyType : copy' = [copy EXCEPT ![r] = c]
    <3>1. CASE Drop(r)
      <4>1. [pc |-> "idle", device |-> Null, handle |-> Null, match |-> NoMatch] \in CopyType
        BY EmptyTypes DEF CopyType
      <4>2. QED
        BY <3>1, <4>1 DEF Drop
    <3>2. CASE ObserveMatch(r)
      <4> DEFINE c == [copy[r] EXCEPT !.pc = IF m.matched THEN "held" ELSE "idle",
                                      !.device = Null, !.handle = Null, !.match = m]
      <4>0. copy[r] \in CopyType /\ (IF m.matched THEN "held" ELSE "idle") \in {"idle", "hinted", "held"}
        BY <1>0 DEF CopyType
      <4>1. c \in CopyType
        BY <2>1, <4>0 DEF CopyType
      <4>2. copy' = [copy EXCEPT ![r] = c]
        BY <1>0, <3>2 DEF ObserveMatch, m
      <4>3. QED
        BY <4>1, <4>2
    <3>3. QED
      BY <1>7, <3>1, <3>2
  <2>3. dead' = [dead EXCEPT ![r] = FALSE] /\ UNCHANGED engine
    BY <1>7 DEF ObserveMatch, Drop
  <2>4. QED
    BY <1>0, <2>2, <2>3 DEF engine, CopyType
<1>8. QED
  BY <1>1, <1>2, <1>3, <1>4, <1>5, <1>6, <1>7 DEF Next

\* SceneHandoff keeps its types whatever the devices, addresses, feeds and
\* threads: every counter stays within its width and every published field is
\* of the kind the matching code reads.
THEOREM TypeCorrect == Spec => []TypeOK
<1>1. Init => TypeOK
  <2> SUFFICES ASSUME Init PROVE TypeOK
    OBVIOUS
  <2>1. hs \in Handoff
    BY EmptyTypes DEF Init, Handoff, Counters
  <2>2. QED
    BY <2>1, EmptyTypes DEF Init, TypeOK
<1>2. TypeOK /\ [Next]_vars => TypeOK'
  <2> SUFFICES ASSUME TypeOK, [Next]_vars PROVE TypeOK'
    OBVIOUS
  <2>1. CASE Next
    BY <2>1, StepType, StepRestType DEF TypeOK, RestTypeOK
  <2>2. CASE UNCHANGED vars
    BY <2>2 DEF TypeOK, vars
  <2>3. QED
    BY <2>1, <2>2
<1>3. QED
  BY <1>1, <1>2, PTL DEF Spec

(***************************************************************************)
(* The publication.  PublicationIsRegistered is not inductive by itself: a *)
(* lifecycle event finds a published address through `observed`, so the    *)
(* invariant also says that the atomic tables mirror the publication.      *)
(***************************************************************************)
Published(s) ==
  s.publication.valid =>
    /\ s.publication.device \in Registered(s)
    /\ s.observed = s.publication.graph.handles
    /\ s.candidate = s.publication.graph.handles
    /\ \A f \in Feed : s.publication.graph.handles[f] # Null =>
         s.publication.resources[f] =
           IdentityOf(s, s.publication.device, s.publication.graph.handles[f])

\* t has the publication, tables and registrations of s.
SameTables(s, t) ==
  /\ t.publication = s.publication
  /\ t.observed = s.observed /\ t.candidate = s.candidate
  /\ t.epoch = s.epoch /\ t.resources = s.resources

LEMMA SameTablesPublished ==
  ASSUME NEW s, NEW t, Published(s), ~t.publication.valid \/ SameTables(s, t) PROVE Published(t)
<1>1. CASE ~t.publication.valid
  BY <1>1 DEF Published
<1>2. CASE SameTables(s, t)
  <2>1. Registered(t) = Registered(s) /\ \A d, h : IdentityOf(t, d, h) = IdentityOf(s, d, h)
    BY <1>2 DEF SameTables, Registered, IdentityOf
  <2>2. SUFFICES ASSUME t.publication.valid
                 PROVE  /\ t.publication.device \in Registered(t)
                        /\ t.observed = t.publication.graph.handles
                        /\ t.candidate = t.publication.graph.handles
                        /\ \A f \in Feed : t.publication.graph.handles[f] # Null =>
                             t.publication.resources[f] =
                               IdentityOf(t, t.publication.device, t.publication.graph.handles[f])
    BY DEF Published
  <2>3. t.publication = s.publication /\ t.observed = s.observed /\ t.candidate = s.candidate
    BY <1>2 DEF SameTables
  <2>4. /\ s.publication.device \in Registered(s)
        /\ s.observed = s.publication.graph.handles
        /\ s.candidate = s.publication.graph.handles
        /\ \A f \in Feed : s.publication.graph.handles[f] # Null =>
             s.publication.resources[f] =
               IdentityOf(s, s.publication.device, s.publication.graph.handles[f])
    <3>1. s.publication.valid
      BY <2>2, <2>3, Zenon
    <3>2. QED
      BY <3>1 DEF Published
  <2>5. QED
    BY <2>1, <2>3, <2>4
<1>3. QED
  BY <1>1, <1>2

\* Clearing leaves no publication and keeps the registrations.
LEMMA ClearedPublication ==
  ASSUME NEW s \in Handoff
  PROVE  ~Clear(s).publication.valid /\ Clear(s).epoch = s.epoch /\ Clear(s).resources = s.resources
  BY DEF Clear, Handoff, NoPublication

\* Advancing a counter keeps the tables, or gives up and clears them.
LEMMA AdvanceTables ==
  ASSUME NEW s \in Handoff, NEW c \in Counters
  PROVE  /\ ~advance(s, c).publication.valid \/ SameTables(s, advance(s, c))
         /\ ~s.publication.valid => ~advance(s, c).publication.valid
         /\ advance(s, c).epoch = s.epoch /\ advance(s, c).resources = s.resources
<1>1. CASE CanAdvance(s, c)
  <2>1. advance(s, c) = [s EXCEPT ![c] = @ + 1]
    BY <1>1 DEF advance
  <2>2. QED
    BY <2>1 DEF Handoff, Counters, SameTables
<1>2. CASE ~CanAdvance(s, c)
  <2>1. advance(s, c) = [Clear(s) EXCEPT !.exhausted = TRUE, !.active = FALSE]
    BY <1>2 DEF advance
  <2>2. QED
    BY <2>1, ClearedPublication DEF Clear, Handoff
<1>3. QED
  BY <1>1, <1>2

\* A lifecycle event at a published address leaves no publication.
LEMMA LifecycleTables ==
  ASSUME NEW s \in Handoff, NEW changed, lifecycle_event(s, changed).publication.valid
  PROVE  /\ SameTables(s, lifecycle_event(s, changed))
         /\ changed # Null /\ \A f \in Feed : s.observed[f] # changed
<1>1. "lifecycle_epoch" \in Counters
  BY DEF Counters
<1>2. CASE changed = Null \/ observed_feed(s, changed) # {}
  <2>1. lifecycle_event(s, changed) = advance(Clear(s), "lifecycle_epoch")
    BY <1>2 DEF lifecycle_event
  <2>2. QED
    BY <1>1, <2>1, ClearType, ClearedPublication, AdvanceTables
<1>3. CASE changed # Null /\ observed_feed(s, changed) = {}
  <2>1. lifecycle_event(s, changed) = advance(s, "lifecycle_epoch")
    BY <1>3 DEF lifecycle_event
  <2>2. QED
    BY <1>1, <1>3, <2>1, AdvanceTables DEF observed_feed
<1>4. QED
  BY <1>2, <1>3

\* Changing a registration at an address that is not published.
LEMMA UnpublishedChange ==
  ASSUME NEW s \in Handoff, NEW d \in Devices, NEW h \in Handles, NEW n, Published(s),
         s.publication.valid => \A f \in Feed : s.observed[f] # h
  PROVE  Published([s EXCEPT !.resources[d][h] = n])
<1> DEFINE t == [s EXCEPT !.resources[d][h] = n]
<1>1. t.publication = s.publication /\ t.observed = s.observed /\ t.candidate = s.candidate /\ t.epoch = s.epoch
  BY DEF Handoff
<1>2. ASSUME NEW e \in Devices, NEW g \in Handles, g # h PROVE t.resources[e][g] = s.resources[e][g]
  BY <1>2 DEF Handoff
<1>3. ASSUME s.publication.valid, NEW f \in Feed, s.publication.graph.handles[f] # Null
      PROVE  /\ s.publication.device \in Devices
             /\ s.publication.graph.handles[f] \in Handles
             /\ s.publication.graph.handles[f] # h
  BY <1>3 DEF Published, Registered, Handoff, Publication, Graph
<1> HIDE DEF t
<1>4. ASSUME s.publication.valid, NEW f \in Feed, s.publication.graph.handles[f] # Null
      PROVE  IdentityOf(t, s.publication.device, s.publication.graph.handles[f])
               = IdentityOf(s, s.publication.device, s.publication.graph.handles[f])
  BY <1>1, <1>2, <1>3, <1>4 DEF IdentityOf
<1>5. Published(t)
  BY <1>1, <1>4 DEF Published, Registered
<1>6. QED
  BY <1>5 DEF t

\* What publish() stores names the registrations it just looked up.
LEMMA PublishTables ==
  ASSUME NEW s \in Handoff, NEW t, NEW g \in Graph, WellFormed(g), Resolvable(s, g)
  PROVE  Published(Publish(s, t, g))
<1> DEFINE d == CHOOSE x \in Devices : \A f \in Feed : g.handles[f] # Null => Holders(s, g.handles[f]) = {x}
           p == Publish(s, t, g)
<1>1. d \in Devices /\ \A f \in Feed : g.handles[f] # Null => Holders(s, g.handles[f]) = {d}
  BY DEF Resolvable
<1>2. d \in Registered(s)
  <2>1. 0 \in Feed /\ g.handles[0] # Null
    BY FeedsAssumption DEF WellFormed, Feed
  <2>2. d \in Holders(s, g.handles[0])
    BY <1>1, <2>1
  <2>3. QED
    BY <2>2 DEF Holders, Registered
<1> HIDE DEF d
<1>3. /\ p.publication.device = d /\ p.publication.graph = g
      /\ p.observed = g.handles /\ p.candidate = g.handles
      /\ p.epoch = s.epoch /\ p.resources = s.resources
      /\ p.publication.resources = [f \in Feed |-> IF g.handles[f] = Null THEN NoIdentity
                                                   ELSE IdentityOf(s, d, g.handles[f])]
  BY DEF p, Publish, Handoff, d
<1> HIDE DEF p
<1>4. Published(p)
  BY <1>2, <1>3 DEF Published, Registered, IdentityOf
<1>5. QED
  BY <1>4 DEF p

\* Every lifecycle callback keeps the publication sound.
LEMMA LifecyclePublished ==
  ASSUME TypeOK, Published(hs), Lifecycle PROVE Published(hs')
<1> DEFINE s(c) == lifecycle_event(hs, c)
<1>0. hs \in Handoff /\ \A c : s(c) \in Handoff /\ Published(s(c))
  <2>1. hs \in Handoff
    BY DEF TypeOK
  <2>2. ASSUME NEW c PROVE Published(s(c))
    BY <2>1, LifecycleTables, SameTablesPublished
  <2>3. QED
    BY <2>1, <2>2, LifecycleType
<1>1. ~s(Null).publication.valid
  BY <1>0, LifecycleTables
<1>2. ASSUME NEW h \in Handles, s(h).publication.valid PROVE \A f \in Feed : s(h).observed[f] # h
  BY <1>0, <1>2, LifecycleTables DEF SameTables
<1> HIDE DEF s
<1>3. ASSUME NEW d \in Devices, register_device(d) \/ unregister_device(d) PROVE Published(hs')
  <2> DEFINE t == advance(s(Null), "device_counter")
  <2>1. t \in Handoff /\ ~t.publication.valid
    BY <1>0, <1>1, AdvanceTables, AdvanceType DEF Counters
  <2>2. \/ hs' = s(Null)
        \/ hs' = t
        \/ hs' = [t EXCEPT !.resources[d] = NoResources, !.epoch[d] = t.device_counter]
        \/ hs' = [s(Null) EXCEPT !.resources[d] = NoResources, !.epoch[d] = 0]
    BY <1>3 DEF register_device, unregister_device, s
  <2> HIDE DEF t
  <2>3. ~hs'.publication.valid
    <3>1. \A x \in Handoff : \A e : [x EXCEPT !.resources[d] = NoResources, !.epoch[d] = e].publication = x.publication
      BY DEF Handoff
    <3>2. CASE hs' = s(Null) \/ hs' = t
      BY <1>1, <2>1, <3>2
    <3>3. CASE hs' = [t EXCEPT !.resources[d] = NoResources, !.epoch[d] = t.device_counter]
      BY <2>1, <3>1, <3>3
    <3>4. CASE hs' = [s(Null) EXCEPT !.resources[d] = NoResources, !.epoch[d] = 0]
      BY <1>0, <1>1, <3>1, <3>4
    <3>5. QED
      BY <2>2, <3>2, <3>3, <3>4
  <2>4. QED
    BY <2>3 DEF Published
<1>4. ASSUME NEW d \in Devices, NEW h \in Handles, NEW id, NEW bad_alloc,
             register_resource(d, h, id, bad_alloc) \/ unregister_resource(d, h)
      PROVE  Published(hs')
  <2> DEFINE t == advance(s(h), "resource_counter")
             n == IF bad_alloc THEN NoResource ELSE [id |-> id, generation |-> t.resource_counter]
  <2>1. ~t.publication.valid \/ SameTables(s(h), t)
    BY <1>0, AdvanceTables DEF Counters
  <2>2. t \in Handoff
    BY <1>0, AdvanceType DEF Counters
  <2>3. \/ hs' = s(h)
        \/ hs' = t
        \/ hs' = [s(h) EXCEPT !.resources[d][h] = NoResource]
        \/ hs' = [t EXCEPT !.resources[d][h] = n]
    BY <1>4 DEF register_resource, unregister_resource, s
  <2> HIDE DEF t, n
  <2>4. Published(t)
    BY <1>0, <2>1, SameTablesPublished
  <2>5. t.publication.valid => \A f \in Feed : t.observed[f] # h
    BY <1>2, <2>1 DEF SameTables
  <2>6. Published([s(h) EXCEPT !.resources[d][h] = NoResource])
    BY <1>0, <1>2, UnpublishedChange
  <2>7. Published([t EXCEPT !.resources[d][h] = n])
    BY <2>2, <2>4, <2>5, UnpublishedChange
  <2>8. QED
    BY <1>0, <2>3, <2>4, <2>6, <2>7
<1>5. QED
  BY <1>3, <1>4 DEF Lifecycle

\* Every step keeps the publication sound.
LEMMA StepPublished ==
  ASSUME TypeOK, Published(hs), Next PROVE Published(hs')
<1>0. hs \in Handoff
  BY DEF TypeOK
<1>1. CASE Lifecycle
  BY <1>1, LifecyclePublished
<1>2. CASE begin_scene
  <2> DEFINE s == [Clear(hs) EXCEPT !.owner_bound = FALSE, !.owner = Null, !.owned_ids = NoIds]
             t == advance(s, "scene_epoch")
  <2>0. Clear(hs) \in Handoff /\ ~Clear(hs).publication.valid
    BY <1>0, ClearType, ClearedPublication
  <2>1. s \in Handoff /\ ~s.publication.valid
    BY <2>0, EmptyTypes DEF Handoff
  <2>2. hs' = [t EXCEPT !.active = CanAdvance(s, "scene_epoch")]
    BY <1>2 DEF begin_scene
  <2> HIDE DEF s
  <2>3. t \in Handoff /\ ~t.publication.valid
    BY <2>1, AdvanceTables, AdvanceType DEF Counters
  <2> HIDE DEF t
  <2>4. ~hs'.publication.valid
    BY <2>2, <2>3 DEF Handoff
  <2>5. QED
    BY <2>4 DEF Published
<1>3. CASE stop_scene
  <2> DEFINE s == [Clear(hs) EXCEPT !.active = FALSE, !.owner_bound = FALSE]
  <2>0. Clear(hs) \in Handoff /\ ~Clear(hs).publication.valid
    BY <1>0, ClearType, ClearedPublication
  <2>1. s \in Handoff /\ ~s.publication.valid
    BY <2>0 DEF Handoff
  <2>2. hs' = advance(s, "scene_epoch")
    BY <1>3 DEF stop_scene
  <2> HIDE DEF s
  <2>3. ~hs'.publication.valid
    BY <2>1, <2>2, AdvanceTables DEF Counters
  <2>4. QED
    BY <2>3 DEF Published
<1>4. ASSUME NEW o \in Observers, begin_capture(o) PROVE Published(hs')
  <2>1. hs' = advance(hs, "capture_sequence")
    BY <1>4 DEF begin_capture
  <2>2. QED
    BY <1>0, <2>1, AdvanceTables, SameTablesPublished DEF Counters
<1>5. ASSUME NEW o \in Observers, publish(o) PROVE Published(hs')
  <2> DEFINE e == advance([Clear(hs) EXCEPT !.active = FALSE], "scene_epoch")
  <2>1. \/ hs' = hs
        \/ hs' = RefuseLatest(hs)
        \/ hs' = RefuseLatest(e)
        \/ /\ WellFormed(graph[o]) /\ Resolvable(hs, graph[o])
           /\ hs' = Publish(hs, ticket[o], graph[o])
    BY <1>5 DEF publish
  <2>2. e \in Handoff
    <3>0. Clear(hs) \in Handoff
      BY <1>0, ClearType
    <3>1. [Clear(hs) EXCEPT !.active = FALSE] \in Handoff
      BY <3>0 DEF Handoff
    <3>2. QED
      BY <3>1, AdvanceType DEF Counters
  <2> HIDE DEF e
  <2>3. ASSUME NEW x \in Handoff PROVE Published(RefuseLatest(x))
    <3>1. RefuseLatest(x).publication = NoPublication
      BY DEF RefuseLatest, Handoff
    <3>2. QED
      BY <3>1 DEF Published, NoPublication
  <2>4. graph[o] \in Graph
    BY DEF TypeOK
  <2>5. QED
    BY <1>0, <2>1, <2>2, <2>3, <2>4, PublishTables
<1>6. QED
  BY <1>1, <1>2, <1>3, <1>4, <1>5 DEF Next, Abandon, Inspect, ObserveHint, ObserveMatch, Drop

\* The publication is sound and mirrored in the atomic tables in every state.
LEMMA PublishedAlways == Spec => []Published(hs)
<1>1. Init => Published(hs)
  BY DEF Init, Published, NoPublication
<1>2. TypeOK /\ Published(hs) /\ [Next]_vars => Published(hs)'
  <2> SUFFICES ASSUME TypeOK, Published(hs), [Next]_vars PROVE Published(hs')
    OBVIOUS
  <2>1. CASE UNCHANGED vars
    BY <2>1 DEF vars
  <2>2. QED
    BY <2>1, StepPublished
<1>3. QED
  BY <1>1, <1>2, TypeCorrect, PTL DEF Spec

\* A valid publication names registrations that still exist, on its device,
\* under the incarnation recorded at publish(): no lifecycle callback in any
\* order leaves a stale one behind.
THEOREM PublicationSafe == Spec => []PublicationIsRegistered
<1>1. Published(hs) => PublicationIsRegistered
  BY DEF Published, PublicationIsRegistered
<1>2. QED
  BY <1>1, PublishedAlways, PTL

\* The lock-free hint never rejects an address that match() would accept.
THEOREM HintComplete == Spec => []HintNeverRejectsMatch
<1>1. Published(hs) => HintNeverRejectsMatch
  <2> SUFFICES ASSUME Published(hs), NEW d \in Devices, NEW h \in Handles, match(hs, d, h).matched
               PROVE  may_match_resource(hs, h)
    BY DEF HintNeverRejectsMatch
  <2>1. MatchingFeeds(hs, d, h) # {}
    BY DEF match, NoMatch
  <2>2. QED
    BY <2>1 DEF MatchingFeeds, Published, may_match_resource
<1>2. QED
  BY <1>1, PublishedAlways, PTL

(***************************************************************************)
(* What an inspection saw.  It read the engine without the mutex, so the   *)
(* argument is about the ticket: every step that changes a registration    *)
(* moves lifecycle_epoch or exhausts the object for good.                  *)
(***************************************************************************)
SameRegistrations(s, t) == t.epoch = s.epoch /\ t.resources = s.resources

\* The object t can come after s.
Later(s, t) ==
  /\ t.lifecycle_epoch >= s.lifecycle_epoch
  /\ t.resource_counter >= s.resource_counter
  /\ t.capture_sequence >= s.capture_sequence
  /\ s.exhausted => t.exhausted
  /\ t.exhausted \/ t.lifecycle_epoch > s.lifecycle_epoch \/ SameRegistrations(s, t)

\* The counters of an object are numbers.
LEMMA CounterTypes ==
  ASSUME NEW s \in Handoff
  PROVE  /\ s.lifecycle_epoch \in Nat /\ s.resource_counter \in Nat
         /\ s.capture_sequence \in Nat /\ s.exhausted \in BOOLEAN
  BY DEF Handoff, Counters

LEMMA LaterTransitive ==
  ASSUME NEW s \in Handoff, NEW t \in Handoff, NEW u \in Handoff, Later(s, t), Later(t, u)
  PROVE  Later(s, u)
  BY CounterTypes DEF Later, SameRegistrations

\* An assignment that touches neither counters nor registrations.
LEMMA SameLater ==
  ASSUME NEW s \in Handoff, NEW t, SameRegistrations(s, t),
         t.lifecycle_epoch = s.lifecycle_epoch, t.resource_counter = s.resource_counter,
         t.capture_sequence = s.capture_sequence, t.exhausted = s.exhausted
  PROVE  Later(s, t)
  BY CounterTypes DEF Later

\* advance() only moves forward; of the lifecycle epoch it moves or gives up.
LEMMA AdvanceLater ==
  ASSUME NEW s \in Handoff, NEW c \in Counters
  PROVE  /\ Later(s, advance(s, c))
         /\ ~advance(s, c).exhausted => /\ ~s.exhausted
                                        /\ advance(s, c)[c] = s[c] + 1
         /\ c # "resource_counter" => advance(s, c).resource_counter = s.resource_counter
         /\ c # "lifecycle_epoch" => advance(s, c).lifecycle_epoch = s.lifecycle_epoch
         /\ c # "capture_sequence" => advance(s, c).capture_sequence = s.capture_sequence
<1> DEFINE t == advance(s, c)
<1>0. SameRegistrations(s, t)
  BY AdvanceTables DEF SameRegistrations
<1>1. CASE CanAdvance(s, c)
  <2>1. t = [s EXCEPT ![c] = @ + 1] /\ ~s.exhausted
    BY <1>1 DEF advance, CanAdvance
  <2> HIDE DEF t
  <2>2. t.exhausted = s.exhausted /\ t[c] = s[c] + 1
    BY <2>1 DEF Handoff, Counters
  <2>3. \A k \in {"lifecycle_epoch", "resource_counter", "capture_sequence"} :
          t[k] = IF k = c THEN s[k] + 1 ELSE s[k]
    BY <2>1 DEF Handoff, Counters
  <2>4. /\ t.lifecycle_epoch = IF c = "lifecycle_epoch" THEN s.lifecycle_epoch + 1 ELSE s.lifecycle_epoch
        /\ t.resource_counter = IF c = "resource_counter" THEN s.resource_counter + 1 ELSE s.resource_counter
        /\ t.capture_sequence = IF c = "capture_sequence" THEN s.capture_sequence + 1 ELSE s.capture_sequence
    BY <2>3
  <2>5. Later(s, t)
    BY <1>0, <2>2, <2>4, CounterTypes DEF Later
  <2>6. QED
    BY <2>1, <2>2, <2>4, <2>5 DEF t
<1>2. CASE ~CanAdvance(s, c)
  <2>1. t = [Clear(s) EXCEPT !.exhausted = TRUE, !.active = FALSE]
    BY <1>2 DEF advance
  <2> HIDE DEF t
  <2>2. /\ t.exhausted /\ t.lifecycle_epoch = s.lifecycle_epoch
        /\ t.resource_counter = s.resource_counter /\ t.capture_sequence = s.capture_sequence
    BY <2>1 DEF Clear, Handoff
  <2>3. Later(s, t)
    BY <2>2, CounterTypes DEF Later
  <2>4. QED
    BY <2>2, <2>3 DEF t
<1>3. QED
  BY <1>1, <1>2

\* Revoking the publication moves nothing.
LEMMA ClearLater ==
  ASSUME NEW s \in Handoff
  PROVE  /\ Later(s, Clear(s)) /\ Clear(s).exhausted = s.exhausted
         /\ Clear(s).lifecycle_epoch = s.lifecycle_epoch
         /\ Clear(s).resource_counter = s.resource_counter
         /\ SameRegistrations(s, Clear(s))
<1>1. /\ SameRegistrations(s, Clear(s)) /\ Clear(s).exhausted = s.exhausted
      /\ Clear(s).lifecycle_epoch = s.lifecycle_epoch
      /\ Clear(s).resource_counter = s.resource_counter
      /\ Clear(s).capture_sequence = s.capture_sequence
  BY DEF Clear, Handoff, SameRegistrations
<1>2. QED
  BY <1>1, SameLater

\* A lifecycle event moves its epoch or exhausts the object, and keeps the
\* registrations and their counter for the change that follows.
LEMMA LifecycleLater ==
  ASSUME NEW s \in Handoff, NEW h
  PROVE  LET t == lifecycle_event(s, h) IN
         /\ Later(s, t) /\ SameRegistrations(s, t)
         /\ t.exhausted \/ t.lifecycle_epoch > s.lifecycle_epoch
         /\ t.resource_counter = s.resource_counter
<1> DEFINE x == IF h = Null \/ observed_feed(s, h) # {} THEN Clear(s) ELSE s
           t == advance(x, "lifecycle_epoch")
<1>1. /\ x \in Handoff /\ Later(s, x) /\ SameRegistrations(s, x)
      /\ x.lifecycle_epoch = s.lifecycle_epoch /\ x.resource_counter = s.resource_counter
  BY ClearType, ClearLater, CounterTypes DEF Later, SameRegistrations
<1>2. lifecycle_event(s, h) = t
  BY DEF lifecycle_event
<1> HIDE DEF x
<1>3. "lifecycle_epoch" \in Counters
  BY DEF Counters
<1>4. /\ Later(x, t) /\ (~t.exhausted => t.lifecycle_epoch = x.lifecycle_epoch + 1)
      /\ t.resource_counter = x.resource_counter /\ t \in Handoff
  BY <1>1, <1>3, AdvanceLater, AdvanceType
<1>5. SameRegistrations(s, t)
  BY <1>1, <1>3, AdvanceTables DEF SameRegistrations
<1> HIDE DEF t
<1>6. Later(s, t)
  BY <1>1, <1>4, LaterTransitive
<1>7. t.exhausted \/ t.lifecycle_epoch > s.lifecycle_epoch
  BY <1>1, <1>4, CounterTypes
<1>8. QED
  BY <1>1, <1>2, <1>4, <1>5, <1>6, <1>7

\* What a lifecycle callback does to the registrations: nothing, or it drops a
\* whole device, or it replaces one address by nothing or by a new incarnation.
\* The matches that die are those whose incarnation went.
Dies(X) ==
  \A r \in Recorders : dead'[r] => dead[r] \/ (copy[r].match.matched /\ copy[r].match.resource \in X)

KeepsAll == hs'.resources = hs.resources /\ Dies({})
DropsDevice(d) == hs'.resources = [hs.resources EXCEPT ![d] = NoResources] /\ Dies(Ended(hs, d))
ReplacesOne(d, h) ==
  \E n \in Resource : /\ hs'.resources = [hs.resources EXCEPT ![d][h] = n]
                      /\ n.generation = 0 \/ (n.generation = hs.resource_counter + 1
                                              /\ n.generation <= hs'.resource_counter)
                      /\ Dies(EndedAt(hs, d, h))

LEMMA EndDies == ASSUME TypeOK, NEW X, End(X) PROVE Dies(X)
  BY DEF End, Dies, TypeOK

LEMMA UnchangedDies == ASSUME TypeOK, UNCHANGED dead PROVE Dies({})
  BY DEF Dies

\* Every lifecycle callback moves forward, moves the epoch or exhausts, and
\* changes the registrations in one of these ways.
LEMMA LifecycleShape ==
  ASSUME TypeOK, Lifecycle
  PROVE  /\ Later(hs, hs')
         /\ KeepsAll \/ (\E d \in Devices : DropsDevice(d))
                     \/ (\E d \in Devices, h \in Handles : ReplacesOne(d, h))
<1> DEFINE s(c) == lifecycle_event(hs, c)
<1>0. hs \in Handoff /\ hs' \in Handoff
  BY StepType DEF TypeOK, Next
<1>1. \A c : /\ s(c) \in Handoff /\ Later(hs, s(c)) /\ SameRegistrations(hs, s(c))
             /\ s(c).exhausted \/ s(c).lifecycle_epoch > hs.lifecycle_epoch
             /\ s(c).resource_counter = hs.resource_counter
  BY <1>0, LifecycleLater, LifecycleType
<1> HIDE DEF s
\* An object with the counters of a later one and registrations of its own.
<1>2. ASSUME NEW x \in Handoff, Later(hs, x), x.exhausted \/ x.lifecycle_epoch > hs.lifecycle_epoch,
             NEW y, y.lifecycle_epoch = x.lifecycle_epoch, y.resource_counter = x.resource_counter,
             y.capture_sequence = x.capture_sequence, y.exhausted = x.exhausted
      PROVE  Later(hs, y)
  BY <1>2 DEF Later
<1>3. ASSUME NEW d \in Devices, register_device(d) \/ unregister_device(d)
      PROVE  Later(hs, hs') /\ (KeepsAll \/ DropsDevice(d))
  <2> DEFINE t == advance(s(Null), "device_counter")
  <2>1. /\ t \in Handoff /\ Later(s(Null), t) /\ SameRegistrations(s(Null), t)
        /\ t.lifecycle_epoch = s(Null).lifecycle_epoch
    BY <1>1, AdvanceLater, AdvanceType, AdvanceTables DEF Counters, SameRegistrations
  <2>2. \/ hs' = s(Null) /\ UNCHANGED dead
        \/ hs' = t /\ UNCHANGED dead
        \/ /\ hs' = [t EXCEPT !.resources[d] = NoResources, !.epoch[d] = t.device_counter]
           /\ End(Ended(hs, d))
        \/ /\ hs' = [s(Null) EXCEPT !.resources[d] = NoResources, !.epoch[d] = 0]
           /\ End(Ended(hs, d))
    <3>1. CASE unregister_device(d)
      BY <3>1 DEF unregister_device, s
    <3>2. CASE register_device(d)
      BY <3>2 DEF register_device, s
    <3>3. QED
      BY <1>3, <3>1, <3>2
  <2> HIDE DEF t
  <2>3. /\ Later(hs, t) /\ SameRegistrations(hs, t)
        /\ t.exhausted \/ t.lifecycle_epoch > hs.lifecycle_epoch
    <3>1. Later(hs, t) /\ SameRegistrations(hs, t)
      BY <1>0, <1>1, <2>1, LaterTransitive DEF SameRegistrations
    <3>2. t.exhausted \/ t.lifecycle_epoch > hs.lifecycle_epoch
      BY <1>1, <2>1 DEF Later
    <3>3. QED
      BY <3>1, <3>2
  <2>4. CASE (hs' = s(Null) \/ hs' = t) /\ UNCHANGED dead
    BY <1>1, <2>3, <2>4, UnchangedDies DEF KeepsAll, SameRegistrations
  <2>5. ASSUME NEW x \in {s(Null), t}, NEW e,
               hs' = [x EXCEPT !.resources[d] = NoResources, !.epoch[d] = e], End(Ended(hs, d))
        PROVE  Later(hs, hs') /\ DropsDevice(d)
    <3>1. /\ x \in Handoff /\ Later(hs, x) /\ SameRegistrations(hs, x)
          /\ x.exhausted \/ x.lifecycle_epoch > hs.lifecycle_epoch
      BY <1>1, <2>1, <2>3
    <3>2. /\ hs'.resources = [x.resources EXCEPT ![d] = NoResources]
          /\ hs'.lifecycle_epoch = x.lifecycle_epoch /\ hs'.resource_counter = x.resource_counter
          /\ hs'.capture_sequence = x.capture_sequence /\ hs'.exhausted = x.exhausted
      BY <2>5, <3>1 DEF Handoff
    <3>3. Later(hs, hs')
      BY <1>2, <3>1, <3>2
    <3>4. QED
      BY <2>5, <3>1, <3>2, <3>3, EndDies DEF DropsDevice, SameRegistrations
  <2>6. QED
    BY <2>2, <2>4, <2>5
<1>4. ASSUME NEW d \in Devices, NEW h \in Handles, NEW id \in RegistryIds \union {Null},
             NEW bad_alloc \in BOOLEAN,
             register_resource(d, h, id, bad_alloc) \/ unregister_resource(d, h)
      PROVE  Later(hs, hs') /\ (KeepsAll \/ ReplacesOne(d, h))
  <2> DEFINE t == advance(s(h), "resource_counter")
             n == IF bad_alloc THEN NoResource ELSE [id |-> id, generation |-> t.resource_counter]
  <2>1. /\ t \in Handoff /\ Later(s(h), t) /\ SameRegistrations(s(h), t)
        /\ t.lifecycle_epoch = s(h).lifecycle_epoch
        /\ ~t.exhausted => t.resource_counter = s(h).resource_counter + 1
    BY <1>1, AdvanceLater, AdvanceType, AdvanceTables DEF Counters, SameRegistrations
  <2>2. NoResource \in Resource /\ n \in Resource /\ NoResource.generation = 0
    <3>1. t.resource_counter \in Nat
      BY <2>1, CounterTypes
    <3> HIDE DEF t
    <3>2. QED
      BY <3>1, EmptyTypes DEF Resource, NoResource
  <2>3. \/ (hs' = s(h) \/ hs' = t) /\ (UNCHANGED dead \/ End({}))
        \/ hs' = [s(h) EXCEPT !.resources[d][h] = NoResource] /\ End(EndedAt(hs, d, h))
        \/ hs' = [t EXCEPT !.resources[d][h] = n] /\ ~t.exhausted /\ End(EndedAt(hs, d, h))
    <3>1. CASE unregister_resource(d, h)
      BY <3>1 DEF unregister_resource, s
    <3>2. CASE register_resource(d, h, id, bad_alloc)
      BY <3>2 DEF register_resource, s
    <3>3. QED
      BY <1>4, <3>1, <3>2
  <2>4. n.generation = 0 \/ n.generation = t.resource_counter
    BY DEF NoResource
  <2> HIDE DEF t, n
  <2>5. /\ Later(hs, t) /\ SameRegistrations(hs, t)
        /\ t.exhausted \/ t.lifecycle_epoch > hs.lifecycle_epoch
    <3>1. Later(hs, t) /\ SameRegistrations(hs, t)
      BY <1>0, <1>1, <2>1, LaterTransitive DEF SameRegistrations
    <3>2. t.exhausted \/ t.lifecycle_epoch > hs.lifecycle_epoch
      BY <1>1, <2>1 DEF Later
    <3>3. QED
      BY <3>1, <3>2
  <2>6. CASE (hs' = s(h) \/ hs' = t) /\ (UNCHANGED dead \/ End({}))
    BY <1>1, <2>5, <2>6, UnchangedDies, EndDies DEF KeepsAll, SameRegistrations
  <2>7. ASSUME NEW x \in {s(h), t}, NEW k \in Resource, hs' = [x EXCEPT !.resources[d][h] = k]
        PROVE  /\ Later(hs, hs') /\ hs'.resources = [hs.resources EXCEPT ![d][h] = k]
               /\ hs'.resource_counter = x.resource_counter
    <3>1. /\ x \in Handoff /\ Later(hs, x) /\ SameRegistrations(hs, x)
          /\ x.exhausted \/ x.lifecycle_epoch > hs.lifecycle_epoch
      BY <1>1, <2>1, <2>5
    <3>2. /\ hs'.resources = [x.resources EXCEPT ![d][h] = k]
          /\ hs'.lifecycle_epoch = x.lifecycle_epoch /\ hs'.resource_counter = x.resource_counter
          /\ hs'.capture_sequence = x.capture_sequence /\ hs'.exhausted = x.exhausted
      BY <2>7, <3>1 DEF Handoff
    <3>3. Later(hs, hs')
      BY <1>2, <3>1, <3>2
    <3>4. QED
      BY <3>1, <3>2, <3>3 DEF SameRegistrations
  <2>8. CASE hs' = [s(h) EXCEPT !.resources[d][h] = NoResource] /\ End(EndedAt(hs, d, h))
    BY <2>2, <2>7, <2>8, EndDies DEF ReplacesOne
  <2>9. CASE hs' = [t EXCEPT !.resources[d][h] = n] /\ ~t.exhausted /\ End(EndedAt(hs, d, h))
    <3>1. /\ Later(hs, hs') /\ hs'.resources = [hs.resources EXCEPT ![d][h] = n]
          /\ hs'.resource_counter = hs.resource_counter + 1
      BY <1>1, <2>1, <2>2, <2>7, <2>9
    <3>2. n.generation = 0 \/ (n.generation = hs.resource_counter + 1 /\ n.generation <= hs'.resource_counter)
      BY <1>0, <1>1, <2>1, <2>4, <2>9, <3>1, CounterTypes
    <3>3. Dies(EndedAt(hs, d, h))
      BY <2>9, EndDies
    <3>4. QED
      BY <2>2, <3>1, <3>2, <3>3 DEF ReplacesOne
  <2>10. QED
    BY <2>3, <2>6, <2>8, <2>9
<1>5. CASE \E d \in Devices : register_device(d) \/ unregister_device(d)
  BY <1>3, <1>5
<1>6. CASE \E d \in Devices, h \in Handles, id \in RegistryIds \cup {Null}, bad_alloc \in BOOLEAN :
             register_resource(d, h, id, bad_alloc)
  <2>1. PICK d \in Devices, h \in Handles, id \in RegistryIds \cup {Null}, bad_alloc \in BOOLEAN :
          register_resource(d, h, id, bad_alloc)
    BY <1>6
  <2>2. Later(hs, hs') /\ (KeepsAll \/ ReplacesOne(d, h))
    BY <1>4, <2>1
  <2>3. QED
    BY <2>2
<1>7. CASE \E d \in Devices, h \in Handles : unregister_resource(d, h)
  <2>1. PICK d \in Devices, h \in Handles : unregister_resource(d, h)
    BY <1>7
  <2>2. Later(hs, hs') /\ (KeepsAll \/ ReplacesOne(d, h))
    BY <1>4, <2>1
  <2>3. QED
    BY <2>2
<1>8. QED
  BY <1>5, <1>6, <1>7 DEF Lifecycle

\* The step in which an inspection publishes.
Publishes(o) ==
  /\ pc[o] = "read" /\ TicketCurrent(hs, ticket[o])
  /\ Resolvable(hs, graph[o])
  /\ hs' = Publish(hs, ticket[o], graph[o]) /\ witness' = seen[o]

\* Publishing stores the graph and the ticket's sequence, and moves nothing.
LEMMA PublishFields ==
  ASSUME NEW s \in Handoff, NEW t, NEW g
  PROVE  LET p == Publish(s, t, g) IN
         /\ p.publication.sequence = t.sequence /\ p.publication.graph = g
         /\ SameRegistrations(s, p) /\ Later(s, p)
         /\ p.capture_sequence = s.capture_sequence
<1> DEFINE p == Publish(s, t, g)
<1>1. /\ p.publication.sequence = t.sequence /\ p.publication.graph = g
      /\ SameRegistrations(s, p)
      /\ p.lifecycle_epoch = s.lifecycle_epoch /\ p.resource_counter = s.resource_counter
      /\ p.capture_sequence = s.capture_sequence /\ p.exhausted = s.exhausted
  BY DEF Publish, Handoff, SameRegistrations
<1> HIDE DEF p
<1>2. Later(s, p)
  BY <1>1, SameLater
<1>3. QED
  BY <1>1, <1>2 DEF p

\* Every other step keeps the registrations; every step moves forward.
LEMMA StepLater ==
  ASSUME TypeOK, Next
  PROVE  /\ Later(hs, hs')
         /\ ~Lifecycle => SameRegistrations(hs, hs')
<1>0. hs \in Handoff /\ hs' \in Handoff
  BY StepType DEF TypeOK
<1>1. CASE Lifecycle
  BY <1>1, LifecycleShape
\* advance() of an object that only lost its publication and its owner.
<1>2. ASSUME NEW x \in Handoff, NEW c \in Counters, SameRegistrations(hs, x), Later(hs, x)
      PROVE  SameRegistrations(hs, advance(x, c)) /\ Later(hs, advance(x, c))
  <2>1. advance(x, c) \in Handoff /\ Later(x, advance(x, c))
    BY AdvanceType, AdvanceLater
  <2>2. SameRegistrations(hs, advance(x, c))
    BY <1>2, AdvanceTables DEF SameRegistrations
  <2>3. QED
    BY <1>0, <1>2, <2>1, <2>2, LaterTransitive
<1>3. /\ Clear(hs) \in Handoff /\ SameRegistrations(hs, Clear(hs))
      /\ "scene_epoch" \in Counters /\ "capture_sequence" \in Counters
  BY <1>0, ClearType, ClearLater DEF Counters
<1>4. CASE begin_scene
  <2> DEFINE s == [Clear(hs) EXCEPT !.owner_bound = FALSE, !.owner = Null, !.owned_ids = NoIds]
             t == advance(s, "scene_epoch")
  <2>1. s \in Handoff
    BY <1>3, EmptyTypes DEF Handoff
  <2>2. SameRegistrations(hs, s) /\ Later(hs, s)
    <3>1. /\ SameRegistrations(hs, s)
          /\ s.lifecycle_epoch = hs.lifecycle_epoch /\ s.resource_counter = hs.resource_counter
          /\ s.capture_sequence = hs.capture_sequence /\ s.exhausted = hs.exhausted
      BY <1>0 DEF Clear, Handoff, SameRegistrations
    <3> HIDE DEF s
    <3>2. QED
      BY <1>0, <3>1, SameLater
  <2>3. hs' = [t EXCEPT !.active = CanAdvance(s, "scene_epoch")]
    BY <1>4 DEF begin_scene
  <2> HIDE DEF s
  <2>4. SameRegistrations(hs, t) /\ Later(hs, t) /\ t \in Handoff
    BY <1>2, <1>3, <2>1, <2>2, AdvanceType
  <2> HIDE DEF t
  <2>5. /\ SameRegistrations(t, hs')
        /\ hs'.lifecycle_epoch = t.lifecycle_epoch /\ hs'.resource_counter = t.resource_counter
        /\ hs'.capture_sequence = t.capture_sequence /\ hs'.exhausted = t.exhausted
    BY <2>3, <2>4 DEF Handoff, SameRegistrations
  <2>6. QED
    BY <2>4, <2>5 DEF Later, SameRegistrations
<1>5. CASE stop_scene
  <2> DEFINE s == [Clear(hs) EXCEPT !.active = FALSE, !.owner_bound = FALSE]
  <2>1. s \in Handoff
    BY <1>3 DEF Handoff
  <2>2. SameRegistrations(hs, s) /\ Later(hs, s)
    <3>1. /\ SameRegistrations(hs, s)
          /\ s.lifecycle_epoch = hs.lifecycle_epoch /\ s.resource_counter = hs.resource_counter
          /\ s.capture_sequence = hs.capture_sequence /\ s.exhausted = hs.exhausted
      BY <1>0 DEF Clear, Handoff, SameRegistrations
    <3> HIDE DEF s
    <3>2. QED
      BY <1>0, <3>1, SameLater
  <2>3. hs' = advance(s, "scene_epoch")
    BY <1>5 DEF stop_scene
  <2> HIDE DEF s
  <2>4. QED
    BY <1>2, <1>3, <2>1, <2>2, <2>3
<1>6. ASSUME NEW o \in Observers, begin_capture(o)
      PROVE  SameRegistrations(hs, hs') /\ Later(hs, hs')
  <2>1. hs' = advance(hs, "capture_sequence")
    BY <1>6 DEF begin_capture
  <2>2. SameRegistrations(hs, hs) /\ Later(hs, hs)
    BY <1>0, SameLater DEF SameRegistrations
  <2>3. QED
    BY <1>0, <1>2, <1>3, <2>1, <2>2
<1>7. ASSUME NEW o \in Observers, publish(o)
      PROVE  SameRegistrations(hs, hs') /\ Later(hs, hs')
  <2> DEFINE s == [Clear(hs) EXCEPT !.active = FALSE]
             e == advance(s, "scene_epoch")
  <2>1. \/ hs' = hs
        \/ hs' = RefuseLatest(hs)
        \/ hs' = RefuseLatest(e)
        \/ hs' = Publish(hs, ticket[o], graph[o])
    BY <1>7 DEF publish
  <2>2. s \in Handoff
    BY <1>3 DEF Handoff
  <2>3. SameRegistrations(hs, s) /\ Later(hs, s)
    <3>1. /\ SameRegistrations(hs, s)
          /\ s.lifecycle_epoch = hs.lifecycle_epoch /\ s.resource_counter = hs.resource_counter
          /\ s.capture_sequence = hs.capture_sequence /\ s.exhausted = hs.exhausted
      BY <1>0 DEF Clear, Handoff, SameRegistrations
    <3> HIDE DEF s
    <3>2. QED
      BY <1>0, <3>1, SameLater
  <2> HIDE DEF s
  <2>4. e \in Handoff /\ SameRegistrations(hs, e) /\ Later(hs, e)
    BY <1>2, <1>3, <2>2, <2>3, AdvanceType
  <2> HIDE DEF e
  <2>5. ASSUME NEW x \in Handoff, SameRegistrations(hs, x), Later(hs, x)
        PROVE  SameRegistrations(hs, RefuseLatest(x)) /\ Later(hs, RefuseLatest(x))
    <3> DEFINE y == RefuseLatest(x)
    <3>1. /\ SameRegistrations(x, y)
          /\ y.lifecycle_epoch = x.lifecycle_epoch /\ y.resource_counter = x.resource_counter
          /\ y.capture_sequence = x.capture_sequence /\ y.exhausted = x.exhausted
      BY DEF RefuseLatest, Handoff, SameRegistrations
    <3> HIDE DEF y
    <3>2. SameRegistrations(hs, y) /\ Later(hs, y)
      BY <2>5, <3>1 DEF Later, SameRegistrations
    <3>3. QED
      BY <3>2 DEF y
  <2>6. SameRegistrations(hs, hs) /\ Later(hs, hs)
    BY <1>0, SameLater DEF SameRegistrations
  <2>7. QED
    BY <1>0, <2>1, <2>4, <2>5, <2>6, PublishFields
<1>8. CASE UNCHANGED hs
  BY <1>0, <1>8, SameLater DEF SameRegistrations
<1>9. QED
  BY <1>1, <1>4, <1>5, <1>6, <1>7, <1>8 DEF Next, Abandon, Inspect, ObserveHint, ObserveMatch, Drop

\* A step leaves no publication, or keeps it with what its inspection saw, or
\* is the publish() of an observer.
LEMMA StepPublication ==
  ASSUME TypeOK, Next
  PROVE  \/ ~hs'.publication.valid
         \/ hs'.publication = hs.publication /\ witness' = witness
         \/ \E o \in Observers : Publishes(o)
<1>0. hs \in Handoff
  BY DEF TypeOK
<1>1. CASE Lifecycle
  <2> DEFINE s(c) == lifecycle_event(hs, c)
  <2>1. \A c : s(c) \in Handoff /\ (~s(c).publication.valid \/ s(c).publication = hs.publication)
    BY <1>0, LifecycleType, LifecycleTables DEF SameTables
  <2> HIDE DEF s
  <2>2. ASSUME NEW d \in Devices, register_device(d) \/ unregister_device(d)
        PROVE  (~hs'.publication.valid \/ hs'.publication = hs.publication) /\ witness' = witness
    <3> DEFINE t == advance(s(Null), "device_counter")
    <3>1. t \in Handoff /\ (~t.publication.valid \/ t.publication = hs.publication)
      BY <2>1, AdvanceTables, AdvanceType DEF Counters, SameTables
    <3>2. /\ \/ hs' = s(Null)
             \/ hs' = t
             \/ hs' = [t EXCEPT !.resources[d] = NoResources, !.epoch[d] = t.device_counter]
             \/ hs' = [s(Null) EXCEPT !.resources[d] = NoResources, !.epoch[d] = 0]
          /\ UNCHANGED engine
      BY <2>2 DEF register_device, unregister_device, s
    <3> HIDE DEF t
    <3>3. \A x \in Handoff : \A e : [x EXCEPT !.resources[d] = NoResources, !.epoch[d] = e].publication = x.publication
      BY DEF Handoff
    <3>4. hs'.publication = s(Null).publication \/ hs'.publication = t.publication
      <4>1. CASE hs' = s(Null) \/ hs' = t
        BY <4>1
      <4>2. CASE hs' = [t EXCEPT !.resources[d] = NoResources, !.epoch[d] = t.device_counter]
        BY <3>1, <3>3, <4>2
      <4>3. CASE hs' = [s(Null) EXCEPT !.resources[d] = NoResources, !.epoch[d] = 0]
        BY <2>1, <3>3, <4>3
      <4>4. QED
        BY <3>2, <4>1, <4>2, <4>3
    <3>5. QED
      BY <2>1, <3>1, <3>2, <3>4 DEF engine
  <2>3. ASSUME NEW d \in Devices, NEW h \in Handles, NEW id, NEW bad_alloc,
               register_resource(d, h, id, bad_alloc) \/ unregister_resource(d, h)
        PROVE  (~hs'.publication.valid \/ hs'.publication = hs.publication) /\ witness' = witness
    <3> DEFINE t == advance(s(h), "resource_counter")
               n == IF bad_alloc THEN NoResource ELSE [id |-> id, generation |-> t.resource_counter]
    <3>1. t \in Handoff /\ (~t.publication.valid \/ t.publication = hs.publication)
      BY <2>1, AdvanceTables, AdvanceType DEF Counters, SameTables
    <3>2. /\ \/ hs' = s(h)
             \/ hs' = t
             \/ hs' = [s(h) EXCEPT !.resources[d][h] = NoResource]
             \/ hs' = [t EXCEPT !.resources[d][h] = n]
          /\ UNCHANGED engine
      BY <2>3 DEF register_resource, unregister_resource, s
    <3> HIDE DEF t, n
    <3>3. \A x \in Handoff : \A k : [x EXCEPT !.resources[d][h] = k].publication = x.publication
      BY DEF Handoff
    <3>4. hs'.publication = s(h).publication \/ hs'.publication = t.publication
      BY <2>1, <3>1, <3>2, <3>3, ZenonT(30)
    <3>5. QED
      BY <2>1, <3>1, <3>2, <3>4 DEF engine
  <2>4. QED
    BY <1>1, <2>2, <2>3 DEF Lifecycle
\* begin_scene and stop_scene clear the publication first.
<1>2. ASSUME NEW x \in Handoff, ~x.publication.valid
      PROVE  ~advance(x, "scene_epoch").publication.valid /\ advance(x, "scene_epoch") \in Handoff
  BY <1>2, AdvanceTables, AdvanceType DEF Counters
<1>3. Clear(hs) \in Handoff /\ ~Clear(hs).publication.valid
  BY <1>0, ClearType, ClearedPublication
<1>4. CASE begin_scene
  <2> DEFINE s == [Clear(hs) EXCEPT !.owner_bound = FALSE, !.owner = Null, !.owned_ids = NoIds]
             t == advance(s, "scene_epoch")
  <2>1. s \in Handoff /\ ~s.publication.valid
    BY <1>3, EmptyTypes DEF Handoff
  <2>2. hs' = [t EXCEPT !.active = CanAdvance(s, "scene_epoch")]
    BY <1>4 DEF begin_scene
  <2> HIDE DEF s
  <2>3. t \in Handoff /\ ~t.publication.valid
    BY <1>2, <2>1
  <2> HIDE DEF t
  <2>4. QED
    BY <2>2, <2>3 DEF Handoff
<1>5. CASE stop_scene
  <2> DEFINE s == [Clear(hs) EXCEPT !.active = FALSE, !.owner_bound = FALSE]
  <2>1. s \in Handoff /\ ~s.publication.valid
    BY <1>3 DEF Handoff
  <2>2. hs' = advance(s, "scene_epoch")
    BY <1>5 DEF stop_scene
  <2> HIDE DEF s
  <2>3. QED
    BY <1>2, <2>1, <2>2
<1>6. ASSUME NEW o \in Observers, begin_capture(o)
      PROVE  (~hs'.publication.valid \/ hs'.publication = hs.publication) /\ witness' = witness
  <2>1. hs' = advance(hs, "capture_sequence") /\ witness' = witness
    BY <1>6 DEF begin_capture
  <2>2. QED
    BY <1>0, <2>1, AdvanceTables DEF Counters, SameTables
<1>7. ASSUME NEW o \in Observers, publish(o)
      PROVE  \/ ~hs'.publication.valid
             \/ hs'.publication = hs.publication /\ witness' = witness
             \/ Publishes(o)
  <2>1. CASE UNCHANGED <<hs, witness>>
    BY <2>1
  <2>2. CASE \E x : hs' = RefuseLatest(x) /\ x \in Handoff
    <3>1. PICK x \in Handoff : hs' = RefuseLatest(x)
      BY <2>2
    <3>2. hs'.publication = NoPublication
      BY <3>1 DEF RefuseLatest, Handoff
    <3>3. QED
      BY <3>2 DEF NoPublication
  <2>3. CASE Publishes(o)
    BY <2>3
  <2> DEFINE s == [Clear(hs) EXCEPT !.active = FALSE]
  <2>4. s \in Handoff
    BY <1>3 DEF Handoff
  <2>5. \/ UNCHANGED <<hs, witness>>
        \/ hs' = RefuseLatest(hs)
        \/ hs' = RefuseLatest(advance(s, "scene_epoch"))
        \/ Publishes(o)
    BY <1>7 DEF publish, Publishes
  <2> HIDE DEF s
  <2>6. advance(s, "scene_epoch") \in Handoff
    BY <2>4, AdvanceType DEF Counters
  <2>7. QED
    BY <1>0, <2>1, <2>2, <2>3, <2>5, <2>6
<1>8. CASE UNCHANGED <<hs, witness>>
  BY <1>8
<1>9. QED
  BY <1>1, <1>4, <1>5, <1>6, <1>7, <1>8
  DEF Next, Abandon, Inspect, ObserveHint, ObserveMatch, Drop, engine

\* The identities behind the handles of a graph, as Inspect() records them.
Looked(s, g) ==
  [f \in Feed |-> {IdentityOf(s, d, g.handles[f]) : d \in Holders(s, g.handles[f])}]

\* While its ticket is current, what an inspection saw is still so.
Fresh ==
  \A o \in Observers :
    /\ pc[o] # "idle" => ticket[o].lifecycle <= hs.lifecycle_epoch
    /\ pc[o] = "read" /\ ticket[o].lifecycle = hs.lifecycle_epoch /\ ~hs.exhausted
         => seen[o] = Looked(hs, graph[o])

\* What an inspection looks up depends on the registrations only.
LEMMA LookedSame ==
  ASSUME NEW s, NEW t, SameRegistrations(s, t), NEW g
  PROVE  Looked(t, g) = Looked(s, g)
<1>1. \A d, h : IdentityOf(t, d, h) = IdentityOf(s, d, h)
  BY DEF SameRegistrations, IdentityOf
<1>2. \A h : Holders(t, h) = Holders(s, h)
  BY DEF SameRegistrations, Holders
<1>3. QED
  BY <1>1, <1>2 DEF Looked

\* A step of another thread keeps an inspection fresh or makes its ticket stale.
LEMMA OthersFresh ==
  ASSUME TypeOK, Fresh, hs' \in Handoff, Later(hs, hs'),
         NEW o \in Observers, pc'[o] = pc[o], ticket'[o] = ticket[o],
         graph'[o] = graph[o], seen'[o] = seen[o]
  PROVE  /\ pc'[o] # "idle" => ticket'[o].lifecycle <= hs'.lifecycle_epoch
         /\ pc'[o] = "read" /\ ticket'[o].lifecycle = hs'.lifecycle_epoch /\ ~hs'.exhausted
              => seen'[o] = Looked(hs', graph'[o])
<1>1. /\ hs \in Handoff /\ ticket[o].lifecycle \in Nat
      /\ hs.lifecycle_epoch \in Nat /\ hs'.lifecycle_epoch \in Nat
  BY CounterTypes DEF TypeOK, Ticket
<1>2. ASSUME pc[o] # "idle" PROVE ticket[o].lifecycle <= hs'.lifecycle_epoch
  BY <1>1, <1>2 DEF Fresh, Later
<1>3. ASSUME pc[o] = "read", ticket[o].lifecycle = hs'.lifecycle_epoch, ~hs'.exhausted
      PROVE  seen[o] = Looked(hs', graph[o])
  <2>1. /\ ticket[o].lifecycle = hs.lifecycle_epoch /\ ~hs.exhausted
        /\ SameRegistrations(hs, hs')
    BY <1>1, <1>3 DEF Fresh, Later
  <2>2. seen[o] = Looked(hs, graph[o])
    BY <1>3, <2>1 DEF Fresh
  <2>3. QED
    BY <2>1, <2>2, LookedSame
<1>4. QED
  BY <1>2, <1>3

LEMMA StepFresh == ASSUME TypeOK, Fresh, Next PROVE Fresh'
<1> DEFINE Ok(o) ==
      /\ pc'[o] # "idle" => ticket'[o].lifecycle <= hs'.lifecycle_epoch
      /\ pc'[o] = "read" /\ ticket'[o].lifecycle = hs'.lifecycle_epoch /\ ~hs'.exhausted
           => seen'[o] = Looked(hs', graph'[o])
      Stays(o) == pc'[o] = pc[o] /\ ticket'[o] = ticket[o] /\ graph'[o] = graph[o] /\ seen'[o] = seen[o]
<1>0. hs \in Handoff /\ hs' \in Handoff /\ Later(hs, hs')
  BY StepType, StepLater DEF TypeOK
<1>1. \A o \in Observers : Stays(o) => Ok(o)
  BY <1>0, OthersFresh
<1>2. SUFFICES \A o \in Observers : Ok(o)
  BY DEF Fresh, Looked, Holders, IdentityOf
<1> HIDE DEF Ok
<1>3. CASE UNCHANGED engine
  BY <1>1, <1>3 DEF engine
<1>4. ASSUME NEW o \in Observers, begin_capture(o) PROVE \A u \in Observers : Ok(u)
  <2> DEFINE t == advance(hs, "capture_sequence")
  <2>1. \A u \in Observers : u # o => Stays(u)
    BY <1>4 DEF begin_capture, TypeOK
  <2>2. /\ hs' = t /\ pc'[o] \in {"idle", "open"}
        /\ ~t.exhausted => ticket'[o].lifecycle = t.lifecycle_epoch
        /\ t.exhausted => pc'[o] = "idle"
    BY <1>4 DEF begin_capture, TypeOK
  <2> HIDE DEF t
  <2>3. Ok(o)
    BY <1>0, <2>2, CounterTypes DEF Ok
  <2>4. QED
    BY <1>1, <2>1, <2>3
<1>5. ASSUME NEW o \in Observers, NEW g \in Graphs, Inspect(o, g) PROVE \A u \in Observers : Ok(u)
  <2>1. \A u \in Observers : u # o => Stays(u)
    BY <1>5 DEF Inspect, TypeOK
  <2>2. /\ hs' = hs /\ ticket' = ticket /\ pc[o] # "idle"
        /\ graph'[o] = g /\ seen'[o] = Looked(hs, g)
    BY <1>5 DEF Inspect, TypeOK, Looked
  <2>3. Ok(o)
    BY <2>2 DEF Ok, Fresh
  <2>4. QED
    BY <1>1, <2>1, <2>3
<1>6. ASSUME NEW o \in Observers, Abandon(o) \/ publish(o) PROVE \A u \in Observers : Ok(u)
  <2>1. /\ pc' = [pc EXCEPT ![o] = "idle"]
        /\ ticket' = [ticket EXCEPT ![o] = NoTicket]
        /\ graph' = [graph EXCEPT ![o] = NoGraph]
        /\ seen' = [seen EXCEPT ![o] = Unseen]
    BY <1>6 DEF Abandon, publish
  <2>2. \A u \in Observers : u # o => Stays(u)
    BY <2>1 DEF TypeOK
  <2>3. Ok(o)
    BY <2>1 DEF Ok, TypeOK
  <2>4. QED
    BY <1>1, <2>2, <2>3
<1>7. Lifecycle => UNCHANGED engine
  <2>1. \A d : register_device(d) \/ unregister_device(d) => UNCHANGED engine
    BY DEF register_device, unregister_device
  <2>2. \A d, h, id, b : register_resource(d, h, id, b) \/ unregister_resource(d, h) => UNCHANGED engine
    BY DEF register_resource, unregister_resource
  <2>3. QED
    BY <2>1, <2>2 DEF Lifecycle
<1>8. QED
  BY <1>3, <1>4, <1>5, <1>6, <1>7 DEF Next, begin_scene, stop_scene, ObserveHint, ObserveMatch, Drop

\* Publishing stores, for every handle, the one identity that is behind it now.
LEMMA PublishLooked ==
  ASSUME NEW s \in Handoff, NEW t, NEW g, Resolvable(s, g), NEW f \in Feed, g.handles[f] # Null
  PROVE  Looked(s, g)[f] = {Publish(s, t, g).publication.resources[f]}
<1> DEFINE d == CHOOSE x \in Devices : \A e \in Feed : g.handles[e] # Null => Holders(s, g.handles[e]) = {x}
<1>1. d \in Devices /\ \A e \in Feed : g.handles[e] # Null => Holders(s, g.handles[e]) = {d}
  BY DEF Resolvable
<1>2. Publish(s, t, g).publication.resources
        = [e \in Feed |-> IF g.handles[e] = Null THEN NoIdentity ELSE IdentityOf(s, d, g.handles[e])]
  BY DEF Publish, Handoff
<1> HIDE DEF d
<1>3. Publish(s, t, g).publication.resources[f] = IdentityOf(s, d, g.handles[f])
  BY <1>2
<1>4. Holders(s, g.handles[f]) = {d}
  BY <1>1
<1>5. Looked(s, g)[f] = {IdentityOf(s, x, g.handles[f]) : x \in Holders(s, g.handles[f])}
  BY DEF Looked
<1>6. QED
  BY <1>3, <1>4, <1>5

LEMMA StepInspected ==
  ASSUME TypeOK, Fresh, PublishedAsInspected, Next PROVE PublishedAsInspected'
<1>0. hs \in Handoff
  BY DEF TypeOK
<1>1. CASE ~hs'.publication.valid
  BY <1>1 DEF PublishedAsInspected
<1>2. CASE hs'.publication = hs.publication /\ witness' = witness
  BY <1>2 DEF PublishedAsInspected
<1>3. ASSUME NEW o \in Observers, Publishes(o) PROVE PublishedAsInspected'
  <2> DEFINE p == Publish(hs, ticket[o], graph[o])
  <2>1. seen[o] = Looked(hs, graph[o])
    BY <1>3 DEF Publishes, TicketCurrent, Fresh
  <2>2. hs' = p /\ witness' = seen[o] /\ p.publication.graph = graph[o] /\ Resolvable(hs, graph[o])
    BY <1>0, <1>3, PublishFields DEF Publishes
  <2>3. \A f \in Feed : graph[o].handles[f] # Null => Looked(hs, graph[o])[f] = {p.publication.resources[f]}
    BY <1>0, <2>2, PublishLooked
  <2> HIDE DEF p
  <2>4. QED
    BY <2>1, <2>2, <2>3 DEF PublishedAsInspected
<1>4. QED
  BY <1>1, <1>2, <1>3, StepPublication

LEMMA InspectedAlways == Spec => [](Fresh /\ PublishedAsInspected)
<1>1. Init => Fresh /\ PublishedAsInspected
  BY DEF Init, Fresh, PublishedAsInspected, NoPublication
<1>2. TypeOK /\ Fresh /\ PublishedAsInspected /\ [Next]_vars => Fresh' /\ PublishedAsInspected'
  <2> SUFFICES ASSUME TypeOK, Fresh, PublishedAsInspected, [Next]_vars
               PROVE  Fresh' /\ PublishedAsInspected'
    OBVIOUS
  <2>1. CASE Next
    BY <2>1, StepFresh, StepInspected
  <2>2. CASE UNCHANGED vars
    <3>1. UNCHANGED <<hs, pc, ticket, graph, seen, witness>>
      BY <2>2 DEF vars
    <3>2. Fresh'
      <4>1. ASSUME NEW o \in Observers
            PROVE  /\ pc'[o] # "idle" => ticket'[o].lifecycle <= hs'.lifecycle_epoch
                   /\ pc'[o] = "read" /\ ticket'[o].lifecycle = hs'.lifecycle_epoch /\ ~hs'.exhausted
                        => seen'[o] = Looked(hs', graph'[o])
        <5>1. Looked(hs', graph'[o]) = Looked(hs, graph[o])
          BY <3>1
        <5>2. QED
          BY <3>1, <5>1 DEF Fresh
      <4>2. QED
        BY <4>1 DEF Fresh
    <3>3. PublishedAsInspected'
      BY <3>1 DEF PublishedAsInspected
    <3>4. QED
      BY <3>2, <3>3
  <2>3. QED
    BY <2>1, <2>2
<1>3. QED
  BY <1>1, <1>2, TypeCorrect, PTL DEF Spec

\* Whatever lifecycle callbacks, scene changes and other inspections run while
\* the engine is read without the mutex, a publication names exactly the
\* incarnations that lived at the published handles when they were read.
THEOREM InspectionSafe == Spec => []PublishedAsInspected
  BY InspectedAlways, PTL

(***************************************************************************)
(* Incarnations.  The generation of a registration is never used twice, so *)
(* a match whose incarnation ended finds it nowhere any more, whatever has *)
(* been registered and published at its address since.                     *)
(***************************************************************************)
Unique ==
  \A d, e \in Devices, g, h \in Handles :
    hs.resources[d][g].generation # 0 /\ hs.resources[d][g].generation = hs.resources[e][h].generation
      => d = e /\ g = h

Counted == \A d \in Devices, h \in Handles : hs.resources[d][h].generation <= hs.resource_counter

\* The incarnation of a held match was registered once; a dead one is gone.
Forgotten ==
  \A r \in Recorders : copy[r].match.matched =>
    /\ copy[r].match.resource.generation \in 1 .. hs.resource_counter
    /\ dead[r] => \A d \in Devices, h \in Handles :
         hs.resources[d][h].generation # copy[r].match.resource.generation

Incarnations == Unique /\ Counted /\ Forgotten

\* The registered generations and those of held matches are numbers.
LEMMA GenerationTypes ==
  ASSUME TypeOK
  PROVE  /\ hs.resource_counter \in Nat
         /\ \A d \in Devices, h \in Handles : hs.resources[d][h].generation \in Nat
         /\ \A r \in Recorders : copy[r].match.resource.generation \in Nat
  BY CounterTypes DEF TypeOK, Handoff, Resource, Match, Identity

\* A lifecycle callback leaves the held matches alone.
LEMMA LifecycleKeepsCopies == ASSUME Lifecycle PROVE copy' = copy
<1>1. \A d : register_device(d) \/ unregister_device(d) => copy' = copy
  BY DEF register_device, unregister_device
<1>2. \A d, h, id, b : register_resource(d, h, id, b) \/ unregister_resource(d, h) => copy' = copy
  BY DEF register_resource, unregister_resource
<1>3. QED
  BY <1>1, <1>2 DEF Lifecycle

\* Each kind of change keeps generations unique and ends what it removes: a
\* generation after the step is an old one at its place, or new, or none.
LEMMA LifecycleIncarnations == ASSUME TypeOK, Incarnations, Lifecycle PROVE Incarnations'
<1> DEFINE G(d, h) == hs.resources[d][h].generation
           N(d, h) == hs'.resources[d][h].generation
           M(r) == copy[r].match.resource.generation
           matched(r) == copy[r].match.matched
\* The three shapes in terms of generations: at most one place gets a new one.
<1>1. /\ hs.resource_counter \in Nat /\ hs'.resource_counter \in Nat
      /\ hs'.resource_counter >= hs.resource_counter
      /\ \A d \in Devices, h \in Handles : G(d, h) \in Nat
      /\ \A r \in Recorders : M(r) \in Nat
      /\ copy' = copy
  <2>1. hs' \in Handoff
    BY StepType DEF Next
  <2>2. QED
    BY <2>1, GenerationTypes, CounterTypes, LifecycleShape, LifecycleKeepsCopies DEF Later
<1>2. \E D, H : \A d \in Devices, h \in Handles :
        \/ N(d, h) = G(d, h) \/ N(d, h) = 0
        \/ d = D /\ h = H /\ N(d, h) = hs.resource_counter + 1 /\ N(d, h) <= hs'.resource_counter
  <2>1. CASE KeepsAll
    BY <2>1 DEF KeepsAll
  <2>2. ASSUME NEW e \in Devices, DropsDevice(e)
        PROVE  \A d \in Devices, h \in Handles : N(d, h) = G(d, h) \/ N(d, h) = 0
    BY <2>2 DEF DropsDevice, NoResources, NoResource, TypeOK, Handoff
  <2>3. ASSUME NEW e \in Devices, NEW g \in Handles, ReplacesOne(e, g)
        PROVE  \A d \in Devices, h \in Handles :
                 \/ N(d, h) = G(d, h) \/ N(d, h) = 0
                 \/ d = e /\ h = g /\ N(d, h) = hs.resource_counter + 1 /\ N(d, h) <= hs'.resource_counter
    <3>1. PICK n \in Resource :
            /\ hs'.resources = [hs.resources EXCEPT ![e][g] = n]
            /\ n.generation = 0 \/ (n.generation = hs.resource_counter + 1
                                    /\ n.generation <= hs'.resource_counter)
      BY <2>3 DEF ReplacesOne
    <3>2. hs.resources \in [Devices -> [Handles -> Resource]]
      BY DEF TypeOK, Handoff
    <3>3. \A d \in Devices, h \in Handles :
            hs'.resources[d][h] = IF d = e /\ h = g THEN n ELSE hs.resources[d][h]
      BY <3>1, <3>2
    <3>4. QED
      BY <3>1, <3>3
  <2>4. QED
    BY <2>1, <2>2, <2>3, LifecycleShape
\* A match that dies in this step loses its place.
<1>3. ASSUME NEW r \in Recorders, matched(r), dead'[r], ~dead[r], NEW e \in Devices, NEW g \in Handles
      PROVE  N(e, g) # M(r) \/ N(e, g) # G(e, g)
  <2>1. CASE KeepsAll
    BY <1>3, <2>1 DEF KeepsAll, Dies
  <2>2. ASSUME NEW d \in Devices, DropsDevice(d) PROVE N(e, g) # M(r) \/ N(e, g) # G(e, g)
    <3>1. PICK h \in Handles : G(d, h) # 0 /\ M(r) = G(d, h)
      <4>1. copy[r].match.resource \in Ended(hs, d)
        BY <1>3, <2>2 DEF DropsDevice, Dies
      <4>2. QED
        BY <4>1 DEF Ended, IdentityOf
    <3>2. N(d, h) = 0
      BY <2>2 DEF DropsDevice, NoResources, NoResource, TypeOK, Handoff
    <3>3. G(e, g) = M(r) => e = d /\ g = h
      BY <3>1 DEF Incarnations, Unique
    <3>4. QED
      BY <3>1, <3>2, <3>3
  <2>3. ASSUME NEW d \in Devices, NEW h \in Handles, ReplacesOne(d, h)
        PROVE  N(e, g) # M(r) \/ N(e, g) # G(e, g)
    <3>1. PICK n \in Resource :
            /\ hs'.resources = [hs.resources EXCEPT ![d][h] = n]
            /\ n.generation = 0 \/ n.generation = hs.resource_counter + 1
            /\ Dies(EndedAt(hs, d, h))
      BY <2>3 DEF ReplacesOne
    <3>2. G(d, h) # 0 /\ M(r) = G(d, h)
      <4>1. copy[r].match.resource \in EndedAt(hs, d, h)
        BY <1>3, <3>1 DEF Dies
      <4>2. QED
        BY <4>1 DEF EndedAt, IdentityOf
    <3>3. N(d, h) = n.generation
      <4>1. hs.resources \in [Devices -> [Handles -> Resource]]
        BY DEF TypeOK, Handoff
      <4>2. QED
        BY <3>1, <4>1
    <3>4. G(e, g) = M(r) => e = d /\ g = h
      BY <3>2 DEF Incarnations, Unique
    <3>5. G(d, h) <= hs.resource_counter
      BY DEF Incarnations, Counted
    <3>6. QED
      BY <1>1, <3>1, <3>2, <3>3, <3>4, <3>5
  <2>4. QED
    BY <2>1, <2>2, <2>3, LifecycleShape
<1>4. PICK D, H : \A d \in Devices, h \in Handles :
        \/ N(d, h) = G(d, h) \/ N(d, h) = 0
        \/ d = D /\ h = H /\ N(d, h) = hs.resource_counter + 1 /\ N(d, h) <= hs'.resource_counter
  BY <1>2
<1>5. /\ \A d \in Devices, h \in Handles : G(d, h) <= hs.resource_counter
      /\ \A d, e \in Devices, g, h \in Handles : G(d, g) # 0 /\ G(d, g) = G(e, h) => d = e /\ g = h
      /\ \A r \in Recorders : matched(r) =>
           /\ M(r) \in 1 .. hs.resource_counter
           /\ dead[r] => \A d \in Devices, h \in Handles : G(d, h) # M(r)
  BY DEF Incarnations, Unique, Counted, Forgotten
<1> HIDE DEF G, N, M, matched
<1>6. \A d, e \in Devices, g, h \in Handles : N(d, g) # 0 /\ N(d, g) = N(e, h) => d = e /\ g = h
  <2> SUFFICES ASSUME NEW d \in Devices, NEW e \in Devices, NEW g \in Handles, NEW h \in Handles,
                      N(d, g) # 0, N(d, g) = N(e, h)
               PROVE  d = e /\ g = h
    OBVIOUS
  <2>1. /\ G(d, g) \in Nat /\ G(e, h) \in Nat
        /\ G(d, g) <= hs.resource_counter /\ G(e, h) <= hs.resource_counter
    BY <1>1, <1>5
  <2>2. CASE N(d, g) = G(d, g) /\ N(e, h) = G(e, h)
    <3>1. G(d, g) # 0 /\ G(d, g) = G(e, h)
      BY <2>2
    <3>2. QED
      BY <3>1 DEF G, Incarnations, Unique
  <2>3. CASE N(d, g) # G(d, g) \/ N(e, h) # G(e, h)
    <3>1. /\ \/ N(d, g) = G(d, g) \/ N(d, g) = 0
             \/ d = D /\ g = H /\ N(d, g) = hs.resource_counter + 1
          /\ \/ N(e, h) = G(e, h) \/ N(e, h) = 0
             \/ e = D /\ h = H /\ N(e, h) = hs.resource_counter + 1
      BY <1>4, Zenon
    <3>2. N(d, g) = hs.resource_counter + 1 /\ N(e, h) = hs.resource_counter + 1
      BY <2>3, <3>1
    <3>3. N(d, g) # G(d, g) /\ N(e, h) # G(e, h)
      BY <1>1, <2>1, <3>2
    <3>4. QED
      BY <3>1, <3>3
  <2>4. QED
    BY <2>2, <2>3
<1>7. \A d \in Devices, h \in Handles : N(d, h) <= hs'.resource_counter
  BY <1>1, <1>4, <1>5
<1>8. \A r \in Recorders : matched(r) =>
        /\ M(r) \in 1 .. hs'.resource_counter
        /\ dead'[r] => \A d \in Devices, h \in Handles : N(d, h) # M(r)
  <2> SUFFICES ASSUME NEW r \in Recorders, matched(r)
               PROVE  /\ M(r) \in 1 .. hs'.resource_counter
                      /\ dead'[r] => \A d \in Devices, h \in Handles : N(d, h) # M(r)
    OBVIOUS
  <2>1. M(r) \in 1 .. hs'.resource_counter
    BY <1>1, <1>5
  <2>2. ASSUME dead'[r], NEW d \in Devices, NEW h \in Handles PROVE N(d, h) # M(r)
    <3>1. M(r) # 0 /\ M(r) # hs.resource_counter + 1
      BY <1>1, <1>5
    <3>2. CASE dead[r]
      BY <1>4, <1>5, <3>1, <3>2
    <3>3. CASE ~dead[r]
      BY <1>3, <1>4, <2>2, <3>1, <3>3
    <3>4. QED
      BY <3>2, <3>3
  <2>3. QED
    BY <2>1, <2>2
<1>9. QED
  BY <1>1, <1>6, <1>7, <1>8 DEF Incarnations, Unique, Counted, Forgotten, G, N, M, matched

LEMMA StepIncarnations == ASSUME TypeOK, Incarnations, Next PROVE Incarnations'
<1>0. hs \in Handoff /\ hs' \in Handoff /\ Later(hs, hs')
  BY StepType, StepLater DEF TypeOK
<1>1. CASE Lifecycle
  BY <1>1, LifecycleIncarnations
\* Without a lifecycle callback only what a recorder holds can change.
<1>2. ASSUME ~Lifecycle,
             \A r \in Recorders :
               \/ copy'[r].match = copy[r].match /\ dead'[r] = dead[r]
               \/ /\ copy'[r].match.matched =>
                       \E d \in Devices, h \in Handles :
                          /\ hs.resources[d][h].generation # 0
                          /\ copy'[r].match.resource.generation = hs.resources[d][h].generation
                  /\ ~dead'[r]
      PROVE  Incarnations'
  <2>1. /\ hs'.resources = hs.resources
        /\ hs.resource_counter \in Nat /\ hs'.resource_counter \in Nat
        /\ hs'.resource_counter >= hs.resource_counter
    BY <1>0, <1>2, StepLater, CounterTypes DEF Later, SameRegistrations
  <2>2. Unique' /\ Counted'
    <3>1. \A d \in Devices, h \in Handles : hs.resources[d][h].generation \in Nat
      BY GenerationTypes
    <3>2. QED
      BY <2>1, <3>1 DEF Incarnations, Unique, Counted
  <2>3. ASSUME NEW r \in Recorders, copy'[r].match.matched
        PROVE  /\ copy'[r].match.resource.generation \in 1 .. hs'.resource_counter
               /\ dead'[r] => \A d \in Devices, h \in Handles :
                    hs'.resources[d][h].generation # copy'[r].match.resource.generation
    <3>1. CASE copy'[r].match = copy[r].match /\ dead'[r] = dead[r]
      BY <2>1, <2>3, <3>1, GenerationTypes DEF Incarnations, Forgotten
    <3>2. CASE ~dead'[r] /\ \E d \in Devices, h \in Handles :
                               /\ hs.resources[d][h].generation # 0
                               /\ copy'[r].match.resource.generation = hs.resources[d][h].generation
      BY <2>1, <3>2, GenerationTypes DEF Incarnations, Counted
    <3>3. QED
      BY <1>2, <2>3, <3>1, <3>2
  <2>4. QED
    BY <2>2, <2>3 DEF Incarnations, Forgotten
<1>3. ASSUME ~Lifecycle, UNCHANGED <<copy, dead>> PROVE Incarnations'
  BY <1>2, <1>3
<1>4. ASSUME ~Lifecycle, NEW r \in Recorders, NEW d \in Devices, NEW h \in Handles, ObserveHint(r, d, h)
      PROVE  Incarnations'
  <2>1. /\ \A q \in Recorders : q # r => copy'[q] = copy[q]
        /\ copy'[r].match = NoMatch /\ dead' = dead
        /\ ~NoMatch.matched
    BY <1>4 DEF ObserveHint, TypeOK, NoMatch
  <2>2. \A q \in Recorders : copy'[q].match.matched => copy'[q].match = copy[q].match
    BY <2>1
  <2>3. /\ hs' = hs
    BY <1>4 DEF ObserveHint
  <2>4. QED
    BY <2>1, <2>2, <2>3 DEF Incarnations, Unique, Counted, Forgotten
<1>5. ASSUME ~Lifecycle, NEW r \in Recorders, ObserveMatch(r) \/ Drop(r) PROVE Incarnations'
  <2> DEFINE m == match(hs, copy[r].device, copy[r].handle)
  <2>1. /\ \A q \in Recorders : q # r => copy'[q] = copy[q] /\ dead'[q] = dead[q]
        /\ ~dead'[r]
        /\ copy'[r].match = m \/ copy'[r].match = NoMatch
    <3>1. copy \in [Recorders -> CopyType] /\ dead \in [Recorders -> BOOLEAN]
      BY DEF TypeOK, CopyType
    <3>2. CASE Drop(r)
      BY <3>1, <3>2 DEF Drop
    <3>3. CASE ObserveMatch(r)
      <4> DEFINE c == [copy[r] EXCEPT !.pc = IF m.matched THEN "held" ELSE "idle",
                                      !.device = Null, !.handle = Null, !.match = m]
      <4>1. copy' = [copy EXCEPT ![r] = c] /\ dead' = [dead EXCEPT ![r] = FALSE]
        BY <3>1, <3>3 DEF ObserveMatch
      <4>2. c.match = m
        BY <3>1 DEF CopyType
      <4> HIDE DEF c, m
      <4>3. QED
        BY <3>1, <4>1, <4>2
    <3>4. QED
      BY <1>5, <3>2, <3>3
  <2>2. copy[r].device \in Devices \union {Null} /\ copy[r].handle \in Handles \union {Null}
    BY DEF TypeOK
  <2>3. m.matched => \E d \in Devices, h \in Handles :
                        /\ hs.resources[d][h].generation # 0
                        /\ m.resource.generation = hs.resources[d][h].generation
    <3>1. ASSUME m.matched
          PROVE  /\ copy[r].device \in Devices /\ copy[r].handle \in Handles
                 /\ hs.resources[copy[r].device][copy[r].handle].generation # 0
                 /\ m.resource.generation = hs.resources[copy[r].device][copy[r].handle].generation
      <4>1. /\ MatchingFeeds(hs, copy[r].device, copy[r].handle) # {}
            /\ m.resource = IdentityOf(hs, copy[r].device, copy[r].handle)
        BY <3>1 DEF match, NoMatch
      <4> HIDE DEF m
      <4>2. /\ copy[r].handle # Null /\ copy[r].device # Null
            /\ hs.resources[copy[r].device][copy[r].handle].generation # 0
        BY <4>1, ZenonT(30) DEF MatchingFeeds
      <4>3. m.resource.generation = hs.resources[copy[r].device][copy[r].handle].generation
        BY <4>1 DEF IdentityOf
      <4>4. QED
        BY <2>2, <4>2, <4>3
    <3> HIDE DEF m
    <3>2. QED
      BY <3>1
  <2> HIDE DEF m
  <2>4. ~NoMatch.matched
    BY DEF NoMatch
  <2>5. QED
    BY <1>2, <1>5, <2>1, <2>3, <2>4
<1>6. QED
  BY <1>1, <1>3, <1>4, <1>5
  DEF Next, begin_scene, stop_scene, begin_capture, Abandon, publish, Inspect

LEMMA IncarnationsAlways == Spec => []Incarnations
<1>1. Init => Incarnations
  BY DEF Init, Incarnations, Unique, Counted, Forgotten, NoResources, NoResource, NoMatch
<1>2. TypeOK /\ Incarnations /\ [Next]_vars => Incarnations'
  <2> SUFFICES ASSUME TypeOK, Incarnations, [Next]_vars PROVE Incarnations'
    OBVIOUS
  <2>1. CASE UNCHANGED vars
    BY <2>1 DEF vars, Incarnations, Unique, Counted, Forgotten
  <2>2. QED
    BY <2>1, StepIncarnations
<1>3. QED
  BY <1>1, <1>2, TypeCorrect, PTL DEF Spec

\* A match a recorder still holds passes is_current() only while the very
\* incarnation it copied from lives, for any sequence of destructions,
\* registrations and publications at the same address.
THEOREM MatchSafe == Spec => []CurrentMatchIsLive
<1>1. TypeOK /\ Incarnations => CurrentMatchIsLive
  <2> SUFFICES ASSUME TypeOK, Incarnations, NEW r \in Recorders, is_current(hs, copy[r].match)
               PROVE  ~dead[r]
    BY DEF CurrentMatchIsLive
  <2> DEFINE m == copy[r].match
             d == hs.publication.device
             h == hs.publication.graph.handles[m.feed]
             now == match(hs, d, h)
  <2>1. m.matched /\ now.matched /\ m.resource = now.resource
    BY DEF is_current
  <2>2. hs \in Handoff /\ d \in Devices \union {Null} /\ h \in Handles \union {Null}
    BY DEF TypeOK, Handoff, Publication, Graph, Match
  <2>3. /\ d \in Devices /\ h \in Handles
        /\ now.resource.generation = hs.resources[d][h].generation
    <3>1. MatchingFeeds(hs, d, h) # {} /\ now.resource = IdentityOf(hs, d, h)
      BY <2>1 DEF match, NoMatch
    <3> HIDE DEF now, d, h
    <3>2. QED
      BY <2>2, <3>1 DEF MatchingFeeds, IdentityOf
  <2> HIDE DEF now, d, h
  <2>4. QED
    BY <2>1, <2>3 DEF Incarnations, Forgotten
<1>2. QED
  BY <1>1, TypeCorrect, IncarnationsAlways, PTL

(***************************************************************************)
(* The published sequence.                                                 *)
(***************************************************************************)

\* Nothing is published under a sequence that was not given out yet.
Ordered == hs.publication.valid => hs.publication.sequence <= hs.capture_sequence

LEMMA StepOrdered ==
  ASSUME TypeOK, Ordered, Next
  PROVE  /\ Ordered'
         /\ hs.publication.valid /\ hs'.publication.valid
              => hs'.publication.sequence >= hs.publication.sequence
<1>1. /\ hs \in Handoff /\ hs.capture_sequence \in Nat /\ hs'.capture_sequence \in Nat
      /\ hs'.capture_sequence >= hs.capture_sequence
      /\ hs.publication.sequence \in Nat
  <2>1. hs \in Handoff /\ hs' \in Handoff
    BY StepType DEF TypeOK
  <2>2. QED
    BY <2>1, StepLater, CounterTypes DEF Later, Handoff, Publication
<1>2. CASE ~hs'.publication.valid
  BY <1>2 DEF Ordered
<1>3. CASE hs'.publication = hs.publication
  BY <1>1, <1>3 DEF Ordered
<1>4. ASSUME NEW o \in Observers, Publishes(o)
      PROVE  /\ hs'.publication.sequence = hs.capture_sequence
             /\ hs'.capture_sequence = hs.capture_sequence
  BY <1>1, <1>4, PublishFields DEF Publishes, TicketCurrent
<1>5. QED
  BY <1>1, <1>2, <1>3, <1>4, StepPublication DEF Ordered

LEMMA StepSuperseded ==
  ASSUME TypeOK, Ordered, Next, NEW o \in Observers, Superseded(o), pc'[o] = "idle"
  PROVE  hs'.publication = hs.publication
<1>1. /\ hs \in Handoff /\ ticket[o].sequence \in Nat
      /\ hs.capture_sequence \in Nat /\ hs.publication.sequence \in Nat
  BY CounterTypes DEF TypeOK, Handoff, Publication, Ticket
<1>2. ~TicketCurrent(hs, ticket[o])
  BY <1>1 DEF Superseded, Ordered, TicketCurrent
<1>3. /\ pc \in [Observers -> {"idle", "open", "read"}] /\ pc[o] = "read"
      /\ pc' # pc
  BY DEF TypeOK, Superseded
<1>4. ASSUME NEW q \in Observers, begin_capture(q) \/ Abandon(q) \/ publish(q)
      PROVE  hs'.publication = hs.publication
  <2>1. CASE q # o
    <3>1. \E v : pc' = [pc EXCEPT ![q] = v]
      BY <1>4 DEF begin_capture, Abandon, publish
    <3>2. QED
      BY <1>3, <2>1, <3>1
  <2>2. CASE begin_capture(o)
    BY <1>3, <2>2 DEF begin_capture
  <2>3. CASE Abandon(o)
    BY <2>3 DEF Abandon
  <2>4. CASE publish(o)
    BY <1>2, <2>4, Zenon DEF publish
  <2>5. QED
    BY <1>4, <2>1, <2>2, <2>3, <2>4
<1>5. ASSUME NEW q \in Observers, NEW g \in Graphs, Inspect(q, g)
      PROVE  hs'.publication = hs.publication
  BY <1>5 DEF Inspect
<1>6. ASSUME NEW d \in Devices, register_device(d) \/ unregister_device(d) PROVE pc' = pc
  BY <1>6, Zenon DEF register_device, unregister_device, engine
<1>7. ASSUME NEW d \in Devices, NEW h \in Handles, unregister_resource(d, h) PROVE pc' = pc
  BY <1>7, Zenon DEF unregister_resource, engine
<1>8. ASSUME begin_scene \/ stop_scene PROVE pc' = pc
  BY <1>8, Zenon DEF begin_scene, stop_scene, engine
<1>9. ASSUME NEW r \in Recorders, NEW d \in Devices, NEW h \in Handles,
             ObserveHint(r, d, h)
      PROVE  pc' = pc
  BY <1>9, Zenon DEF ObserveHint, engine
<1>10. ASSUME NEW r \in Recorders, ObserveMatch(r) \/ Drop(r) PROVE pc' = pc
  BY <1>10, Zenon DEF ObserveMatch, Drop, engine
<1>11. ASSUME NEW d \in Devices, NEW h \in Handles, NEW id \in RegistryIds \union {Null},
              NEW bad_alloc \in BOOLEAN, register_resource(d, h, id, bad_alloc)
       PROVE  pc' = pc
  BY <1>11, Zenon DEF register_resource, engine
<1>12. ASSUME Lifecycle PROVE pc' = pc
  BY <1>6, <1>7, <1>11, <1>12 DEF Lifecycle
<1>13. QED
  BY <1>3, <1>4, <1>5, <1>8, <1>9, <1>10, <1>12 DEF Next

\* Of two overlapping inspections the older neither replaces nor revokes what
\* the newer published, whatever steps of whatever threads come between.
THEOREM SequenceSafe == Spec => SequenceNeverRegresses
<1>1. Init => Ordered
  BY DEF Init, Ordered, NoPublication
<1>2. TypeOK /\ Ordered /\ [Next]_vars => Ordered'
  BY StepOrdered DEF vars, Ordered
<1>3. TypeOK /\ Ordered /\ [Next]_vars
        => [/\ hs.publication.valid /\ hs'.publication.valid
                 => hs'.publication.sequence >= hs.publication.sequence
            /\ \A o \in Observers :
                 Superseded(o) /\ pc'[o] = "idle" => hs'.publication = hs.publication]_vars
  BY StepOrdered, StepSuperseded
<1>4. QED
  BY <1>1, <1>2, <1>3, TypeCorrect, PTL DEF Spec, SequenceNeverRegresses
=============================================================================

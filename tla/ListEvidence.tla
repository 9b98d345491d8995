---------------------------- MODULE ListEvidence ----------------------------
(***************************************************************************)
(* What the capture manager knows of the simulator's command lists          *)
(* (graphics/scene_capture_manager.cpp).  A recording thread reports its    *)
(* source barriers, Resets and destructions under the manager's mutex.      *)
(* When its time budget expires it leaves an entry in a bounded lock-free   *)
(* ring instead (shared/bounded_lock.hpp, DeferredRing), which the next     *)
(* holder of the mutex applies.  A Reset of a list that its last retirement *)
(* left clean takes no lock at all.  A submission thread asks what a list   *)
(* carries: lock-free when the mutex is busy, under it otherwise.           *)
(*                                                                          *)
(* Every list is recorded by one thread at a time.  A recording is "now"    *)
(* until the next native Reset of its list; effects and entries of earlier  *)
(* recordings are "before".  Packets, leases and device failures are left   *)
(* to CaptureSubmission: here an effect is any one that must be ordered.    *)
(***************************************************************************)
EXTENDS Integers, Sequences

CONSTANTS
    Lists,          \* addresses of native command lists
    Recycled,       \* those whose lists the application Resets and destroys
    RingSize,       \* DeferredRing's Capacity
    MaxRenewals     \* bound: reused addresses and session resets

ASSUME ListAssumption ==
    /\ RingSize \in Nat \ {0}
    /\ Recycled \subseteq Lists
    /\ MaxRenewals \in Nat

VARIABLES
    native,         \* per address: the object there and what was recorded into it
    item,           \* lists_ and its published words
    clean,          \* PublishedList::clean
    ring,           \* deferred_work_: claimed tickets, oldest first
    lost,           \* DeferredRing::overflow_
    holder,         \* how far the thread that holds mutex_ has drained
    seen,           \* what the submission that just asked took its lists for
    past,           \* history: what befell each list's entries
    renewals        \* reused addresses and session resets so far

vars == <<native, item, clean, ring, lost, holder, seen, past, renewals>>

-----------------------------------------------------------------------------
(* A list's life: its thread records, closes, submits it any number of times *)
(* and Resets it ("reset": the native Reset returned, "idle": successful_reset *)
(* has then found the ring idle).                                            *)

Stages == {"none", "recording", "closed", "reset", "idle"}
Objects == 0..(MaxRenewals + 1)

\* effects: the recording has an effect on a source.
Native == [at : Stages, object : Objects, effects : BOOLEAN]

\* object 0: not registered.  evidence: of which recordings the list's effects
\* are.  unobserved: awaiting_native_reset.  adopted: session_generation is the
\* device's.
Item == [object : Objects, evidence : SUBSET {"now", "before"}, invalid : BOOLEAN,
         unobserved : BOOLEAN, adopted : BOOLEAN]

Registered(object, unobserved) ==
    [object |-> object, evidence |-> {}, invalid |-> FALSE,
     unobserved |-> unobserved, adopted |-> TRUE]

Unregistered == [Registered(0, FALSE) EXCEPT !.adopted = FALSE]

Kinds == {"evidence", "reset", "destroy"}
Entry == [list : Lists, kind : Kinds, object : Objects, now : BOOLEAN, ready : BOOLEAN]

Verdict == [how : {"none", "clear", "applied", "wiped"}, as : SUBSET {"now", "before"}]
Unasked == [l \in Lists |-> [how |-> "none", as |-> {}]]

\* "overflow": the overflow is seen and every clean mark forgotten; "taken": the
\* flag is cleared; "applied": the head entry is applied.  late: lists whose
\* threads lost an entry since, so that none of them is this holder.
HolderStages == {"free", "overflow", "taken", "draining", "applied"}
Nobody == [stage |-> "free", late |-> {}]

\* What befell the list's entries since it was last retired in order: lost to an
\* overflow, or disordered (overtaken by a lock holder's work on the list, or lost
\* while an older Reset was queued, which undoes the overflow's invalidation).
Fates == {"exact", "lost", "disordered"}

Init ==
    /\ native = [l \in Lists |-> [at |-> "none", object |-> 0, effects |-> FALSE]]
    /\ item = [l \in Lists |-> Unregistered]
    /\ clean = [l \in Lists |-> FALSE]
    /\ ring = << >>
    /\ lost = FALSE
    /\ holder = Nobody
    /\ seen = Unasked
    /\ past = [l \in Lists |-> "exact"]
    /\ renewals = 0

-----------------------------------------------------------------------------
\* No submission asks in this step.
Quiet == seen' = Unasked /\ UNCHANGED renewals

(* The ring. *)

Queued(l) == \E i \in DOMAIN ring : ring[i].list = l

\* The list's own thread is between claiming a ticket and publishing the entry.
Writing(l) == \E i \in DOMAIN ring :
    ring[i].list = l /\ ~ring[i].ready /\ ring[i].object = native[l].object

Empty == ring = << >>
idle == Empty /\ ~lost
HeadReady == ~Empty /\ Head(ring).ready

ResetQueued(l) == \E i \in DOMAIN ring : ring[i].list = l /\ ring[i].kind = "reset"

\* Fault: the check lets one entry too many in.
FaultFullLate == Len(ring) > RingSize

Full == Len(ring) >= RingSize

\* DeferredRing::push: a ticket, or the overflow flag.
push(l, kind) ==
    IF ~Full
    THEN /\ ring' = Append(ring, [list |-> l, kind |-> kind, object |-> native[l].object,
                                  now |-> TRUE, ready |-> FALSE])
         /\ UNCHANGED <<lost, past, holder>>
    ELSE /\ lost' = TRUE
         /\ past' = [past EXCEPT ![l] =
                IF @ = "disordered" \/ ResetQueued(l) THEN "disordered" ELSE "lost"]
         /\ holder' = [holder EXCEPT !.late = @ \cup {l}]
         /\ UNCHANGED ring

\* The producer's second store.
Publish ==
    /\ \E i \in DOMAIN ring :
          /\ ~ring[i].ready
          /\ ring' = [ring EXCEPT ![i].ready = TRUE]
    /\ Quiet
    /\ UNCHANGED <<native, item, clean, lost, holder, past>>

\* A new recording of the list: what was queued for it is of an earlier one.
Aged(l) == [i \in DOMAIN ring |->
    IF ring[i].list = l THEN [ring[i] EXCEPT !.now = FALSE] ELSE ring[i]]

AgedItem(l) == [item[l] EXCEPT !.evidence = IF @ = {} THEN {} ELSE {"before"}]

-----------------------------------------------------------------------------
(* The holder of mutex_: evidence_lock and apply_deferred_work. *)

Goes(stage) == holder' = [holder EXCEPT !.stage = stage]

\* Fault: clean marks survive an overflow.
FaultForgetNone == clean

ForgetAll == [l \in Lists |-> FALSE]

\* The mutex is taken.  An overflow is seen here or by the next holder: every
\* clean mark is forgotten first ...
Acquire ==
    /\ holder.stage = "free"
    /\ IF lost
       THEN Goes("overflow") /\ clean' = ForgetAll
       ELSE Goes("draining") /\ UNCHANGED clean
    /\ Quiet
    /\ UNCHANGED <<native, item, ring, lost, past>>

\* ... then the flag is cleared ...
TakeOverflow ==
    /\ holder.stage = "overflow"
    /\ lost' = FALSE
    /\ Goes("taken")
    /\ Quiet
    /\ UNCHANGED <<native, item, clean, ring, past>>

Invalidated ==
    [l \in Lists |-> [item[l] EXCEPT !.invalid = item[l].object # 0]]

\* ... and then every recording is invalidated.
InvalidateAll ==
    /\ holder.stage = "taken"
    /\ item' = Invalidated
    /\ Goes("draining")
    /\ Quiet
    /\ UNCHANGED <<native, clean, ring, lost, past>>

\* retire_native_list for a Reset.
retire_native_list(i) == Registered(i.object, FALSE)

\* Fault: a barrier reported for a destroyed object is applied to its successor.
FaultAnyObject(e) == item[e.list].object # 0

ForThisObject(e) == item[e.list].object = e.object /\ e.object # 0

\* The head entry, once it is completely written, is applied ...
Apply ==
    /\ holder.stage = "draining" /\ HeadReady
    /\ LET e == Head(ring)
           l == e.list
       IN IF ForThisObject(e)
          THEN /\ item' = [item EXCEPT ![l] =
                    CASE e.kind = "reset"    -> retire_native_list(item[l])
                      [] e.kind = "destroy"  -> Unregistered
                      [] e.kind = "evidence" -> [item[l] EXCEPT !.evidence =
                            item[l].evidence \cup {IF e.now THEN "now" ELSE "before"}]]
               /\ clean' = [clean EXCEPT ![l] = e.kind = "reset"]
          ELSE UNCHANGED <<item, clean>>
    /\ Goes("applied")
    /\ Quiet
    /\ UNCHANGED <<native, ring, lost, past>>

\* ... and then committed.
Commit ==
    /\ holder.stage = "applied"
    /\ ring' = Tail(ring)
    /\ Goes("draining")
    /\ Quiet
    /\ UNCHANGED <<native, item, clean, lost, past>>

\* The holder has nothing more to pop: the ring is empty, or its head is still
\* being written.  Its own work follows, and then it unlocks.
Drained(S) ==
    /\ holder.stage = "draining" /\ ~HeadReady
    /\ S \cap holder.late = {}

\* History: this holder's work on a list of S comes before an entry of that list.
Overtake(S) == [l \in Lists |-> IF l \in S /\ Queued(l) THEN "disordered" ELSE past[l]]

Release ==
    /\ Drained({})
    /\ holder' = Nobody
    /\ Quiet
    /\ UNCHANGED <<native, item, clean, ring, lost, past>>

\* The budget expired: another thread held the mutex throughout.
Contended == holder.stage # "free"

-----------------------------------------------------------------------------
(* Recording threads. *)

Stage(l, at) == native' = [native EXCEPT ![l].at = at]

\* A list object appears at the address; register_list runs under the mutex and
\* retires an earlier object whose destruction it never heard of.  A contended
\* registration is skipped, and the list stays unknown.
Create(l, registered) ==
    /\ native[l].at = "none"
    /\ native[l].object > 0 => renewals < MaxRenewals
    /\ renewals' = IF native[l].object > 0 THEN renewals + 1 ELSE renewals
    /\ native' = [native EXCEPT ![l] = [at |-> "recording", object |-> @.object + 1,
                                        effects |-> FALSE]]
    /\ ring' = Aged(l)
    /\ seen' = Unasked
    /\ IF registered
       THEN /\ Drained({l})
            /\ item' = [item EXCEPT ![l] = Registered(native[l].object + 1, FALSE)]
            /\ clean' = [clean EXCEPT ![l] = FALSE]
            /\ holder' = Nobody
            /\ past' = [past EXCEPT ![l] = "exact"]
       ELSE /\ Contended
            /\ item' = [item EXCEPT ![l] = AgedItem(l)]
            /\ UNCHANGED <<clean, holder, past>>
    /\ UNCHANGED lost

\* The next step of the list's own thread.
Free(l, stages) == native[l].at \in stages /\ ~Writing(l)

\* observe_source_legacy and the other evidence calls, under the mutex.
RecordLocked(l) ==
    /\ Free(l, {"recording"}) /\ Drained({l})
    /\ native' = [native EXCEPT ![l].effects = TRUE]
    /\ IF item[l].object = native[l].object
       THEN /\ item' = [item EXCEPT ![l].evidence = @ \cup {"now"}]
            /\ clean' = [clean EXCEPT ![l] = FALSE]
       ELSE UNCHANGED <<item, clean>>
    /\ holder' = Nobody
    /\ past' = Overtake({l})
    /\ Quiet
    /\ UNCHANGED <<ring, lost>>

RecordDeferred(l) ==
    /\ Free(l, {"recording"}) /\ Contended
    /\ native' = [native EXCEPT ![l].effects = TRUE]
    /\ push(l, "evidence")
    /\ Quiet
    /\ UNCHANGED <<item, clean>>

Close(l) ==
    /\ Free(l, {"recording"})
    /\ Stage(l, "closed")
    /\ Quiet
    /\ UNCHANGED <<item, clean, ring, lost, holder, past>>

\* ID3D12GraphicsCommandList::Reset returned: a new recording has begun.
NativeReset(l) ==
    /\ Free(l, {"closed"})
    /\ l \in Recycled
    /\ native' = [native EXCEPT ![l] = [at |-> "reset", object |-> @.object,
                                        effects |-> FALSE]]
    /\ ring' = Aged(l)
    /\ item' = [item EXCEPT ![l] = AgedItem(l)]
    /\ Quiet
    /\ UNCHANGED <<clean, lost, holder, past>>

\* successful_reset: "Ring first, mark second".
ResetSeesIdle(l) ==
    /\ native[l].at = "reset"
    /\ idle
    /\ Stage(l, "idle")
    /\ Quiet
    /\ UNCHANGED <<item, clean, ring, lost, holder, past>>

FastReset(l) == clean[l] /\ item[l].object = native[l].object

ResetFast(l) ==
    /\ native[l].at = "idle"
    /\ FastReset(l)
    /\ Stage(l, "recording")
    /\ Quiet
    /\ UNCHANGED <<item, clean, ring, lost, holder, past>>

ResetLocked(l) ==
    /\ native[l].at \in {"reset", "idle"} /\ Drained({l})
    /\ Stage(l, "recording")
    /\ IF item[l].object = native[l].object
       THEN /\ item' = [item EXCEPT ![l] = retire_native_list(item[l])]
            /\ clean' = [clean EXCEPT ![l] = TRUE]
            /\ past' = IF Queued(l) THEN Overtake({l})
                       ELSE [past EXCEPT ![l] = "exact"]
       ELSE UNCHANGED <<item, clean, past>>
    /\ holder' = Nobody
    /\ Quiet
    /\ UNCHANGED <<ring, lost>>

ResetDeferred(l) ==
    /\ native[l].at \in {"reset", "idle"} /\ Contended
    /\ Stage(l, "recording")
    /\ push(l, "reset")
    /\ Quiet
    /\ UNCHANGED <<item, clean>>

\* destroy_command_list, on whichever thread drops the last reference.
DestroyLocked(l) ==
    /\ Free(l, {"recording", "closed"}) /\ Drained({l})
    /\ l \in Recycled /\ renewals < MaxRenewals
    /\ Stage(l, "none")
    /\ IF item[l].object = native[l].object
       THEN /\ item' = [item EXCEPT ![l] = Unregistered]
            /\ clean' = [clean EXCEPT ![l] = FALSE]
       ELSE UNCHANGED <<item, clean>>
    /\ holder' = Nobody
    /\ Quiet
    /\ UNCHANGED <<ring, lost, past>>

DestroyDeferred(l) ==
    /\ Free(l, {"recording", "closed"}) /\ Contended
    /\ l \in Recycled /\ renewals < MaxRenewals
    /\ Stage(l, "none")
    /\ push(l, "destroy")
    /\ Quiet
    /\ UNCHANGED <<item, clean>>

-----------------------------------------------------------------------------
(* Submission threads: before_submission's question for a batch of closed lists. *)

Batch(B) == B # {} /\ \A l \in B : Free(l, {"closed"})

\* observe_unknown_lists: a list found for the first time in a batch is
\* registered as unobserved until its next Reset.
RegisterUnobserved(l) ==
    /\ Batch({l}) /\ Drained({l})
    /\ item[l].object = 0
    /\ item' = [item EXCEPT ![l] = Registered(native[l].object, TRUE)]
    /\ clean' = [clean EXCEPT ![l] = FALSE]
    /\ holder' = Nobody
    /\ past' = Overtake({l})
    /\ Quiet
    /\ UNCHANGED <<native, ring, lost>>

unknown(l) == item[l].object = 0 \/ item[l].unobserved
unrelated(l) == ~unknown(l) /\ item[l].evidence = {}

\* Fault: a batch may bypass while evidence waits in the ring.
FaultRingIgnored(B) == \A l \in B : unrelated(l)

\* classify_unobserved: from the published words alone.
classify_unobserved(B) == Empty /\ \A l \in B : unrelated(l)

Bypassed(B) == [l \in Lists |->
    [how |-> IF l \in B THEN "clear" ELSE "none", as |-> {}]]

BypassUnlocked(B) ==
    /\ Batch(B) /\ Contended
    /\ classify_unobserved(B)
    /\ seen' = Bypassed(B)
    /\ UNCHANGED <<native, item, clean, ring, lost, holder, past, renewals>>

\* A list of unknown content, or a recording of an earlier session, costs the
\* whole batch its evidence; an invalid recording costs its own.
Stale(l) == unknown(l) \/ (item[l].evidence # {} /\ ~item[l].adopted)

Applied(B) ==
    LET wiped == \E l \in B : Stale(l)
    IN  [l \in Lists |->
            IF l \notin B THEN Unasked[l]
            ELSE [how |-> CASE wiped -> "wiped"
                            [] ~wiped /\ item[l].evidence = {} -> "clear"
                            [] ~wiped /\ item[l].evidence # {} ->
                                  IF item[l].invalid THEN "wiped" ELSE "applied",
                  as |-> item[l].evidence]]

\* Under the mutex: forwarded as unrelated, or ordered with its evidence applied.
Admit(B) ==
    /\ Batch(B) /\ Drained(B)
    /\ seen' = IF \A l \in B : unrelated(l) THEN Bypassed(B) ELSE Applied(B)
    /\ past' = Overtake(B)
    /\ holder' = Nobody
    /\ UNCHANGED <<native, item, clean, ring, lost, renewals>>

-----------------------------------------------------------------------------
\* reset_session takes the mutex and drains nothing.
reset_session ==
    /\ renewals < MaxRenewals
    /\ renewals' = renewals + 1
    /\ holder.stage = "free"
    /\ item' = [l \in Lists |-> [item[l] EXCEPT !.adopted = FALSE]]
    /\ clean' = ForgetAll
    /\ seen' = Unasked
    /\ UNCHANGED <<native, ring, lost, holder, past>>

-----------------------------------------------------------------------------
HolderStep == Acquire \/ TakeOverflow \/ InvalidateAll \/ Apply \/ Commit \/ Release

ListStep(l) ==
    \/ \E registered \in BOOLEAN : Create(l, registered)
    \/ RecordLocked(l) \/ RecordDeferred(l) \/ Close(l)
    \/ NativeReset(l) \/ ResetSeesIdle(l) \/ ResetFast(l) \/ ResetLocked(l) \/ ResetDeferred(l)
    \/ DestroyLocked(l) \/ DestroyDeferred(l)
    \/ RegisterUnobserved(l)

Next ==
    \/ HolderStep
    \/ Publish
    \/ \E l \in Lists : ListStep(l)
    \/ \E B \in SUBSET Lists : BypassUnlocked(B) \/ Admit(B)
    \/ reset_session

Spec == Init /\ [][Next]_vars

-----------------------------------------------------------------------------
(* Properties. *)

TypeOK ==
    /\ native \in [Lists -> Native]
    /\ item \in [Lists -> Item]
    /\ clean \in [Lists -> BOOLEAN]
    /\ ring \in Seq(Entry)
    /\ Len(ring) <= RingSize
    /\ lost \in BOOLEAN
    /\ holder \in [stage : HolderStages, late : SUBSET Lists]
    /\ seen \in [Lists -> Verdict]
    /\ past \in [Lists -> Fates]
    /\ renewals \in 0..MaxRenewals

InOrder(l) == past[l] # "disordered"

\* "retiring it again would change only its version, recording counter and
\* statistics": a list that carries the clean mark has nothing to retire, at any
\* point of a drain, an overflow or a session reset that runs beside its Reset.
CleanIsClean == \A l \in Lists : clean[l] => item[l] = Registered(item[l].object, FALSE)

\* "Only fully observed recordings with no owned work or source-state effects can
\* bypass ordering": a recording forwarded as unrelated has no effects, unless an
\* entry of its list was lost to an overflow or overtaken.
BypassIsObserved ==
    \A l \in Lists : seen[l].how = "clear" => ~native[l].effects \/ past[l] # "exact"

\* A recording that is ordered with its evidence is ordered with all of it, and
\* with none of an earlier recording's.
AppliedAsRecorded ==
    \A l \in Lists : seen[l].how = "applied" /\ InOrder(l) =>
        seen[l].as = (IF native[l].effects THEN {"now"} ELSE {})
=============================================================================

-------------------------- MODULE SubmissionProof --------------------------
(***************************************************************************)
(* What the bridge proves of one display texture from the lists that the   *)
(* simulator records (graphics/pfd_submission_proof.hpp): where a copy may *)
(* be inserted between the lists of one ExecuteCommandLists call, and in   *)
(* which resource state it finds the display there.  It sees barriers and  *)
(* kinds of GPU work, never pixels; a wrong state is a wrong barrier on    *)
(* the simulator's own queue, a site before a later write shows the        *)
(* instrument through the camera for a frame.                              *)
(*                                                                         *)
(* "open" holds the ledger of the list being recorded next to what that    *)
(* list really does, "batch" the closed lists of the call.  The simulator  *)
(* is modelled as Direct3D 12 allows it: a barrier starts from the state   *)
(* the display is in, and only work a state permits touches it.  A display *)
(* in COMMON is promoted by the work that uses it: to a copy destination   *)
(* by a copy, and, as the code reads the rules, to a render target or to   *)
(* unordered access by a draw or a dispatch (Direct3D 12 keeps these two   *)
(* to simultaneous-access textures).  A promotion may end with the call.   *)
(* Lists are closed in the order they are executed in.  "registry" is      *)
(* what the bridge remembers of closed lists for the calls that come after *)
(* them (bridge/d3d12_bridge.cpp).                                         *)
(***************************************************************************)
EXTENDS Integers, Sequences, FiniteSetsExt

CONSTANTS
    MaxBatch,       \* bound: lists in one ExecuteCommandLists call
    RingSize        \* slots of Registry::deferred_settlements

ASSUME BatchAssumption == MaxBatch \in Nat \ {0} /\ RingSize \in Nat \ {0}

VARIABLES
    open,           \* the list being recorded, if any
    batch,          \* the closed lists of the call that is being built
    display,        \* where the work recorded so far leaves the display
    registry,       \* Resource::settled_state and the settlements that wait for it
    missed          \* an unproven list moved the display since it settled (history)

vars == <<open, batch, display, registry, missed>>

-----------------------------------------------------------------------------
(* D3D12_RESOURCE_STATES, as far as the proof tells them apart: render     *)
(* target, unordered access, shader resource, COMMON, copy or resolve      *)
(* destination.                                                            *)
States == {"RT", "UA", "SR", "COMMON", "DEST"}
Unknown == "unknown"

insertable_after(state) == state \in {"RT", "UA", "SR"}
copy_restorable(state) == state \in {"SR", "COMMON"}
writable_gpu_state(state) == state \in {"RT", "UA", "DEST"}

\* PfdSubmissionProof of one recording, with its slot for the display.
Proof == [known : BOOLEAN, pass : BOOLEAN, barrierOnly : BOOLEAN, interference : BOOLEAN,
          seen : BOOLEAN, wrote : BOOLEAN, exit : BOOLEAN, prefixExit : BOOLEAN,
          entryClean : BOOLEAN, first : States, after : States]

\* The display: its state, and whether work promoted it to that state from COMMON.
Display == [state : States, promoted : BOOLEAN]
In(state) == [state |-> state, promoted |-> FALSE]

\* The list itself (history): where it finds the display, whether it named the
\* display in a barrier or a reported write, whether it may write it then, and
\* whether a draw may have sampled it before it was named.
Truth == [entry : Display, named : BOOLEAN, writes : BOOLEAN, sampled : BOOLEAN]

List == [recording : BOOLEAN, proof : Proof, truth : Truth]
Closed == [proof : Proof, truth : Truth, leaves : Display]
Open == open.recording

-----------------------------------------------------------------------------
(* Recording: what each hook reports to the ledger.                        *)

reset(observed) ==
    [known |-> observed, pass |-> FALSE, barrierOnly |-> TRUE, interference |-> FALSE,
     seen |-> FALSE, wrote |-> FALSE, exit |-> FALSE, prefixExit |-> FALSE,
     entryClean |-> FALSE, first |-> "COMMON", after |-> "COMMON"]

\* Nothing is read of an invalid recording, so its slots are forgotten here.
invalidate(p) == reset(FALSE)

\* A write recorded in the slot revokes the prefix.
Overwritten(p) == [p EXCEPT !.wrote = TRUE, !.prefixExit = FALSE]

\* Fault: draws and clears before the first barrier leave no trace.
FaultNoInterference(p, mayRenderTarget) ==
    LET q == [p EXCEPT !.barrierOnly = FALSE]
    IN  IF mayRenderTarget /\ q.seen /\ q.after = "COMMON" THEN Overwritten(q) ELSE q

\* Fault: COMMON is taken for a state that no draw can write in.
FaultPromotionUnseen(p, mayRenderTarget) ==
    [p EXCEPT !.barrierOnly = FALSE, !.interference = @ \/ mayRenderTarget]

\* GPU work that can access a texture in render-target state interferes with a
\* prefix; COMMON would promote on it.
gpu_work(p, mayRenderTarget) ==
    LET q == [p EXCEPT !.barrierOnly = FALSE, !.interference = @ \/ mayRenderTarget]
    IN  IF mayRenderTarget /\ q.seen /\ q.after = "COMMON" THEN Overwritten(q) ELSE q

\* Fault: a dispatch writes only what an explicit barrier left for unordered access.
FaultDispatchInCommon(p) ==
    LET q == gpu_work(p, FALSE)
    IN  IF q.seen /\ q.after = "UA" THEN Overwritten(q) ELSE q

\* A dispatch or UAV clear may write what this list left for unordered access.
compute_work(p) ==
    LET q == gpu_work(p, FALSE)
    IN  IF q.seen /\ q.after \in {"COMMON", "UA"} THEN Overwritten(q) ELSE q

\* A draw or clear in the state an earlier list left: the slot starts here.
note_carried_write(p, state) ==
    IF p.seen /\ p.after # state THEN p
    ELSE IF p.seen THEN Overwritten(p)
    ELSE Overwritten([p EXCEPT !.seen = TRUE, !.first = state, !.after = state,
                               !.entryClean = state = "RT"])

note_render_target_write(p) == note_carried_write(gpu_work(p, TRUE), "RT")
note_unordered_access_write(p) == note_carried_write(compute_work(p), "UA")

begin_pass(p, ordinary) ==
    LET q == gpu_work(p, TRUE)
    IN  IF q.pass \/ ~ordinary THEN invalidate(q) ELSE [q EXCEPT !.pass = TRUE]

end_pass(p) == IF p.pass THEN [p EXCEPT !.pass = FALSE] ELSE invalidate(p)

\* The slot after a transition: the first one proves the state the list found the
\* display in, a leading exit from RT is a site before the list.
Moved(p, before, after) ==
    LET exits == before = "RT" /\ copy_restorable(after)
    IN  [p EXCEPT !.seen = TRUE, !.after = after, !.exit = exits,
                  !.first = IF p.seen THEN @ ELSE before,
                  !.entryClean = IF p.seen THEN @ ELSE ~p.interference,
                  !.prefixExit = @ \/ (~p.seen /\ exits /\ ~p.interference)]

\* A transition of the display's base mip.
observe_legacy(p, before, after) ==
    IF p.pass \/ before = after \/ (p.seen /\ p.after # before) THEN invalidate(p)
    ELSE IF writable_gpu_state(after) THEN Overwritten(Moved(p, before, after))
    ELSE Moved(p, before, after)

-----------------------------------------------------------------------------
(* Sites of one closed list, and of a batch.                               *)

complete(p) == p.known /\ ~p.pass
batch_allows(lists) == lists # << >> /\ \A i \in DOMAIN lists : complete(lists[i].proof)

\* A barrier-only entry into RT is no finished write: the draw is still ahead.
suffix_site(p) ==
    p.seen /\ p.wrote /\ insertable_after(p.after) /\ (p.after = "RT" => ~p.barrierOnly)

candidate(p) == p.barrierOnly /\ p.seen /\ p.exit
prefix_candidate(p) == p.seen /\ p.prefixExit
overwrote(p) == p.seen /\ p.wrote

None == [list |-> 0, before |-> FALSE, state |-> "COMMON"]
Before(lists, i) == [list |-> i, before |-> TRUE, state |-> lists[i].proof.first]
After(lists, i) == [list |-> i, before |-> FALSE, state |-> lists[i].proof.after]

Writes(lists) == {i \in DOMAIN lists : suffix_site(lists[i].proof)}
Exits(lists) == {i \in DOMAIN lists : candidate(lists[i].proof) \/ prefix_candidate(lists[i].proof)}

\* The first of the lists that a copy inserted at the site precedes.
Follows(site) == IF site.before THEN site.list ELSE site.list + 1

\* Fault: only lists with a site of their own count as later writes.
FaultSafeKept(lists, i) ==
    LET site == IF candidate(lists[i].proof) THEN After(lists, i) ELSE Before(lists, i)
    IN  IF \E j \in Follows(site)..Len(lists) : suffix_site(lists[j].proof) THEN None ELSE site

\* The tail or prefix site of list i, unless a later list overwrites it.
Safe(lists, i) ==
    LET site == IF candidate(lists[i].proof) THEN After(lists, i) ELSE Before(lists, i)
    IN  IF \E j \in Follows(site)..Len(lists) : overwrote(lists[j].proof) THEN None ELSE site

\* Where the camera's copy goes: after the last finished write, else at the
\* first exit.
batch_overlay(lists) ==
    IF ~batch_allows(lists) THEN None
    ELSE IF Writes(lists) # {} THEN After(lists, Max(Writes(lists)))
    ELSE IF Exits(lists) # {} THEN Safe(lists, Min(Exits(lists)))
    ELSE None

Writers(lists) == {i \in DOMAIN lists : overwrote(lists[i].proof)}

\* Where the panel's own picture goes back: before the first list that writes.
batch_entry(lists) ==
    IF batch_allows(lists) /\ Writers(lists) # {}
    THEN Before(lists, Min(Writers(lists))) ELSE None

mentions(p) == p.seen
Mentioning(lists) == {i \in DOMAIN lists : mentions(lists[i].proof)}

\* The state the batch leaves the display in, as far as it says.
batch_after(lists) ==
    IF batch_allows(lists) /\ Mentioning(lists) # {}
    THEN lists[Max(Mentioning(lists))].proof.after ELSE Unknown

\* A batch that never names the display may be followed by a copy in the state
\* an earlier list left.
carried_overlay(lists, state) ==
    IF /\ batch_allows(lists)
       /\ state # Unknown /\ insertable_after(state)
       /\ Mentioning(lists) = {}
    THEN [list |-> Len(lists), before |-> FALSE, state |-> state] ELSE None

\* Settlement::restorable: a later quiet call may copy and return to "after".
restorable(p) == insertable_after(p.after) /\ (suffix_site(p) \/ p.exit \/ p.prefixExit)

\* What apply_settlement() stores of a row.
Settlement(p) == IF restorable(p) THEN p.after ELSE Unknown

-----------------------------------------------------------------------------
(* The registry: what it knows of the state the display was left in, the   *)
(* rows of Closes that did not get its lock, whether the ring has lost one *)
(* and settlement_stale.                                                   *)

Rows == States \cup {Unknown}
Registry == [settled : Rows, deferred : Seq(Rows), lost : BOOLEAN, stale : BOOLEAN]
Unsettled == [settled |-> Unknown, deferred |-> << >>, lost |-> FALSE, stale |-> FALSE]

\* Fault: a lost row is forgotten with the rows that were kept.
FaultDrainForgets(r) ==
    [settled |-> IF r.deferred = << >> THEN r.settled ELSE r.deferred[Len(r.deferred)],
     deferred |-> << >>, lost |-> FALSE, stale |-> r.stale]

\* drain_deferred_settlements(): the rows are applied in the order of the Closes.
drain(r) ==
    [settled |-> IF r.deferred = << >> THEN r.settled ELSE r.deferred[Len(r.deferred)],
     deferred |-> << >>, lost |-> FALSE, stale |-> r.stale \/ r.lost]

apply_settlement(r, row) == [drain(r) EXCEPT !.settled = row]

push(r, row) ==
    IF Len(r.deferred) < RingSize THEN [r EXCEPT !.deferred = Append(@, row)]
    ELSE [r EXCEPT !.lost = TRUE]

\* The worker's sweep forgets what a lost row leaves in doubt.
discover_pfds(r) ==
    LET q == drain(r) IN IF q.stale THEN [q EXCEPT !.settled = Unknown, !.stale = FALSE] ELSE q

-----------------------------------------------------------------------------
(* The simulator records, closes and executes.                             *)

Fresh(entry) ==
    [entry |-> entry, named |-> FALSE, writes |-> FALSE, sampled |-> FALSE]
NoList == [recording |-> FALSE, proof |-> reset(FALSE), truth |-> Fresh(In("COMMON"))]

Init ==
    /\ open = NoList
    /\ batch = << >>
    /\ \E state \in States : display = In(state)
    /\ registry = Unsettled
    /\ missed = FALSE

\* Recording starts; the hooks may have missed the native Reset.
Reset(observed) ==
    /\ ~Open /\ Len(batch) < MaxBatch
    /\ open' = [recording |-> TRUE, proof |-> reset(observed), truth |-> Fresh(display)]
    /\ UNCHANGED <<batch, display, registry, missed>>

\* Hooks of an invalid recording return early, and nothing is asked of its history.
Recorded(p, truth) ==
    LET q == IF open.proof.known THEN p ELSE open.proof
    IN  open' = [open EXCEPT !.proof = q,
                             !.truth = IF q.known THEN truth ELSE Fresh(truth.entry)]

Named(truth) == [truth EXCEPT !.named = TRUE]
Written(truth) == [truth EXCEPT !.named = TRUE, !.writes = TRUE]

\* A write that no hook ties to the display: the ledger can know of it only when
\* this list has named the display.  Otherwise it is hidden.
Unreported(truth) == IF truth.named THEN Written(truth) ELSE truth

\* A display that work in "state" uses: COMMON is promoted to it.
Usable(state) == display.state \in {state, "COMMON"}
Used(state) ==
    IF display.state = "COMMON" THEN [state |-> state, promoted |-> TRUE] ELSE display

Barrier(after) ==
    /\ Open /\ after # display.state
    /\ Recorded(observe_legacy(open.proof, display.state, after), Named(open.truth))
    /\ display' = In(after)
    /\ UNCHANGED <<batch, registry, missed>>

\* A draw samples whatever is a shader resource.
Sampling(truth) ==
    [truth EXCEPT !.sampled = @ \/ (copy_restorable(display.state) /\ ~truth.named)]

\* A draw or clear of the display.  It is reported as such when the display is
\* selected for a camera and the bridge knows the view it is drawn through.
Draw(reported) ==
    /\ Open /\ Usable("RT")
    /\ IF reported
       THEN Recorded(note_render_target_write(open.proof), Written(open.truth))
       ELSE Recorded(gpu_work(open.proof, TRUE), Unreported(open.truth))
    /\ display' = Used("RT")
    /\ UNCHANGED <<batch, registry, missed>>

\* A clear of the display through an unordered access view.
ClearUnordered(reported) ==
    /\ Open /\ Usable("UA")
    /\ IF reported
       THEN Recorded(note_unordered_access_write(open.proof), Written(open.truth))
       ELSE Recorded(compute_work(open.proof), Unreported(open.truth))
    /\ display' = Used("UA")
    /\ UNCHANGED <<batch, registry, missed>>

\* A draw or clear of another target; its shaders may store to the display.
DrawElsewhere(stores) ==
    /\ Open /\ (stores => Usable("UA"))
    /\ LET truth == Sampling(open.truth)
       IN  Recorded(gpu_work(open.proof, TRUE), IF stores THEN Unreported(truth) ELSE truth)
    /\ display' = IF stores THEN Used("UA") ELSE display
    /\ UNCHANGED <<batch, registry, missed>>

Dispatch(stores) ==
    /\ Open /\ (stores => Usable("UA"))
    /\ Recorded(compute_work(open.proof),
                IF stores THEN Unreported(open.truth) ELSE open.truth)
    /\ display' = IF stores THEN Used("UA") ELSE display
    /\ UNCHANGED <<batch, registry, missed>>

\* state_disjoint_work: copies, resolves, queries.  A copy into a display that no
\* barrier made a destination promotes it from COMMON, or finds it promoted: the
\* ledger takes a copy for work that cannot touch it, and the write is hidden.
Copy(into) ==
    /\ Open /\ (into => Usable("DEST"))
    /\ Recorded(gpu_work(open.proof, FALSE),
                IF into /\ display = In("DEST") THEN Unreported(open.truth) ELSE open.truth)
    /\ display' = IF into THEN Used("DEST") ELSE display
    /\ UNCHANGED <<batch, registry, missed>>

BeginPass(ordinary) ==
    /\ Open
    /\ Recorded(begin_pass(open.proof, ordinary), Sampling(open.truth))
    /\ UNCHANGED <<batch, display, registry, missed>>

EndPass ==
    /\ Open
    /\ Recorded(end_pass(open.proof), open.truth)
    /\ UNCHANGED <<batch, display, registry, missed>>

\* An alias, a split or enhanced barrier, an unsupported command, or a hook that
\* could not take the registry: the display may be in any state afterwards.
Unprovable(after) ==
    /\ Open
    /\ Recorded(invalidate(open.proof), Written(open.truth))
    /\ display' = In(after)
    /\ UNCHANGED <<batch, registry, missed>>

\* Rows of settlements(): only of a complete recording that names the display.
Settles(p) == complete(p) /\ p.seen

\* remember_display_settlement() after a successful Close, which Direct3D 12 refuses
\* inside a render pass.  A Close that does not get the registry's lock in time
\* leaves its row in the ring.
Close(locked) ==
    /\ Open /\ (open.proof.known => ~open.proof.pass)
    /\ batch' = Append(batch, [proof |-> [open.proof EXCEPT !.interference = FALSE],
                               truth |-> open.truth, leaves |-> display])
    /\ IF Settles(open.proof)
       THEN LET row == Settlement(open.proof)
            IN  /\ registry' = IF locked THEN apply_settlement(registry, row)
                                         ELSE push(registry, row)
                /\ missed' = FALSE
       ELSE /\ registry' = registry
            /\ missed' = (missed \/ display # open.truth.entry)
    /\ open' = NoList
    /\ UNCHANGED display

\* A list whose Close fails is never executed: the display is as the list found it.
CloseFails ==
    /\ Open
    /\ display' = open.truth.entry
    /\ open' = NoList
    /\ UNCHANGED <<batch, registry, missed>>

\* ExecuteCommandLists of the closed lists, planned (the plan drains the ring first)
\* or, when the registry is busy, not; the next call starts.  What the call promoted
\* may decay to COMMON.
Execute(planned, decays) ==
    /\ ~Open /\ batch # << >>
    /\ decays => display.promoted
    /\ batch' = << >>
    /\ display' = In(IF decays THEN "COMMON" ELSE display.state)
    /\ registry' = IF planned THEN drain(registry) ELSE registry
    /\ missed' = (missed \/ decays)
    /\ UNCHANGED open

\* The worker's pass.
Discover ==
    /\ registry' = discover_pfds(registry)
    /\ UNCHANGED <<open, batch, display, missed>>

Record ==
    \/ \E after \in States : Barrier(after) \/ Unprovable(after)
    \/ \E reported \in BOOLEAN : Draw(reported) \/ ClearUnordered(reported)
    \/ \E stores \in BOOLEAN : DrawElsewhere(stores) \/ Dispatch(stores)
    \/ \E into \in BOOLEAN : Copy(into)
    \/ \E ordinary \in BOOLEAN : BeginPass(ordinary)
    \/ EndPass

Next ==
    \/ \E observed \in BOOLEAN : Reset(observed)
    \/ Record
    \/ \E locked \in BOOLEAN : Close(locked)
    \/ CloseFails
    \/ \E planned, decays \in BOOLEAN : Execute(planned, decays)
    \/ Discover

Spec == Init /\ [][Next]_vars

-----------------------------------------------------------------------------
TypeOK ==
    /\ open \in List
    /\ batch \in Seq(Closed) /\ Len(batch) <= MaxBatch
    /\ display \in Display
    /\ registry \in Registry /\ Len(registry.deferred) <= RingSize
    /\ missed \in BOOLEAN

\* The state the display is in where the call is cut before list i.
StateAt(i) ==
    IF i <= Len(batch) THEN batch[i].truth.entry.state ELSE batch[Len(batch)].leaves.state

\* The state the closed lists left the display in.
Left == IF Open THEN open.truth.entry.state ELSE display.state

\* "The last proven write" of a batch is its last write only if no later list
\* leaves its own in a state that nothing can be inserted after.
Unfinished(i) == overwrote(batch[i].proof) /\ ~suffix_site(batch[i].proof)

\* A copy at the overlay's site finds the display in the state it declares and
\* returns it to, and no list of the call writes the display after it ("stamping
\* first would flash the native instrument"), in a state that the list's barriers
\* set, on promotion of the COMMON it left the display in, or as a hook reported.
\* Only hidden writes may follow: of a display that the list had not named and the
\* bridge had not selected, or on which a copy promoted COMMON.
OverlayOnTop ==
    LET site == batch_overlay(batch)
    IN  site # None =>
            /\ site.state = StateAt(Follows(site))
            /\ \A i \in Follows(site)..Len(batch) :
                  batch[i].truth.writes => Writes(batch) # {} /\ Unfinished(i)

\* "When insertable, a copy inserted before that list and returning to that state lands
\* under every write of this Execute": no write but a hidden one comes before the
\* entry, and a call with another has an entry.  An insertable entry declares the
\* state the display is in, and a clean one's list has not sampled the display before
\* it first named it; unless that list found COMMON and had promoted it by then.  The
\* call leaves the display in the state it is taken to leave it in, on which a restore
\* without a camera copy depends; but COMMON may have been promoted.
EntryUnderWrites ==
    LET site == batch_entry(batch)
    IN  batch_allows(batch) =>
            /\ batch_after(batch) \notin {Unknown, "COMMON"} => batch_after(batch) = Left
            /\ \A i \in DOMAIN batch : batch[i].truth.writes => site # None
            /\ site # None =>
                  LET entry == batch[site.list]
                  IN  /\ \A i \in 1..(site.list - 1) : ~batch[i].truth.writes
                      /\ insertable_after(site.state) /\ StateAt(site.list) # "COMMON" =>
                            /\ site.state = StateAt(site.list)
                            /\ entry.proof.entryClean => ~entry.truth.sampled

\* "So settled_state always reflects the last closed list by the time an Execute plans
\* a carried cover": once the plan has drained the ring, what it may copy in on a call
\* that leaves the display alone is the state the display is in, and nothing but a
\* hidden write of that call writes it.  (As long as every list that moved the display
\* was proven, and no promotion has decayed.)
SettledIsActual ==
    LET plan == drain(registry)
        site == IF plan.stale THEN None ELSE carried_overlay(batch, plan.settled)
    IN  /\ ~missed /\ ~plan.stale /\ plan.settled # Unknown => plan.settled = Left
        /\ site # None => \A i \in DOMAIN batch : ~batch[i].truth.writes
=============================================================================

------------------------ MODULE SubmissionProofProofs ------------------------
(***************************************************************************)
(* For any number of lists in a call and any number of ring slots: the     *)
(* types; that a copy inserted at the overlay's site, or at the entry, finds *)
(* the display in the state it declares and on the right side of every     *)
(* write; and that what the bridge takes for the state the display was left *)
(* in is that state.                                                       *)
(*                                                                         *)
(* The argument is one invariant of a list and its ledger, Traced, kept by *)
(* every hook; the states of the lists of a call are chained through what  *)
(* each list leaves.                                                       *)
(***************************************************************************)
EXTENDS SubmissionProof, SequenceTheorems, WellFoundedInduction, TLAPS

(***************************************************************************)
(* The ledger of one list and the list itself.                             *)
(***************************************************************************)

\* What a valid ledger p knows of a list t that has brought the display to d.
Traced(p, t, d) ==
  p.known =>
    /\ p.seen <=> t.named
    /\ p.seen => \/ p.after = d.state
                 \/ p.after = "COMMON" /\ d.promoted /\ ~p.barrierOnly
    /\ p.seen /\ (t.entry.state # "COMMON" \/ p.prefixExit) => p.first = t.entry.state
    /\ p.seen /\ writable_gpu_state(p.after) => p.wrote
    /\ ~p.seen => /\ d = t.entry \/ (t.entry.state = "COMMON" /\ d.promoted)
                  /\ ~p.wrote /\ ~p.exit /\ ~p.prefixExit
    /\ t.writes => p.wrote
    /\ p.seen /\ p.entryClean /\ t.entry.state # "COMMON" => ~t.sampled

\* A display that a draw sampled, or promoted to a render target, before the list
\* named it: the ledger knows that something has drawn, and it was found readable.
Watched(p, t, d) ==
  p.known /\ ~p.seen =>
    /\ t.sampled => p.interference /\ copy_restorable(t.entry.state)
    /\ d # t.entry /\ d.state = "RT" => p.interference

Good(p, t, d) == Traced(p, t, d) /\ Watched(p, t, d)

\* The display e after work that used it where it was, or promoted it.
Promotes(d, e) == e = d \/ (d.state = "COMMON" /\ e.promoted)

LEMMA ResetTypes ==
  ASSUME NEW b \in BOOLEAN
  PROVE  reset(b) \in Proof
BY DEF reset, Proof, States

LEMMA GpuWorkTypes ==
  ASSUME NEW p \in Proof, NEW m \in BOOLEAN
  PROVE  gpu_work(p, m) \in Proof
BY DEF gpu_work, Overwritten, Proof

LEMMA ComputeWorkTypes ==
  ASSUME NEW p \in Proof
  PROVE  compute_work(p) \in Proof
<1>1. gpu_work(p, FALSE) \in Proof
  BY GpuWorkTypes
<1>2. QED
  BY <1>1 DEF compute_work, Overwritten, Proof

LEMMA CarriedTypes ==
  ASSUME NEW p \in Proof, NEW s \in States
  PROVE  note_carried_write(p, s) \in Proof
BY DEF note_carried_write, Overwritten, Proof

LEMMA ObserveTypes ==
  ASSUME NEW p \in Proof, NEW s \in States, NEW after \in States
  PROVE  observe_legacy(p, s, after) \in Proof
<1>1. reset(FALSE) \in Proof
  BY ResetTypes
<1>2. Moved(p, s, after) \in Proof
  <2>1. \A e, c, x \in BOOLEAN, f \in States :
           [p EXCEPT !.seen = TRUE, !.after = after, !.exit = e, !.first = f,
                     !.entryClean = c, !.prefixExit = x] \in Proof
    BY DEF Proof
  <2>2. (IF p.seen THEN p.first ELSE s) \in States
    BY DEF Proof
  <2>3. (IF p.seen THEN p.entryClean ELSE ~p.interference) \in BOOLEAN
    BY DEF Proof
  <2>4. QED
    BY <2>1, <2>2, <2>3 DEF Moved
<1>3. \A q \in Proof : Overwritten(q) \in Proof
  BY DEF Overwritten, Proof
<1>4. QED
  BY <1>1, <1>2, <1>3 DEF observe_legacy, invalidate

LEMMA PassTypes ==
  ASSUME NEW p \in Proof, NEW ordinary \in BOOLEAN
  PROVE  begin_pass(p, ordinary) \in Proof /\ end_pass(p) \in Proof
<1>1. reset(FALSE) \in Proof /\ gpu_work(p, TRUE) \in Proof
  BY ResetTypes, GpuWorkTypes
<1>2. \A q \in Proof, pass \in BOOLEAN : [q EXCEPT !.pass = pass] \in Proof
  BY DEF Proof
<1>3. begin_pass(p, ordinary) \in {reset(FALSE), [gpu_work(p, TRUE) EXCEPT !.pass = TRUE]}
  BY DEF begin_pass, invalidate
<1>4. end_pass(p) \in {reset(FALSE), [p EXCEPT !.pass = FALSE]}
  BY DEF end_pass, invalidate
<1>5. QED
  BY <1>1, <1>2, <1>3, <1>4

LEMMA TruthTypes ==
  ASSUME NEW t \in Truth
  PROVE  /\ Named(t) \in Truth /\ Written(t) \in Truth /\ Sampling(t) \in Truth
         /\ Unreported(t) \in Truth
         /\ Named(t).entry = t.entry /\ Written(t).entry = t.entry
         /\ Sampling(t).entry = t.entry /\ Unreported(t).entry = t.entry
BY DEF Truth, Named, Written, Sampling, Unreported

LEMMA FreshTypes ==
  ASSUME NEW d \in Display
  PROVE  Fresh(d) \in Truth /\ Fresh(d).entry = d
BY DEF Fresh, Truth

LEMMA DisplayTypes ==
  ASSUME NEW s \in States
  PROVE  /\ In(s) \in Display /\ In(s).state = s
         /\ display \in Display /\ Usable(s) =>
              Used(s) \in Display /\ Used(s).state = s /\ Promotes(display, Used(s))
BY DEF In, Display, Used, Usable, Promotes

\* A recording that is invalid owes nothing.
LEMMA InvalidGood ==
  ASSUME NEW p, NEW t, NEW d, ~p.known
  PROVE  Good(p, t, d)
BY DEF Good, Traced, Watched

LEMMA InvalidatedGood ==
  ASSUME NEW p, NEW t, NEW d
  PROVE  Good(invalidate(p), t, d)
BY DEF Good, Traced, Watched, invalidate, reset

\* Work that leaves the display where it is.
LEMMA GpuWorkGood ==
  ASSUME NEW p \in Proof, NEW t \in Truth, NEW d \in Display, NEW m \in BOOLEAN,
         Good(p, t, d)
  PROVE  /\ Good(gpu_work(p, m), t, d) /\ ~gpu_work(p, m).barrierOnly
         /\ m => gpu_work(p, m).interference
BY DEF Good, Traced, Watched, gpu_work, Overwritten, Proof, Truth, writable_gpu_state

LEMMA SamplingGood ==
  ASSUME NEW p \in Proof, NEW t \in Truth, display \in Display, p.known, p.interference,
         Good(p, t, display)
  PROVE  Good(p, Sampling(t), display)
BY DEF Good, Traced, Watched, Sampling, Proof, Truth, copy_restorable

LEMMA ComputeGood ==
  ASSUME NEW p \in Proof, NEW t \in Truth, NEW d \in Display, Good(p, t, d)
  PROVE  Good(compute_work(p), t, d) /\ ~compute_work(p).barrierOnly
<1>1. /\ gpu_work(p, FALSE) \in Proof /\ Good(gpu_work(p, FALSE), t, d)
      /\ ~gpu_work(p, FALSE).barrierOnly
  BY GpuWorkTypes, GpuWorkGood
<1>2. QED
  BY <1>1 DEF compute_work, Good, Traced, Watched, Overwritten, Proof, Truth, writable_gpu_state

\* Work that promotes the display is no barrier, and a promotion to a render target is
\* a draw.
LEMMA PromotedGood ==
  ASSUME NEW p \in Proof, NEW t \in Truth, NEW d \in Display, NEW e \in Display,
         Good(p, t, d), ~p.barrierOnly, Promotes(d, e), e.state = "RT" => p.interference
  PROVE  Good(p, t, e)
BY DEF Good, Traced, Watched, Promotes, Proof, Truth, Display

\* Work that may write the display: what the list named before is marked as written.
LEMMA DrawMarks ==
  ASSUME NEW p \in Proof, NEW t \in Truth, NEW d \in Display, Good(p, t, d), p.known,
         t.named, d.state \in {"RT", "UA", "COMMON"}
  PROVE  gpu_work(p, TRUE).wrote
<1>1. p.seen /\ p.after \in {"RT", "UA", "COMMON"}
  BY DEF Good, Traced
<1>2. p.after # "COMMON" => p.wrote
  BY <1>1 DEF Good, Traced, writable_gpu_state
<1>3. QED
  BY <1>1, <1>2 DEF gpu_work, Overwritten, Proof

LEMMA ComputeMarks ==
  ASSUME NEW p \in Proof, NEW t \in Truth, NEW d \in Display, Good(p, t, d), p.known,
         t.named, d.state \in {"UA", "COMMON"}
  PROVE  compute_work(p).wrote
<1>1. p.seen /\ p.after \in {"UA", "COMMON"}
  BY DEF Good, Traced
<1>2. gpu_work(p, FALSE) \in Proof /\ gpu_work(p, FALSE).seen
        /\ gpu_work(p, FALSE).after = p.after
  <2>1. gpu_work(p, FALSE) = [p EXCEPT !.barrierOnly = FALSE, !.interference = @ \/ FALSE]
    BY DEF gpu_work
  <2>2. QED
    BY <1>1, <2>1, GpuWorkTypes DEF Proof
<1>3. QED
  BY <1>1, <1>2 DEF compute_work, Overwritten, Proof

LEMMA UnreportedGood ==
  ASSUME NEW p \in Proof, NEW t \in Truth, NEW d \in Display, Good(p, t, d),
         p.known /\ t.named => p.wrote
  PROVE  Good(p, Unreported(t), d)
BY DEF Good, Traced, Watched, Unreported, Written, Proof, Truth

\* A reported draw or clear, which names the display in the state it used it in.
LEMMA CarriedGood ==
  ASSUME NEW p \in Proof, NEW t \in Truth, NEW d \in Display, NEW e \in Display,
         NEW s \in {"RT", "UA"}, Good(p, t, d), Promotes(d, e), e.state = s, ~p.barrierOnly,
         s = "RT" => p.interference, p.known /\ t.named => p.wrote
  PROVE  Good(note_carried_write(p, s), Written(t), e)
<1>1. Good(p, t, e)
  BY PromotedGood
<1>2. CASE p.seen
  BY <1>1, <1>2 DEF Good, Traced, Watched, note_carried_write, Overwritten, Written, Proof,
     Truth, writable_gpu_state
<1>3. CASE ~p.seen
  <2> DEFINE q == Overwritten([p EXCEPT !.seen = TRUE, !.first = s, !.after = s,
                                        !.entryClean = s = "RT"])
  <2>1. note_carried_write(p, s) = q
    BY <1>3 DEF note_carried_write
  <2>2. /\ q.known = p.known /\ q.seen /\ q.after = s /\ q.first = s /\ q.wrote
        /\ ~q.prefixExit /\ q.entryClean = (s = "RT")
    BY DEF Overwritten, Proof
  <2>3. /\ Written(t).entry = t.entry /\ Written(t).named
        /\ Written(t).sampled = t.sampled
    BY DEF Written, Truth
  <2>4. p.known /\ t.entry.state # "COMMON" => t.entry = e
    BY <1>1, <1>3 DEF Good, Traced
  <2>5. p.known /\ s = "RT" /\ t.entry.state # "COMMON" => ~t.sampled
    BY <1>1, <1>3, <2>4 DEF Good, Watched, copy_restorable
  <2>6. QED
    BY <2>1, <2>2, <2>3, <2>4, <2>5 DEF Good, Traced, Watched
<1>4. QED
  BY <1>2, <1>3 DEF Proof

LEMMA ObserveGood ==
  ASSUME NEW p \in Proof, NEW t \in Truth, NEW d \in Display, NEW after \in States,
         p.known, Good(p, t, d)
  PROVE  Good(observe_legacy(p, d.state, after), Named(t), In(after))
<1> DEFINE q == Moved(p, d.state, after)
           bad == p.pass \/ d.state = after \/ (p.seen /\ p.after # d.state)
<1>1. CASE bad
  <2>1. observe_legacy(p, d.state, after) = invalidate(p)
    BY <1>1 DEF observe_legacy
  <2>2. QED
    BY <2>1, InvalidatedGood
<1>2. ASSUME ~bad
      PROVE  /\ q.known /\ q.seen /\ q.after = after
             /\ t.entry.state # "COMMON" \/ q.prefixExit => q.first = t.entry.state
             /\ q.wrote = p.wrote
             /\ q.entryClean /\ t.entry.state # "COMMON" => ~t.sampled
  <2>1. CASE p.seen
    BY <1>2, <2>1 DEF Moved, Good, Traced, Proof
  <2>2. CASE ~p.seen
    BY <1>2, <2>2 DEF Moved, Good, Traced, Watched, Proof
  <2>3. QED
    BY <2>1, <2>2 DEF Proof
<1>3. /\ Named(t).entry = t.entry /\ Named(t).named /\ Named(t).writes = t.writes
      /\ Named(t).sampled = t.sampled /\ In(after).state = after
  BY DEF Named, Truth, In
<1>4. t.writes => p.wrote
  BY DEF Good, Traced
<1>5. CASE ~bad /\ writable_gpu_state(after)
  <2>1. observe_legacy(p, d.state, after) = Overwritten(q)
    BY <1>5 DEF observe_legacy
  <2>2. /\ Overwritten(q).known = q.known /\ Overwritten(q).seen = q.seen
        /\ Overwritten(q).after = q.after /\ Overwritten(q).first = q.first
        /\ Overwritten(q).entryClean = q.entryClean /\ Overwritten(q).wrote
        /\ ~Overwritten(q).prefixExit
    BY DEF Overwritten, Moved, Proof
  <2>3. QED
    BY <1>2, <1>3, <1>5, <2>1, <2>2 DEF Good, Traced, Watched
<1>6. CASE ~bad /\ ~writable_gpu_state(after)
  <2>1. observe_legacy(p, d.state, after) = q
    BY <1>6 DEF observe_legacy
  <2>2. QED
    BY <1>2, <1>3, <1>4, <1>6, <2>1 DEF Good, Traced, Watched
<1>7. QED
  BY <1>1, <1>5, <1>6

(***************************************************************************)
(* The lists of a call, one after the other, and what the registry knows   *)
(* of the state they left the display in.                                  *)
(***************************************************************************)

\* Where the closed lists left the display.
Place == IF Open THEN open.truth.entry ELSE display

Current == Open => Good(open.proof, open.truth, display) /\ Len(batch) < MaxBatch

Chained ==
  /\ \A i \in DOMAIN batch : Traced(batch[i].proof, batch[i].truth, batch[i].leaves)
  /\ \A i \in DOMAIN batch : i > 1 => batch[i].truth.entry = batch[i - 1].leaves
  /\ batch # << >> => batch[Len(batch)].leaves = Place

\* Once drained, the registry says Left, admits that it does not know, or is stale.
Remembered ==
  ~missed => \/ drain(registry).stale
             \/ drain(registry).settled \in {Unknown, Left}

IInv == TypeOK /\ Current /\ Chained /\ Remembered

LEMMA PlaceLeft == Left = Place.state
BY DEF Left, Place

LEMMA RegistryTypes ==
  ASSUME NEW r \in Registry, NEW row \in Rows, Len(r.deferred) <= RingSize
  PROVE  /\ drain(r) \in Registry /\ drain(r).deferred = << >>
         /\ apply_settlement(r, row) \in Registry
         /\ apply_settlement(r, row).deferred = << >>
         /\ push(r, row) \in Registry /\ Len(push(r, row).deferred) <= RingSize
         /\ discover_pfds(r) \in Registry /\ discover_pfds(r).deferred = << >>
<1>1. r.deferred \in Seq(Rows) /\ r.settled \in Rows /\ r.lost \in BOOLEAN /\ r.stale \in BOOLEAN
  BY DEF Registry
<1>2. r.deferred # << >> => r.deferred[Len(r.deferred)] \in Rows
  BY <1>1, EmptySeq, LenProperties, ElementOfSeq
<1>3. << >> \in Seq(Rows)
  BY EmptySeq
<1>4. drain(r) \in Registry /\ drain(r).deferred = << >>
  BY <1>1, <1>2, <1>3 DEF drain, Registry
<1>5. apply_settlement(r, row) \in Registry /\ apply_settlement(r, row).deferred = << >>
  BY <1>4 DEF apply_settlement, Registry
<1>6. push(r, row) \in Registry /\ Len(push(r, row).deferred) <= RingSize
  <2>1. CASE Len(r.deferred) < RingSize
    <3>1. /\ Append(r.deferred, row) \in Seq(Rows)
          /\ Len(Append(r.deferred, row)) = Len(r.deferred) + 1 /\ Len(r.deferred) \in Nat
      BY <1>1, AppendProperties, LenProperties
    <3>2. push(r, row) = [r EXCEPT !.deferred = Append(r.deferred, row)]
      BY <2>1 DEF push
    <3>3. push(r, row) \in Registry /\ push(r, row).deferred = Append(r.deferred, row)
      BY <3>1, <3>2 DEF Registry
    <3>4. QED
      BY <2>1, <3>1, <3>3, BatchAssumption
  <2>2. CASE ~(Len(r.deferred) < RingSize)
    BY <2>2 DEF push, Registry
  <2>3. QED
    BY <2>1, <2>2
<1>7. Unknown \in Rows
  BY DEF Rows
<1>8. discover_pfds(r) \in Registry /\ discover_pfds(r).deferred = << >>
  BY <1>4, <1>7 DEF discover_pfds, Registry
<1>9. QED
  BY <1>4, <1>5, <1>6, <1>8

\* What a plan finds after each of the registry's operations.
LEMMA RegistryDrains ==
  ASSUME NEW r \in Registry, NEW row \in Rows, Len(r.deferred) <= RingSize
  PROVE  /\ drain(drain(r)) = drain(r)
         /\ drain(apply_settlement(r, row)).settled = row
         /\ \/ drain(push(r, row)).settled = row
            \/ drain(push(r, row)).stale
         /\ \/ discover_pfds(r) = drain(r)
            \/ drain(discover_pfds(r)).settled = Unknown
<1>1. r.deferred \in Seq(Rows) /\ r.lost \in BOOLEAN /\ r.stale \in BOOLEAN
  BY DEF Registry
<1>2. drain(r) \in Registry /\ drain(r).deferred = << >> /\ drain(r).lost = FALSE
  BY RegistryTypes DEF drain
<1>3. \A q \in Registry : q.deferred = << >> => drain(q).settled = q.settled
  BY DEF drain
<1>4. drain(drain(r)) = drain(r)
  BY <1>1, <1>2 DEF drain
<1>5. drain(apply_settlement(r, row)).settled = row
  <2>1. apply_settlement(r, row).settled = row
    BY <1>2 DEF apply_settlement, Registry
  <2>2. QED
    BY <2>1, <1>3, RegistryTypes
<1>6. drain(push(r, row)).settled = row \/ drain(push(r, row)).stale
  <2>1. CASE Len(r.deferred) < RingSize
    <3> DEFINE q == Append(r.deferred, row)
    <3>1. q \in Seq(Rows) /\ Len(q) = Len(r.deferred) + 1 /\ Len(r.deferred) \in Nat
             /\ q[Len(q)] = row
      BY <1>1, AppendProperties, LenProperties
    <3>2. q # << >>
      BY <3>1, EmptySeq
    <3>3. push(r, row).deferred = q
      BY <2>1 DEF push, Registry
    <3>4. QED
      BY <3>1, <3>2, <3>3 DEF drain
  <2>2. CASE ~(Len(r.deferred) < RingSize)
    BY <2>2 DEF push, drain, Registry
  <2>3. QED
    BY <2>1, <2>2
<1>7. discover_pfds(r) = drain(r) \/ drain(discover_pfds(r)).settled = Unknown
  <2>1. CASE drain(r).stale
    <3>1. discover_pfds(r).settled = Unknown
      BY <2>1, <1>2 DEF discover_pfds, Registry
    <3>2. discover_pfds(r) \in Registry /\ discover_pfds(r).deferred = << >>
      BY RegistryTypes
    <3>3. QED
      BY <3>1, <3>2, <1>3
  <2>2. CASE ~drain(r).stale
    BY <2>2 DEF discover_pfds
  <2>3. QED
    BY <2>1, <2>2
<1>8. QED
  BY <1>4, <1>5, <1>6, <1>7


(***************************************************************************)
(* Every step keeps the invariant.                                         *)
(***************************************************************************)

LEMMA OpenTypes ==
  ASSUME TypeOK
  PROVE  /\ open \in List /\ open.proof \in Proof /\ open.truth \in Truth
         /\ open.truth.entry \in Display /\ display \in Display
         /\ open.recording \in BOOLEAN
BY DEF TypeOK, List, Truth

LEMMA NoListTypes == NoList \in List /\ NoList.recording = FALSE
<1>1. reset(FALSE) \in Proof
  BY ResetTypes
<1>2. Fresh(In("COMMON")) \in Truth
  BY FreshTypes, DisplayTypes DEF States
<1>3. QED
  BY <1>1, <1>2 DEF NoList, List

LEMMA InitIInv == Init => IInv
<1> SUFFICES ASSUME Init PROVE IInv
  OBVIOUS
<1>1. open \in List /\ ~Open /\ display \in Display
  <2>1. PICK state \in States : display = In(state)
    BY DEF Init
  <2>2. display \in Display
    BY <2>1, DisplayTypes
  <2>3. QED
    BY <2>2, NoListTypes DEF Init, Open
<1>2. batch \in Seq(Closed) /\ Len(batch) = 0 /\ DOMAIN batch = {}
  BY EmptySeq DEF Init
<1>3. registry \in Registry /\ Len(registry.deferred) = 0 /\ drain(registry).settled = Unknown
  BY EmptySeq DEF Init, Unsettled, Registry, Rows, drain
<1>4. TypeOK
  <2>1. Len(batch) <= MaxBatch /\ Len(registry.deferred) <= RingSize
    BY <1>2, <1>3, BatchAssumption
  <2>2. missed \in BOOLEAN
    BY DEF Init
  <2>3. QED
    BY <1>1, <1>2, <1>3, <2>1, <2>2 DEF TypeOK
<1>5. QED
  BY <1>1, <1>2, <1>3, <1>4 DEF IInv, Current, Chained, Remembered, Init

\* A hook: the ledger becomes p, the list t, and the display d.
LEMMA RecordKeeps ==
  ASSUME IInv, Open, NEW p \in Proof, NEW t \in Truth, NEW d \in Display,
         Recorded(p, t), display' = d, t.entry = open.truth.entry,
         open.proof.known => Good(p, t, d),
         UNCHANGED <<batch, registry, missed>>
  PROVE  IInv'
<1>1. open \in List /\ open.proof \in Proof /\ open.truth \in Truth
  BY OpenTypes DEF IInv
<1> DEFINE q == IF open.proof.known THEN p ELSE open.proof
           u == IF q.known THEN t ELSE Fresh(t.entry)
<1>2. open' = [open EXCEPT !.proof = q, !.truth = u]
  BY DEF Recorded
<1>3. q \in Proof
  BY <1>1
<1>4. u \in Truth /\ u.entry = t.entry
  <2>1. t.entry \in Display
    BY DEF Truth
  <2>2. Fresh(t.entry) \in Truth /\ Fresh(t.entry).entry = t.entry
    BY <2>1, FreshTypes
  <2>3. QED
    BY <2>2
<1>5. /\ open' \in List /\ open'.recording = open.recording
      /\ open'.proof = q /\ open'.truth = u
  BY <1>1, <1>2, <1>3, <1>4 DEF List
<1>6. TypeOK'
  BY <1>5 DEF IInv, TypeOK
<1>7. Good(q, u, d)
  <2>1. CASE q.known
    BY <2>1
  <2>2. CASE ~q.known
    BY <2>2, InvalidGood
  <2>3. QED
    BY <2>1, <2>2
<1>8. Current'
  BY <1>5, <1>7 DEF IInv, Current
<1>9. Place' = Place
  BY <1>4, <1>5 DEF Place, Open
<1>10. Chained'
  BY <1>9 DEF IInv, Chained
<1>11. Left' = Left
  BY <1>9, PlaceLeft, <1>4, <1>5 DEF Left, Open
<1>12. Remembered'
  BY <1>11 DEF IInv, Remembered
<1>13. QED
  BY <1>6, <1>8, <1>10, <1>12 DEF IInv

LEMMA RecordIInv ==
  ASSUME IInv, Record
  PROVE  IInv'
<1> DEFINE p == open.proof
           t == open.truth
<1>1. p \in Proof /\ t \in Truth /\ display \in Display
  BY OpenTypes DEF IInv
<1>2. Open
  BY DEF Record, Barrier, Draw, DrawElsewhere, ClearUnordered, Dispatch, Copy, BeginPass, EndPass,
         Unprovable
<1>3. Good(p, t, display)
  BY <1>2 DEF IInv, Current
<1>4. /\ Named(t) \in Truth /\ Written(t) \in Truth /\ Sampling(t) \in Truth
      /\ Unreported(t) \in Truth
      /\ Named(t).entry = t.entry /\ Written(t).entry = t.entry
      /\ Sampling(t).entry = t.entry /\ Unreported(t).entry = t.entry
  BY <1>1, TruthTypes
<1>5. \A after \in States : Barrier(after) => IInv'
  <2> SUFFICES ASSUME NEW after \in States, Barrier(after) PROVE IInv'
    OBVIOUS
  <2>1. display.state \in States
    BY <1>1 DEF Display
  <2>2. observe_legacy(p, display.state, after) \in Proof /\ In(after) \in Display
    BY <1>1, <2>1, ObserveTypes, DisplayTypes
  <2>3. p.known => Good(observe_legacy(p, display.state, after), Named(t), In(after))
    BY <1>1, <1>3, ObserveGood
  <2>4. QED
    BY <1>2, <1>4, <2>2, <2>3, RecordKeeps DEF Barrier
\* A draw has marked what the list named before, and counts as interference.
<1>6. /\ gpu_work(p, TRUE) \in Proof /\ Good(gpu_work(p, TRUE), t, display)
      /\ ~gpu_work(p, TRUE).barrierOnly /\ gpu_work(p, TRUE).interference
      /\ gpu_work(p, TRUE).known = p.known
  <2>1. gpu_work(p, TRUE).known = p.known
    BY <1>1 DEF gpu_work, Overwritten, Proof
  <2>2. QED
    BY <1>1, <1>3, <2>1, GpuWorkTypes, GpuWorkGood
<1>7. /\ compute_work(p) \in Proof /\ Good(compute_work(p), t, display)
      /\ ~compute_work(p).barrierOnly /\ compute_work(p).known = p.known
  <2>1. compute_work(p).known = p.known
    BY <1>1 DEF compute_work, gpu_work, Overwritten, Proof
  <2>2. QED
    BY <1>1, <1>3, <2>1, ComputeWorkTypes, ComputeGood
<1>8. \A s \in {"RT", "UA", "DEST"} : Usable(s) =>
         Used(s) \in Display /\ Used(s).state = s /\ Promotes(display, Used(s))
  BY <1>1, DisplayTypes DEF States
<1>9. \A s \in {"RT", "UA"} : Usable(s) /\ p.known /\ t.named => gpu_work(p, TRUE).wrote
  BY <1>1, <1>3, DrawMarks DEF Usable
<1>10. Usable("UA") /\ p.known /\ t.named => compute_work(p).wrote
  BY <1>1, <1>3, ComputeMarks DEF Usable
<1>11. \A reported \in BOOLEAN : Draw(reported) => IInv'
  <2> SUFFICES ASSUME NEW reported \in BOOLEAN, Draw(reported) PROVE IInv'
    OBVIOUS
  <2> DEFINE g == gpu_work(p, TRUE)
             e == Used("RT")
  <2>1. Usable("RT") /\ display' = e /\ UNCHANGED <<batch, registry, missed>>
    BY DEF Draw
  <2>2. e \in Display /\ e.state = "RT" /\ Promotes(display, e)
    BY <1>8, <2>1
  <2>3. g.known /\ t.named => g.wrote
    BY <1>6, <1>9, <2>1
  <2>4. CASE reported
    <3>1. note_render_target_write(p) = note_carried_write(g, "RT")
      BY DEF note_render_target_write
    <3>2. note_carried_write(g, "RT") \in Proof
      BY <1>6, CarriedTypes DEF States
    <3>3. Good(note_carried_write(g, "RT"), Written(t), e)
      BY <1>1, <1>6, <2>2, <2>3, CarriedGood
    <3>4. Recorded(note_render_target_write(p), Written(t))
      BY <2>4 DEF Draw
    <3>5. QED
      BY <1>2, <1>4, <2>1, <2>2, <3>1, <3>2, <3>3, <3>4, RecordKeeps
  <2>5. CASE ~reported
    <3>1. Good(g, Unreported(t), display)
      BY <1>1, <1>6, <2>3, UnreportedGood
    <3>2. Good(g, Unreported(t), e)
      BY <1>1, <1>4, <1>6, <2>2, <3>1, PromotedGood
    <3>3. Recorded(g, Unreported(t))
      BY <2>5 DEF Draw
    <3>4. QED
      BY <1>2, <1>4, <1>6, <2>1, <2>2, <3>2, <3>3, RecordKeeps
  <2>6. QED
    BY <2>4, <2>5
<1>12. \A reported \in BOOLEAN : ClearUnordered(reported) => IInv'
  <2> SUFFICES ASSUME NEW reported \in BOOLEAN, ClearUnordered(reported) PROVE IInv'
    OBVIOUS
  <2> DEFINE c == compute_work(p)
             e == Used("UA")
  <2>1. Usable("UA") /\ display' = e /\ UNCHANGED <<batch, registry, missed>>
    BY DEF ClearUnordered
  <2>2. e \in Display /\ e.state = "UA" /\ Promotes(display, e)
    BY <1>8, <2>1
  <2>3. c.known /\ t.named => c.wrote
    BY <1>7, <1>10, <2>1
  <2>4. CASE reported
    <3>1. note_unordered_access_write(p) = note_carried_write(c, "UA")
      BY DEF note_unordered_access_write
    <3>2. note_carried_write(c, "UA") \in Proof
      BY <1>7, CarriedTypes DEF States
    <3>3. Good(note_carried_write(c, "UA"), Written(t), e)
      BY <1>1, <1>7, <2>2, <2>3, CarriedGood
    <3>4. Recorded(note_unordered_access_write(p), Written(t))
      BY <2>4 DEF ClearUnordered
    <3>5. QED
      BY <1>2, <1>4, <2>1, <2>2, <3>1, <3>2, <3>3, <3>4, RecordKeeps
  <2>5. CASE ~reported
    <3>1. Good(c, Unreported(t), display)
      BY <1>1, <1>7, <2>3, UnreportedGood
    <3>2. Good(c, Unreported(t), e)
      BY <1>1, <1>4, <1>7, <2>2, <3>1, PromotedGood
    <3>3. Recorded(c, Unreported(t))
      BY <2>5 DEF ClearUnordered
    <3>4. QED
      BY <1>2, <1>4, <1>7, <2>1, <2>2, <3>2, <3>3, RecordKeeps
  <2>6. QED
    BY <2>4, <2>5
<1>13. p.known => Good(gpu_work(p, TRUE), Sampling(t), display)
  BY <1>1, <1>6, SamplingGood
<1>14. \A stores \in BOOLEAN : DrawElsewhere(stores) => IInv'
  <2> SUFFICES ASSUME NEW stores \in BOOLEAN, DrawElsewhere(stores) PROVE IInv'
    OBVIOUS
  <2> DEFINE g == gpu_work(p, TRUE)
             u == Sampling(t)
             e == Used("UA")
  <2>1. stores => Usable("UA")
    BY DEF DrawElsewhere
  <2>2. /\ Recorded(g, IF stores THEN Unreported(u) ELSE u)
        /\ display' = IF stores THEN e ELSE display
        /\ UNCHANGED <<batch, registry, missed>>
    BY DEF DrawElsewhere
  <2>3. u.named = t.named
    BY <1>1 DEF Sampling, Truth
  <2>4. CASE stores
    <3>1. e \in Display /\ e.state = "UA" /\ Promotes(display, e)
      BY <1>8, <2>1, <2>4
    <3>2. g.known /\ u.named => g.wrote
      BY <1>6, <1>9, <2>1, <2>3, <2>4
    <3>3. Unreported(u) \in Truth /\ Unreported(u).entry = t.entry
      BY <1>4, TruthTypes
    <3>4. p.known => Good(g, Unreported(u), e)
      <4> SUFFICES ASSUME p.known PROVE Good(g, Unreported(u), e)
        OBVIOUS
      <4>1. Good(g, Unreported(u), display)
        BY <1>1, <1>4, <1>6, <1>13, <3>2, UnreportedGood
      <4>2. QED
        BY <1>1, <1>6, <3>1, <3>3, <4>1, PromotedGood
    <3>5. Recorded(g, Unreported(u)) /\ display' = e
      BY <2>2, <2>4
    <3>6. QED
      BY <1>2, <1>6, <2>2, <3>1, <3>3, <3>4, <3>5, RecordKeeps
  <2>5. CASE ~stores
    <3>1. Recorded(g, u) /\ display' = display
      BY <2>2, <2>5
    <3>2. QED
      BY <1>1, <1>2, <1>4, <1>6, <1>13, <2>2, <3>1, RecordKeeps
  <2>6. QED
    BY <2>4, <2>5
<1>15. \A stores \in BOOLEAN : Dispatch(stores) => IInv'
  <2> SUFFICES ASSUME NEW stores \in BOOLEAN, Dispatch(stores) PROVE IInv'
    OBVIOUS
  <2> DEFINE c == compute_work(p)
             e == Used("UA")
  <2>1. stores => Usable("UA")
    BY DEF Dispatch
  <2>2. /\ Recorded(c, IF stores THEN Unreported(t) ELSE t)
        /\ display' = IF stores THEN e ELSE display
        /\ UNCHANGED <<batch, registry, missed>>
    BY DEF Dispatch
  <2>3. CASE stores
    <3>1. e \in Display /\ e.state = "UA" /\ Promotes(display, e)
      BY <1>8, <2>1, <2>3
    <3>2. c.known /\ t.named => c.wrote
      BY <1>7, <1>10, <2>1, <2>3
    <3>3. Good(c, Unreported(t), display)
      BY <1>1, <1>7, <3>2, UnreportedGood
    <3>4. Good(c, Unreported(t), e)
      BY <1>1, <1>4, <1>7, <3>1, <3>3, PromotedGood
    <3>5. Recorded(c, Unreported(t)) /\ display' = e
      BY <2>2, <2>3
    <3>6. QED
      BY <1>2, <1>4, <1>7, <2>2, <3>1, <3>4, <3>5, RecordKeeps
  <2>4. CASE ~stores
    <3>1. Recorded(c, t) /\ display' = display
      BY <2>2, <2>4
    <3>2. QED
      BY <1>1, <1>2, <1>7, <2>2, <3>1, RecordKeeps
  <2>5. QED
    BY <2>3, <2>4
<1>16. \A into \in BOOLEAN : Copy(into) => IInv'
  <2> SUFFICES ASSUME NEW into \in BOOLEAN, Copy(into) PROVE IInv'
    OBVIOUS
  <2> DEFINE g == gpu_work(p, FALSE)
             e == IF into THEN Used("DEST") ELSE display
             u == IF into /\ display = In("DEST") THEN Unreported(t) ELSE t
  <2>1. Recorded(g, u) /\ display' = e /\ UNCHANGED <<batch, registry, missed>>
    BY DEF Copy
  <2>2. g \in Proof /\ Good(g, t, display) /\ ~g.barrierOnly
    BY <1>1, <1>3, GpuWorkTypes, GpuWorkGood
  <2>3. into => Usable("DEST")
    BY DEF Copy
  <2>4. e \in Display /\ Promotes(display, e) /\ (into => e.state = "DEST")
    BY <1>1, <1>8, <2>3 DEF Promotes
  <2>5. u \in Truth /\ u.entry = t.entry
    BY <1>1, <1>4
  <2>6. Good(g, u, display)
    <3>1. CASE into /\ display = In("DEST")
      <4>1. display.state = "DEST" /\ ~display.promoted
        BY <3>1 DEF In
      <4>2. g.known /\ t.named => g.wrote
        BY <2>2, <4>1 DEF Good, Traced, writable_gpu_state
      <4>3. Good(g, Unreported(t), display)
        BY <1>1, <2>2, <4>2, UnreportedGood
      <4>4. QED
        BY <3>1, <4>3
    <3>2. CASE ~(into /\ display = In("DEST"))
      BY <2>2, <3>2
    <3>3. QED
      BY <3>1, <3>2
  <2>7. Good(g, u, e)
    <3>1. CASE into
      <4>1. e.state # "RT"
        BY <3>1, <2>4
      <4>2. QED
        BY <1>1, <2>2, <2>4, <2>5, <2>6, <4>1, PromotedGood
    <3>2. CASE ~into
      BY <2>6, <3>2
    <3>3. QED
      BY <3>1, <3>2
  <2> HIDE DEF g, e, u
  <2>8. QED
    BY <1>2, <2>1, <2>2, <2>4, <2>5, <2>7, RecordKeeps
<1>17. \A ordinary \in BOOLEAN : BeginPass(ordinary) => IInv'
  <2> SUFFICES ASSUME NEW ordinary \in BOOLEAN, BeginPass(ordinary) PROVE IInv'
    OBVIOUS
  <2> DEFINE g == gpu_work(p, TRUE)
  <2>1. begin_pass(p, ordinary) \in Proof
    BY <1>1, PassTypes
  <2>2. Good(invalidate(g), Sampling(t), display)
    BY InvalidatedGood
  <2>3. p.known => Good([g EXCEPT !.pass = TRUE], Sampling(t), display)
    BY <1>6, <1>13 DEF Good, Traced, Watched, Proof
  <2>4. p.known => Good(begin_pass(p, ordinary), Sampling(t), display)
    BY <2>2, <2>3 DEF begin_pass
  <2>5. QED
    BY <1>1, <1>2, <1>4, <2>1, <2>4, RecordKeeps DEF BeginPass
<1>18. EndPass => IInv'
  <2> SUFFICES ASSUME EndPass PROVE IInv'
    OBVIOUS
  <2>1. end_pass(p) \in Proof
    BY <1>1, PassTypes
  <2>2. Good(invalidate(p), t, display)
    BY InvalidatedGood
  <2>3. Good([p EXCEPT !.pass = FALSE], t, display)
    BY <1>1, <1>3 DEF Good, Traced, Watched, Proof
  <2>4. Good(end_pass(p), t, display)
    BY <2>2, <2>3 DEF end_pass
  <2>5. QED
    BY <1>1, <1>2, <2>1, <2>4, RecordKeeps DEF EndPass
<1>19. \A after \in States : Unprovable(after) => IInv'
  <2> SUFFICES ASSUME NEW after \in States, Unprovable(after) PROVE IInv'
    OBVIOUS
  <2>1. invalidate(p) \in Proof /\ In(after) \in Display
    BY <1>1, ResetTypes, DisplayTypes DEF invalidate
  <2>2. Good(invalidate(p), Written(t), In(after))
    BY InvalidatedGood
  <2>3. QED
    BY <1>1, <1>2, <1>4, <2>1, <2>2, RecordKeeps DEF Unprovable
<1>20. QED
  BY <1>5, <1>11, <1>12, <1>14, <1>15, <1>16, <1>17, <1>18, <1>19 DEF Record


LEMMA ResetIInv ==
  ASSUME IInv, NEW observed \in BOOLEAN, Reset(observed)
  PROVE  IInv'
<1>1. display \in Display /\ ~Open
  BY OpenTypes DEF IInv, Reset
<1> DEFINE q == [recording |-> TRUE, proof |-> reset(observed), truth |-> Fresh(display)]
<1>2. q \in List
  BY <1>1, ResetTypes, FreshTypes DEF List
<1>3. open' = q /\ display' = display
  BY DEF Reset
<1>4. TypeOK'
  BY <1>2, <1>3 DEF IInv, TypeOK, Reset
<1>5. Good(reset(observed), Fresh(display), display)
  BY DEF Good, Traced, Watched, reset, Fresh
<1>6. Current'
  BY <1>3, <1>5 DEF Current, Reset
<1>7. Place' = Place /\ Left' = Left
  BY <1>1, <1>3 DEF Place, Left, Open, Fresh
<1>8. Chained' /\ Remembered'
  BY <1>7 DEF IInv, Chained, Remembered, Reset
<1>9. QED
  BY <1>4, <1>6, <1>8 DEF IInv

\* A closed ledger is read without its interference.
LEMMA ForgetTraced ==
  ASSUME NEW p \in Proof, NEW t \in Truth, NEW d \in Display, Traced(p, t, d)
  PROVE  /\ [p EXCEPT !.interference = FALSE] \in Proof
         /\ Traced([p EXCEPT !.interference = FALSE], t, d)
BY DEF Traced, Proof

LEMMA CloseIInv ==
  ASSUME IInv, NEW locked \in BOOLEAN, Close(locked)
  PROVE  IInv'
<1> DEFINE p == open.proof
           t == open.truth
           c == [proof |-> [p EXCEPT !.interference = FALSE], truth |-> t, leaves |-> display]
           row == Settlement(p)
           n == Len(batch)
<1>1. p \in Proof /\ t \in Truth /\ display \in Display /\ t.entry \in Display
  BY OpenTypes DEF IInv
<1>2. Open /\ batch' = Append(batch, c) /\ open' = NoList /\ display' = display
  BY DEF Close
<1>3. Traced(p, t, display) /\ n < MaxBatch
  BY <1>2 DEF IInv, Current, Good
<1>4. c \in Closed /\ Traced(c.proof, c.truth, c.leaves)
  BY <1>1, <1>3, ForgetTraced DEF Closed
<1>5. batch \in Seq(Closed) /\ n \in Nat /\ n <= MaxBatch
  BY LenProperties DEF IInv, TypeOK
<1>6. /\ batch' \in Seq(Closed) /\ Len(batch') = n + 1 /\ batch'[n + 1] = c
      /\ \A i \in 1..n : batch'[i] = batch[i]
  BY <1>2, <1>4, <1>5, AppendProperties
<1>7. DOMAIN batch = 1..n /\ DOMAIN batch' = 1..(n + 1)
  BY <1>5, <1>6, LenProperties
<1>8. ~Open' /\ open' \in List /\ Current'
  BY <1>2, NoListTypes DEF Open, Current
<1>9. /\ Place = t.entry /\ Place' = display
      /\ Left = t.entry.state /\ Left' = display.state
  BY <1>2, <1>8 DEF Place, Left
<1>10. row \in Rows
  BY <1>1 DEF Settlement, Rows, Proof
<1>11. registry \in Registry /\ Len(registry.deferred) <= RingSize /\ missed \in BOOLEAN
  BY DEF IInv, TypeOK
<1>12. registry' \in Registry /\ Len(registry'.deferred) <= RingSize /\ missed' \in BOOLEAN
  <2>1. Len(<< >>) = 0 /\ 0 <= RingSize
    BY BatchAssumption
  <2>2. CASE Settles(p) /\ locked
    <3>1. registry' = apply_settlement(registry, row) /\ missed' = FALSE
      BY <2>2 DEF Close
    <3>2. QED
      BY <2>1, <3>1, <1>10, <1>11, RegistryTypes
  <2>3. CASE Settles(p) /\ ~locked
    <3>1. registry' = push(registry, row) /\ missed' = FALSE
      BY <2>3 DEF Close
    <3>2. QED
      BY <3>1, <1>10, <1>11, RegistryTypes
  <2>4. CASE ~Settles(p)
    <3>1. registry' = registry /\ missed' \in BOOLEAN
      BY <2>4 DEF Close
    <3>2. QED
      BY <3>1, <1>11
  <2>5. QED
    BY <2>2, <2>3, <2>4
<1>13. TypeOK'
  <2>1. Len(batch') <= MaxBatch
    BY <1>3, <1>5, <1>6, BatchAssumption
  <2>2. QED
    BY <1>1, <1>2, <1>6, <1>8, <1>12, <2>1 DEF TypeOK
<1>14. Chained'
  <2>1. \A i \in DOMAIN batch' : Traced(batch'[i].proof, batch'[i].truth, batch'[i].leaves)
    <3> SUFFICES ASSUME NEW i \in DOMAIN batch'
                 PROVE  Traced(batch'[i].proof, batch'[i].truth, batch'[i].leaves)
      OBVIOUS
    <3>1. CASE i = n + 1
      BY <3>1, <1>4, <1>6
    <3>2. CASE i \in 1..n
      BY <3>2, <1>6, <1>7 DEF IInv, Chained
    <3>3. QED
      BY <3>1, <3>2, <1>5, <1>7
  <2>2. \A i \in DOMAIN batch' : i > 1 => batch'[i].truth.entry = batch'[i - 1].leaves
    <3> SUFFICES ASSUME NEW i \in DOMAIN batch', i > 1
                 PROVE  batch'[i].truth.entry = batch'[i - 1].leaves
      OBVIOUS
    <3>1. CASE i = n + 1
      <4>1. batch # << >> /\ n \in 1..n /\ i - 1 = n
        BY <3>1, <1>5
      <4>2. batch[n].leaves = t.entry
        BY <4>1, <1>9 DEF IInv, Chained
      <4>3. QED
        BY <3>1, <4>1, <4>2, <1>6
    <3>2. CASE i \in 1..n
      <4>1. i - 1 \in 1..n
        BY <3>2, <1>5
      <4>2. QED
        BY <3>2, <4>1, <1>6, <1>7 DEF IInv, Chained
    <3>3. QED
      BY <3>1, <3>2, <1>5, <1>7
  <2>3. batch'[Len(batch')].leaves = Place'
    BY <1>6, <1>9
  <2>4. QED
    BY <2>1, <2>2, <2>3 DEF Chained
<1>15. Remembered'
  <2> SUFFICES ASSUME ~missed'
               PROVE  \/ drain(registry').stale
                      \/ drain(registry').settled \in {Unknown, display.state}
    BY <1>9 DEF Remembered
  \* A state that a copy can be inserted after is not COMMON, so nothing promoted it.
  <2>1. Settles(p) => row \in {Unknown, display.state}
    <3>1. Settles(p) /\ restorable(p) => p.after = display.state
      BY <1>1, <1>3 DEF Settles, complete, Traced, restorable, insertable_after
    <3>2. QED
      BY <3>1 DEF Settlement
  <2>2. CASE Settles(p) /\ locked
    <3>1. registry' = apply_settlement(registry, row)
      BY <2>2 DEF Close
    <3>2. QED
      BY <2>1, <2>2, <3>1, <1>10, <1>11, RegistryDrains
  <2>3. CASE Settles(p) /\ ~locked
    <3>1. registry' = push(registry, row)
      BY <2>3 DEF Close
    <3>2. QED
      BY <2>1, <2>3, <3>1, <1>10, <1>11, RegistryDrains
  <2>4. CASE ~Settles(p)
    <3>1. registry' = registry /\ ~missed /\ display = t.entry
      BY <2>4 DEF Close
    <3>2. QED
      BY <3>1, <1>9 DEF IInv, Remembered
  <2>5. QED
    BY <2>2, <2>3, <2>4
<1>16. QED
  BY <1>8, <1>13, <1>14, <1>15 DEF IInv

LEMMA CloseFailsIInv ==
  ASSUME IInv, CloseFails
  PROVE  IInv'
<1>1. open.truth.entry \in Display /\ Open
  BY OpenTypes DEF IInv, CloseFails
<1>2. open' = NoList /\ display' = open.truth.entry /\ UNCHANGED <<batch, registry, missed>>
  BY DEF CloseFails
<1>3. ~Open' /\ open' \in List /\ Current'
  BY <1>2, NoListTypes DEF Open, Current
<1>4. Place' = Place /\ Left' = Left
  BY <1>1, <1>2, <1>3 DEF Place, Left
<1>5. TypeOK'
  BY <1>1, <1>2, <1>3 DEF IInv, TypeOK
<1>6. Chained' /\ Remembered'
  BY <1>2, <1>4 DEF IInv, Chained, Remembered
<1>7. QED
  BY <1>3, <1>5, <1>6 DEF IInv

\* Draining changes nothing of what a plan finds.
LEMMA DrainedRemembered ==
  ASSUME IInv, missed' \/ (Left' = Left /\ missed' = missed),
         registry' = registry \/ registry' = drain(registry)
           \/ registry' = discover_pfds(registry)
  PROVE  registry' \in Registry /\ Len(registry'.deferred) <= RingSize /\ Remembered'
<1>1. registry \in Registry /\ Len(registry.deferred) <= RingSize /\ Unknown \in Rows
  BY DEF IInv, TypeOK, Rows
<1>2. Len(<< >>) = 0 /\ 0 <= RingSize
  BY BatchAssumption
<1>3. registry' \in Registry /\ Len(registry'.deferred) <= RingSize
  BY <1>1, <1>2, RegistryTypes
<1>4. \/ drain(registry') = drain(registry)
      \/ drain(registry').settled = Unknown
  BY <1>1, RegistryDrains
<1>5. QED
  BY <1>3, <1>4 DEF IInv, Remembered

\* The promotions of the call end with it or are forgotten; a decay counts as missed.
LEMMA ExecuteIInv ==
  ASSUME IInv, NEW planned \in BOOLEAN, NEW decays \in BOOLEAN, Execute(planned, decays)
  PROVE  IInv'
<1>1. /\ batch' = << >> /\ open' = open /\ ~Open
      /\ display' = In(IF decays THEN "COMMON" ELSE display.state)
      /\ missed' = (missed \/ decays)
      /\ registry' = registry \/ registry' = drain(registry)
  BY DEF Execute
<1>2. display \in Display /\ display.state \in States /\ missed \in BOOLEAN
  BY DEF IInv, TypeOK, Display
<1>3. display' \in Display /\ (~decays => display'.state = display.state)
  BY <1>1, <1>2, DisplayTypes DEF States
<1>4. missed' \/ (Left' = Left /\ missed' = missed)
  <2>1. CASE decays
    BY <1>1, <2>1
  <2>2. CASE ~decays
    <3>1. missed' = missed
      BY <1>1, <1>2, <2>2
    <3>2. Left' = Left
      BY <1>1, <1>3, <2>2 DEF Left, Open
    <3>3. QED
      BY <3>1, <3>2
  <2>3. QED
    BY <2>1, <2>2
<1>5. registry' \in Registry /\ Len(registry'.deferred) <= RingSize /\ Remembered'
  BY <1>1, <1>4, DrainedRemembered
<1>6. batch' \in Seq(Closed) /\ Len(batch') = 0 /\ DOMAIN batch' = {}
  BY <1>1, EmptySeq
<1>7. Len(batch') <= MaxBatch
  BY <1>6, BatchAssumption
<1>8. missed' \in BOOLEAN /\ open' \in List
  BY <1>1, <1>2 DEF IInv, TypeOK
<1>9. TypeOK'
  BY <1>3, <1>5, <1>6, <1>7, <1>8 DEF TypeOK
<1>10. Chained' /\ Current'
  BY <1>1, <1>6 DEF Chained, Current, Open
<1>11. QED
  BY <1>5, <1>9, <1>10 DEF IInv

LEMMA DiscoverIInv ==
  ASSUME IInv, Discover
  PROVE  IInv'
<1>1. registry' = discover_pfds(registry) /\ UNCHANGED <<open, batch, display, missed>>
  BY DEF Discover
<1>2. Place' = Place /\ Left' = Left
  BY <1>1 DEF Place, Left, Open
<1>3. registry' \in Registry /\ Len(registry'.deferred) <= RingSize /\ Remembered'
  BY <1>1, <1>2, DrainedRemembered
<1>4. TypeOK'
  BY <1>1, <1>3 DEF IInv, TypeOK
<1>5. Chained' /\ Current'
  BY <1>1, <1>2 DEF IInv, Chained, Current, Open
<1>6. QED
  BY <1>3, <1>4, <1>5 DEF IInv


LEMMA NextIInv == IInv /\ [Next]_vars => IInv'
<1> SUFFICES ASSUME IInv, [Next]_vars PROVE IInv'
  OBVIOUS
<1>1. CASE UNCHANGED vars
  BY <1>1 DEF vars, IInv, TypeOK, Current, Chained, Remembered, Open, Left, Place
<1>2. CASE Next
  BY <1>2, ResetIInv, RecordIInv, CloseIInv, CloseFailsIInv, ExecuteIInv, DiscoverIInv DEF Next
<1>3. QED
  BY <1>1, <1>2

THEOREM Invariance == Spec => []IInv
BY InitIInv, NextIInv, PTL DEF Spec

(***************************************************************************)
(* Sites.  A set of lists of a call has a first and a last one.            *)
(***************************************************************************)

LEMMA FirstList ==
  ASSUME NEW S, S \subseteq Nat, S # {}
  PROVE  \E x \in S : \A y \in S : x <= y
<1>1. PICK x \in S : \A y \in S : <<y, x>> \notin OpToRel(<, Nat)
  BY WFMin, NatLessThanWellFounded, Zenon
<1>2. \A y \in S : ~(y < x)
  BY <1>1, Zenon DEF OpToRel
<1>3. \A y \in S : y \in Nat /\ x \in Nat
  OBVIOUS
<1>4. \A y \in S : x <= y
  BY <1>2, <1>3
<1>5. QED
  BY <1>4

LEMMA MinIsFirst ==
  ASSUME NEW S, S \subseteq Nat, S # {}
  PROVE  Min(S) \in S /\ \A y \in S : Min(S) <= y
BY FirstList DEF Min

LEMMA MaxIsLast ==
  ASSUME NEW n \in Nat, NEW S, S \subseteq 1..n, S # {}
  PROVE  Max(S) \in S /\ \A y \in S : y <= Max(S)
<1> DEFINE T == {k \in Nat : \E x \in S : k = n - x}
<1>1. T \subseteq Nat
  OBVIOUS
<1>2. PICK z \in S : z \in 1..n
  OBVIOUS
<1>3. n - z \in T
  BY <1>2
<1>4. PICK u \in T : \A v \in T : u <= v
  <2>1. T # {}
    BY <1>3
  <2> HIDE DEF T
  <2>2. QED
    BY <1>1, <2>1, FirstList
<1>5. PICK x \in S : u = n - x
  BY <1>4
<1>6. \A y \in S : x >= y
  <2> SUFFICES ASSUME NEW y \in S PROVE x >= y
    OBVIOUS
  <2>1. x \in 1..n /\ y \in 1..n
    OBVIOUS
  <2>2. n - y \in T
    BY <2>1
  <2>3. n - x <= n - y
    BY <1>4, <1>5, <2>2
  <2>4. QED
    BY <2>1, <2>3
<1>7. Max(S) \in S /\ \A y \in S : Max(S) >= y
  BY <1>6 DEF Max
<1>8. \A y \in S : y \in 1..n
  OBVIOUS
<1>9. QED
  BY <1>7, <1>8

\* What the invariant says of one list of a call whose ledgers are all valid.
LEMMA ListFacts ==
  ASSUME IInv, NEW i \in DOMAIN batch
  PROVE  /\ batch \in Seq(Closed) /\ Len(batch) \in Nat /\ DOMAIN batch = 1..Len(batch)
         /\ batch[i].proof \in Proof /\ batch[i].truth \in Truth
         /\ StateAt(i) = batch[i].truth.entry.state
         /\ StateAt(i + 1) = batch[i].leaves.state
         /\ batch_allows(batch) =>
              /\ batch[i].proof.seen /\ batch[i].proof.after # "COMMON" =>
                   batch[i].proof.after = StateAt(i + 1)
              /\ batch[i].proof.seen /\ batch[i].proof.barrierOnly =>
                   batch[i].proof.after = StateAt(i + 1)
              /\ batch[i].proof.seen
                   /\ (StateAt(i) # "COMMON" \/ batch[i].proof.prefixExit) =>
                   batch[i].proof.first = StateAt(i)
              /\ ~batch[i].proof.seen /\ StateAt(i) # "COMMON" => StateAt(i + 1) = StateAt(i)
              /\ batch[i].truth.writes => batch[i].proof.wrote
              /\ batch[i].proof.wrote => batch[i].proof.seen
              /\ batch[i].proof.seen /\ batch[i].proof.entryClean /\ StateAt(i) # "COMMON" =>
                   ~batch[i].truth.sampled
<1> DEFINE n == Len(batch)
<1>1. batch \in Seq(Closed) /\ n \in Nat /\ DOMAIN batch = 1..n
  BY LenProperties DEF IInv, TypeOK
<1>2. batch[i] \in Closed
  BY <1>1, ElementOfSeq
<1>3. batch[i].proof \in Proof /\ batch[i].truth \in Truth
  BY <1>2 DEF Closed
<1>4. StateAt(i) = batch[i].truth.entry.state
  BY <1>1 DEF StateAt
<1>5. StateAt(i + 1) = batch[i].leaves.state
  <2>1. CASE i = n
    BY <2>1, <1>1 DEF StateAt
  <2>2. CASE i < n
    <3>1. i + 1 \in DOMAIN batch /\ i + 1 > 1 /\ (i + 1) - 1 = i
      BY <2>2, <1>1
    <3>2. batch[i + 1].truth.entry = batch[(i + 1) - 1].leaves
      BY <3>1 DEF IInv, Chained
    <3>3. QED
      BY <2>2, <3>1, <3>2, <1>1 DEF StateAt
  <2>3. QED
    BY <2>1, <2>2, <1>1
<1>6. Traced(batch[i].proof, batch[i].truth, batch[i].leaves)
  BY DEF IInv, Chained
<1>7. batch_allows(batch) => batch[i].proof.known
  BY DEF batch_allows, complete
<1>8. QED
  BY <1>1, <1>3, <1>4, <1>5, <1>6, <1>7 DEF Traced, Proof, Truth

(***************************************************************************)
(* The sites.                                                              *)
(***************************************************************************)

LEMMA OverlayHolds == IInv => OverlayOnTop
<1> DEFINE site == batch_overlay(batch)
           Top == /\ site.state = StateAt(Follows(site))
                  /\ \A i \in Follows(site)..Len(batch) :
                       batch[i].truth.writes => Writes(batch) # {} /\ Unfinished(i)
<1> SUFFICES ASSUME IInv, site # None PROVE Top
  BY DEF OverlayOnTop
<1>1. batch_allows(batch)
  BY DEF batch_overlay
<1>2. batch \in Seq(Closed) /\ Len(batch) \in Nat /\ DOMAIN batch = 1..Len(batch)
  BY LenProperties DEF IInv, TypeOK
<1>3. CASE Writes(batch) # {}
  <2> DEFINE m == Max(Writes(batch))
  <2>1. site = After(batch, m)
    BY <1>1, <1>3 DEF batch_overlay
  <2>2. m \in Writes(batch) /\ \A i \in Writes(batch) : i <= m
    <3>1. Writes(batch) \subseteq 1..Len(batch)
      BY <1>2 DEF Writes
    <3>2. QED
      BY <1>2, <1>3, <3>1, MaxIsLast
  <2> HIDE DEF m
  <2>3. /\ m \in DOMAIN batch /\ m \in 1..Len(batch) /\ batch[m].proof.seen
        /\ batch[m].proof.after # "COMMON"
    BY <1>2, <2>2 DEF Writes, suffix_site, insertable_after
  <2>4. Follows(site) = m + 1 /\ site.state = batch[m].proof.after
    BY <2>1 DEF After, Follows
  <2>5. site.state = StateAt(Follows(site))
    BY <1>1, <2>3, <2>4, ListFacts
  <2>6. ASSUME NEW i \in (m + 1)..Len(batch), batch[i].truth.writes
        PROVE  Unfinished(i)
    <3>1. i \in DOMAIN batch /\ ~(i <= m)
      BY <1>2, <2>3
    <3>2. i \notin Writes(batch)
      BY <2>2, <3>1
    <3>3. ~suffix_site(batch[i].proof)
      BY <3>1, <3>2 DEF Writes
    <3>4. overwrote(batch[i].proof)
      BY <1>1, <2>6, <3>1, ListFacts DEF overwrote
    <3>5. QED
      BY <3>3, <3>4 DEF Unfinished
  <2>7. QED
    BY <1>3, <2>4, <2>5, <2>6
<1>4. CASE Writes(batch) = {}
  <2> DEFINE e == Min(Exits(batch))
  <2>1. Exits(batch) # {} /\ site = Safe(batch, e)
    BY <1>1, <1>4 DEF batch_overlay
  <2>2. e \in Exits(batch)
    <3>1. Exits(batch) \subseteq Nat
      BY <1>2 DEF Exits
    <3>2. QED
      BY <2>1, <3>1, MinIsFirst
  <2> HIDE DEF e
  <2>3. e \in DOMAIN batch /\ e \in 1..Len(batch)
    BY <1>2, <2>2 DEF Exits
  <2>4. candidate(batch[e].proof) \/ prefix_candidate(batch[e].proof)
    BY <2>2 DEF Exits
  <2>5. batch[e].proof.seen
    BY <2>4 DEF candidate, prefix_candidate
  <2>6. \/ site = After(batch, e) /\ batch[e].proof.barrierOnly
        \/ site = Before(batch, e) /\ batch[e].proof.prefixExit
    BY <2>1, <2>4 DEF Safe, candidate, prefix_candidate
  <2>7. \A j \in Follows(site)..Len(batch) : ~overwrote(batch[j].proof)
    BY <2>1 DEF Safe
  <2>8. site.state = StateAt(Follows(site)) /\ Follows(site) \in {e, e + 1}
    <3>1. CASE site = After(batch, e) /\ batch[e].proof.barrierOnly
      <4>1. site.state = batch[e].proof.after /\ Follows(site) = e + 1
        BY <3>1 DEF After, Follows
      <4>2. QED
        BY <1>1, <2>3, <2>5, <3>1, <4>1, ListFacts
    <3>2. CASE site = Before(batch, e) /\ batch[e].proof.prefixExit
      <4>1. site.state = batch[e].proof.first /\ Follows(site) = e
        BY <3>2 DEF Before, Follows
      <4>2. QED
        BY <1>1, <2>3, <2>5, <3>2, <4>1, ListFacts
    <3>3. QED
      BY <2>6, <3>1, <3>2
  <2>9. ASSUME NEW i \in Follows(site)..Len(batch), batch[i].truth.writes
        PROVE  FALSE
    <3>1. i \in DOMAIN batch
      BY <1>2, <2>3, <2>8
    <3>2. overwrote(batch[i].proof)
      BY <1>1, <2>9, <3>1, ListFacts DEF overwrote
    <3>3. QED
      BY <2>7, <3>2
  <2>10. QED
    BY <2>8, <2>9
<1>5. QED
  BY <1>3, <1>4

\* Lists that do not name the display leave it as they found it, unless they promote
\* COMMON.
LEMMA AfterIsLeft ==
  ASSUME IInv, batch_after(batch) \notin {Unknown, "COMMON"}
  PROVE  batch_after(batch) = Left
<1> DEFINE n == Len(batch)
           m == Max(Mentioning(batch))
<1>1. batch_allows(batch) /\ Mentioning(batch) # {}
  BY DEF batch_after
<1>2. batch_after(batch) = batch[m].proof.after
  BY <1>1 DEF batch_after
<1>3. batch \in Seq(Closed) /\ n \in Nat /\ DOMAIN batch = 1..n
  BY LenProperties DEF IInv, TypeOK
<1>4. m \in Mentioning(batch) /\ \A i \in Mentioning(batch) : i <= m
  <2>1. Mentioning(batch) \subseteq 1..n
    BY <1>3 DEF Mentioning
  <2>2. QED
    BY <1>1, <1>3, <2>1, MaxIsLast
<1> HIDE DEF m
<1>5. m \in DOMAIN batch /\ m \in 1..n /\ batch[m].proof.seen
  BY <1>3, <1>4 DEF Mentioning, mentions
<1>6. batch[m].proof.after = StateAt(m + 1) /\ StateAt(m + 1) # "COMMON"
  BY <1>1, <1>2, <1>5, ListFacts
<1> DEFINE S == {j \in m..n : StateAt(j + 1) # StateAt(m + 1)}
<1>7. S = {}
  <2> SUFFICES ASSUME S # {} PROVE FALSE
    OBVIOUS
  <2>1. S \subseteq Nat
    BY <1>5
  <2>2. PICK x \in S : \A y \in S : x <= y
    <3> HIDE DEF S
    <3>1. QED
      BY <2>1, FirstList
  <2>3. x \in m..n /\ StateAt(x + 1) # StateAt(m + 1) /\ x # m
    BY <2>2
  <2>4. x \in DOMAIN batch /\ x - 1 \in m..n /\ ~(x <= x - 1) /\ (x - 1) + 1 = x
    BY <2>3, <1>3, <1>5
  <2>5. StateAt(x) = StateAt(m + 1)
    BY <2>2, <2>4
  <2>6. x \notin Mentioning(batch)
    BY <1>4, <1>5, <2>3
  <2>7. ~batch[x].proof.seen
    BY <2>4, <2>6 DEF Mentioning, mentions
  <2>8. StateAt(x + 1) = StateAt(x)
    BY <1>1, <1>6, <2>4, <2>5, <2>7, ListFacts
  <2>9. QED
    BY <2>3, <2>5, <2>8
<1>8. n \in m..n /\ n \in DOMAIN batch /\ batch # << >>
  BY <1>3, <1>5
<1>9. StateAt(n + 1) = StateAt(m + 1)
  BY <1>7, <1>8
<1>10. StateAt(n + 1) = batch[n].leaves.state
  BY <1>8, ListFacts
<1>11. batch[n].leaves.state = Left
  BY <1>8, PlaceLeft DEF IInv, Chained
<1>12. QED
  BY <1>2, <1>6, <1>9, <1>10, <1>11

LEMMA EntryHolds == IInv => EntryUnderWrites
<1> DEFINE site == batch_entry(batch)
           entry == batch[site.list]
<1> SUFFICES ASSUME IInv, batch_allows(batch)
             PROVE  /\ batch_after(batch) \notin {Unknown, "COMMON"} => batch_after(batch) = Left
                    /\ \A i \in DOMAIN batch : batch[i].truth.writes => site # None
                    /\ site # None =>
                         /\ \A i \in 1..(site.list - 1) : ~batch[i].truth.writes
                         /\ insertable_after(site.state) /\ StateAt(site.list) # "COMMON" =>
                              /\ site.state = StateAt(site.list)
                              /\ entry.proof.entryClean => ~entry.truth.sampled
  BY DEF EntryUnderWrites
<1>1. batch \in Seq(Closed) /\ Len(batch) \in Nat /\ DOMAIN batch = 1..Len(batch)
  BY LenProperties DEF IInv, TypeOK
<1>2. ASSUME NEW i \in DOMAIN batch, batch[i].truth.writes
      PROVE  i \in Writers(batch)
  BY <1>2, ListFacts DEF Writers, overwrote
<1>3. CASE Writers(batch) = {}
  <2>1. site = None
    BY <1>3 DEF batch_entry
  <2>2. QED
    BY <1>2, <1>3, <2>1, AfterIsLeft
<1>4. CASE Writers(batch) # {}
  <2> DEFINE m == Min(Writers(batch))
  <2>1. site = Before(batch, m)
    BY <1>4 DEF batch_entry
  <2>2. m \in Writers(batch) /\ \A i \in Writers(batch) : m <= i
    <3>1. Writers(batch) \subseteq Nat
      BY <1>1 DEF Writers
    <3>2. QED
      BY <1>4, <3>1, MinIsFirst
  <2> HIDE DEF m
  <2>3. m \in DOMAIN batch /\ m \in 1..Len(batch) /\ batch[m].proof.seen
    BY <1>1, <2>2 DEF Writers, overwrote
  <2>4. site.list = m /\ site.state = batch[m].proof.first /\ None.list = 0
    BY <2>1 DEF Before, None
  <2>5. site # None
    BY <2>3, <2>4
  <2>6. StateAt(m) # "COMMON" =>
           /\ site.state = StateAt(m)
           /\ batch[m].proof.entryClean => ~batch[m].truth.sampled
    BY <2>3, <2>4, ListFacts
  <2>7. ASSUME NEW i \in 1..(m - 1), batch[i].truth.writes
        PROVE  FALSE
    <3>1. i \in DOMAIN batch /\ ~(m <= i)
      BY <1>1, <2>3
    <3>2. i \notin Writers(batch)
      BY <2>2, <3>1
    <3>3. QED
      BY <1>2, <2>7, <3>1, <3>2
  <2>8. QED
    BY <2>4, <2>5, <2>6, <2>7, AfterIsLeft
<1>5. QED
  BY <1>3, <1>4

LEMMA SettledHolds == IInv => SettledIsActual
<1> DEFINE plan == drain(registry)
           site == IF plan.stale THEN None ELSE carried_overlay(batch, plan.settled)
<1> SUFFICES ASSUME IInv
             PROVE  /\ ~missed /\ ~plan.stale /\ plan.settled # Unknown
                         => plan.settled = Left
                    /\ site # None => \A i \in DOMAIN batch : ~batch[i].truth.writes
  BY DEF SettledIsActual
<1>1. ~missed /\ ~plan.stale /\ plan.settled # Unknown => plan.settled = Left
  BY DEF IInv, Remembered
<1>2. ASSUME site # None, NEW i \in DOMAIN batch, batch[i].truth.writes
      PROVE  FALSE
  <2>1. batch_allows(batch) /\ Mentioning(batch) = {}
    BY <1>2 DEF carried_overlay
  <2>2. ~batch[i].proof.seen
    BY <2>1 DEF Mentioning, mentions
  <2>3. QED
    BY <1>2, <2>1, <2>2, ListFacts
<1>3. QED
  BY <1>1, <1>2

(***************************************************************************)
(* The theorems.                                                           *)
(***************************************************************************)

\* Every recording, call and registry has the types the source gives it; the ring
\* never holds more rows than it has slots.
THEOREM TypeCorrect == Spec => []TypeOK
<1>1. IInv => TypeOK
  BY DEF IInv
<1>2. QED
  BY <1>1, Invariance, PTL

\* batch_overlay(): a copy at its site declares the state the display is in, and no
\* write but a hidden one follows it, promotions of COMMON by draws and dispatches
\* included, except in a list whose own write ends where nothing can be inserted.
THEOREM OverlaySafe == Spec => []OverlayOnTop
BY OverlayHolds, Invariance, PTL

\* batch_entry() and batch_after(): the copy that puts the panel's own picture back
\* lies under every write but a hidden one, declares the state the display is in, and
\* a clean entry's list has not sampled it before; the call leaves the display where
\* it is taken to leave it.  A display that was found in, or left in, COMMON is
\* excepted where the property says so.
THEOREM EntrySafe == Spec => []EntryUnderWrites
BY EntryHolds, Invariance, PTL

\* settled_state: whatever rows had to wait in the ring, a plan takes the display for
\* what the last closed list left, or does not know it.
THEOREM SettledSafe == Spec => []SettledIsActual
BY SettledHolds, Invariance, PTL
=============================================================================

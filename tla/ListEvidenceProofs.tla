-------------------------- MODULE ListEvidenceProofs --------------------------
(***************************************************************************)
(* For any lists, ring size and number of renewals: the types; that a list  *)
(* with the clean mark has nothing to retire, which is why a Reset may take *)
(* no lock; that a batch forwarded as unrelated has no effects unless an    *)
(* entry of its list was lost or overtaken; and that a recording ordered    *)
(* with its evidence is ordered with exactly what it recorded.              *)
(***************************************************************************)
EXTENDS ListEvidence, SequenceTheorems, TLAPS

(***************************************************************************)
(* Types.  An address is used again at most once per renewal.               *)
(***************************************************************************)

Bounded == \A l \in Lists : native[l].object <= renewals + 1

\* Only an entry still in the ring is committed.
Holding == holder.stage = "applied" => ~Empty

Typed == TypeOK /\ Bounded /\ Holding

Rings == {q \in Seq(Entry) : Len(q) <= RingSize}

LEMMA ItemTypes ==
  ASSUME NEW object \in Objects, NEW unobserved \in BOOLEAN
  PROVE  Registered(object, unobserved) \in Item
BY DEF Registered, Item

LEMMA UnregisteredType == Unregistered \in Item
<1>1. 0 \in Objects
  BY ListAssumption DEF Objects
<1>2. Registered(0, FALSE) \in Item
  BY <1>1, ItemTypes
<1>3. QED
  BY <1>2 DEF Unregistered, Item

LEMMA AgedTypes ==
  ASSUME item \in [Lists -> Item], ring \in Rings, NEW l \in Lists
  PROVE  /\ AgedItem(l) \in Item
         /\ Aged(l) \in Rings
         /\ DOMAIN Aged(l) = DOMAIN ring
         /\ Len(Aged(l)) = Len(ring)
<1>1. AgedItem(l) \in Item
  BY DEF AgedItem, Item
<1>2. ring \in [1..Len(ring) -> Entry] /\ Len(ring) \in Nat /\ DOMAIN ring = 1..Len(ring)
  BY LenProperties DEF Rings
<1>3. Aged(l) \in [1..Len(ring) -> Entry]
  BY <1>2 DEF Aged, Entry
<1>4. Aged(l) \in Seq(Entry) /\ Len(Aged(l)) = Len(ring)
  BY <1>2, <1>3
<1>5. QED
  BY <1>1, <1>2, <1>3, <1>4 DEF Rings

LEMMA PushTypes ==
  ASSUME TypeOK, NEW l \in Lists, NEW kind \in Kinds, push(l, kind)
  PROVE  /\ ring' \in Rings /\ lost' \in BOOLEAN
         /\ past' \in [Lists -> Fates]
         /\ holder' \in [stage : HolderStages, late : SUBSET Lists]
<1>1. CASE ~Full
  <2> DEFINE e == [list |-> l, kind |-> kind, object |-> native[l].object,
                   now |-> TRUE, ready |-> FALSE]
  <2>1. e \in Entry
    BY DEF TypeOK, Entry, Native
  <2>2. ring' = Append(ring, e) /\ UNCHANGED <<lost, past, holder>>
    BY <1>1 DEF push
  <2>3. Len(ring) < RingSize /\ Len(ring) \in Nat /\ RingSize \in Nat
    BY <1>1, ListAssumption, LenProperties DEF Full, TypeOK
  <2>4. ring' \in Seq(Entry) /\ Len(ring') = Len(ring) + 1
    BY <2>1, <2>2, AppendProperties DEF TypeOK
  <2>5. QED
    BY <2>2, <2>3, <2>4 DEF TypeOK, Rings
<1>2. CASE Full
  BY <1>2 DEF push, TypeOK, Rings, Fates
<1>3. QED
  BY <1>1, <1>2

LEMMA QuietTypes ==
  ASSUME Typed, Quiet
  PROVE  seen' \in [Lists -> Verdict] /\ renewals' \in 0..MaxRenewals /\ renewals' = renewals
BY DEF Typed, TypeOK, Quiet, Unasked, Verdict

LEMMA HolderTyped == ASSUME Typed, HolderStep \/ Publish PROVE Typed'
<1> USE QuietTypes DEF Typed
<1> Nobody \in [stage : HolderStages, late : SUBSET Lists] /\ Nobody.stage # "applied"
  BY DEF Nobody, HolderStages
<1>1. CASE Acquire
  BY <1>1 DEF Acquire, Goes, ForgetAll, HolderStages, TypeOK, Bounded, Holding
<1>2. CASE TakeOverflow
  BY <1>2 DEF TakeOverflow, Goes, HolderStages, TypeOK, Bounded, Holding
<1>3. CASE InvalidateAll
  <2>1. Invalidated \in [Lists -> Item]
    BY ZenonT(30) DEF Invalidated, TypeOK, Item
  <2>2. QED
    BY <1>3, <2>1 DEF InvalidateAll, Goes, HolderStages, TypeOK, Bounded, Holding
<1>4. CASE Apply
  <2> DEFINE e == Head(ring)
  <2>1. e \in Entry /\ ~Empty
    BY <1>4, HeadTailProperties DEF Apply, HeadReady, Empty, TypeOK
  <2>2. item' \in [Lists -> Item] /\ clean' \in [Lists -> BOOLEAN]
    <3>1. CASE ForThisObject(e)
      <4> DEFINE it == item[e.list]
      <4>1. it \in Item /\ e.list \in Lists
        BY <2>1 DEF TypeOK, Entry
      <4>2. retire_native_list(it) \in Item
        BY <4>1, ItemTypes DEF retire_native_list, Item
      <4>3. [it EXCEPT !.evidence = it.evidence \cup {IF e.now THEN "now" ELSE "before"}] \in Item
        BY <4>1 DEF Item
      <4>4. e.kind = "reset" \/ e.kind = "destroy" \/ e.kind = "evidence"
        BY <2>1 DEF Entry, Kinds
      <4>5. clean' \in [Lists -> BOOLEAN]
        BY <1>4, <3>1 DEF Apply, TypeOK
      <4>6. CASE e.kind = "reset"
        <5>1. item' = [item EXCEPT ![e.list] = retire_native_list(it)]
          BY <1>4, <3>1, <4>6 DEF Apply
        <5>2. QED
          BY <4>1, <4>2, <4>5, <5>1 DEF TypeOK
      <4>7. CASE e.kind = "destroy"
        <5>1. item' = [item EXCEPT ![e.list] = Unregistered]
          BY <1>4, <3>1, <4>7 DEF Apply
        <5>2. QED
          BY <4>1, UnregisteredType, <4>5, <5>1 DEF TypeOK
      <4>8. CASE e.kind = "evidence"
        <5>1. item' = [item EXCEPT ![e.list] = [item[e.list] EXCEPT !.evidence =
                          item[e.list].evidence \cup {IF e.now THEN "now" ELSE "before"}]]
          BY <1>4, <3>1, <4>8 DEF Apply
        <5>2. QED
          BY <4>1, <4>3, <4>5, <5>1 DEF TypeOK
      <4>9. QED
        BY <4>4, <4>6, <4>7, <4>8
    <3>2. CASE ~ForThisObject(e)
      BY <1>4, <3>2 DEF Apply, TypeOK
    <3>3. QED
      BY <3>1, <3>2
  <2>3. holder' \in [stage : HolderStages, late : SUBSET Lists]
        /\ Quiet /\ UNCHANGED <<native, ring, lost, past>>
    BY <1>4 DEF Apply, Goes, HolderStages, TypeOK
  <2>4. QED
    BY <2>1, <2>2, <2>3 DEF TypeOK, Bounded, Holding, Empty
<1>5. CASE Commit
  <2>1. ring' \in Seq(Entry) /\ Len(ring') <= RingSize
    <3>1. ring # << >> /\ ring \in Seq(Entry) /\ Len(ring) <= RingSize
      BY <1>5 DEF Commit, Holding, Empty, TypeOK
    <3>2. Tail(ring) \in Seq(Entry) /\ Len(Tail(ring)) = Len(ring) - 1
      BY <3>1, HeadTailProperties
    <3>3. Len(ring) \in Nat /\ RingSize \in Nat
      BY <3>1, ListAssumption, LenProperties
    <3>4. QED
      BY <1>5, <3>1, <3>2, <3>3 DEF Commit
  <2>2. QED
    BY <1>5, <2>1 DEF Commit, Goes, HolderStages, TypeOK, Bounded, Holding
<1>6. CASE Release
  BY <1>6 DEF Release, TypeOK, Bounded, Holding
<1>7. CASE Publish
  <2>1. PICK i \in DOMAIN ring : ring' = [ring EXCEPT ![i].ready = TRUE]
    BY <1>7 DEF Publish
  <2>2. i \in 1..Len(ring) /\ ring[i] \in Entry /\ Len(ring) \in Nat
    BY LenProperties, ElementOfSeq DEF TypeOK
  <2>3. [ring[i] EXCEPT !.ready = TRUE] \in Entry
    BY <2>2 DEF Entry
  <2>4. ring' = [ring EXCEPT ![i] = [ring[i] EXCEPT !.ready = TRUE]]
    BY <2>1
  <2>5. ring' \in Seq(Entry) /\ Len(ring') = Len(ring)
    BY <2>2, <2>3, <2>4, ExceptSeq DEF TypeOK
  <2>6. ring' # << >>
    BY <2>2, <2>5, EmptySeq
  <2>7. QED
    BY <1>7, <2>5, <2>6 DEF Publish, TypeOK, Bounded, Holding, Empty
<1>8. QED
  BY <1>1, <1>2, <1>3, <1>4, <1>5, <1>6, <1>7 DEF HolderStep

LEMMA PushHolds ==
  ASSUME Typed, NEW l \in Lists, NEW kind \in Kinds, push(l, kind) PROVE Holding'
<1>1. CASE ~Full
  <2>1. ring' # << >> /\ UNCHANGED holder
    BY <1>1, AppendProperties, EmptySeq DEF push
  <2>2. QED
    BY <2>1 DEF Holding, Empty
<1>2. CASE Full
  BY <1>2 DEF push, Typed, TypeOK, Holding, Empty
<1>3. QED
  BY <1>1, <1>2

LEMMA AgedHolds ==
  ASSUME Typed, NEW l \in Lists, ring' = Aged(l), holder' = holder \/ holder' = Nobody
  PROVE  Holding'
<1>1. Aged(l) \in Seq(Entry) /\ Len(Aged(l)) = Len(ring) /\ ring \in Seq(Entry)
  BY AgedTypes DEF Typed, TypeOK, Rings
<1>2. ring # << >> => Aged(l) # << >>
  BY <1>1, EmptySeq
<1>3. Nobody.stage # "applied"
  BY DEF Nobody
<1>4. QED
  BY <1>2, <1>3 DEF Typed, Holding, Empty

LEMMA ListTyped == ASSUME Typed, NEW l \in Lists, ListStep(l) PROVE Typed'
<1> USE QuietTypes DEF Typed
<1> Nobody \in [stage : HolderStages, late : SUBSET Lists] /\ Nobody.stage # "applied"
  BY DEF Nobody, HolderStages
<1> native[l] \in Native /\ item[l] \in Item /\ native[l].object \in Objects
  BY DEF TypeOK, Native
<1>a. \A S \in SUBSET Lists : Overtake(S) \in [Lists -> Fates]
  BY DEF Overtake, TypeOK, Fates
<1>b. \A at \in Stages : Stage(l, at) /\ Quiet => native' \in [Lists -> Native] /\ Bounded'
  <2> SUFFICES ASSUME NEW at \in Stages, Stage(l, at), Quiet
               PROVE  native' \in [Lists -> Native] /\ Bounded'
    OBVIOUS
  <2>1. native' \in [Lists -> Native]
    BY DEF Stage, TypeOK, Native
  <2>2. \A k \in Lists : native'[k].object = native[k].object
    BY DEF Stage, TypeOK, Native
  <2>3. QED
    BY <2>1, <2>2 DEF Bounded
<1>1. ASSUME NEW registered \in BOOLEAN, Create(l, registered) PROVE Typed'
  <2>1. native[l].object + 1 \in Objects /\ renewals' \in 0..MaxRenewals
        /\ native[l].object <= renewals' /\ renewals <= renewals'
    BY <1>1, ListAssumption DEF Create, Bounded, TypeOK, Objects
  <2>2. native' \in [Lists -> Native]
    BY <1>1, <2>1 DEF Create, TypeOK, Native, Stages
  <2>3. Bounded'
    BY <1>1, <2>1, ListAssumption DEF Create, Bounded, TypeOK, Objects, Native
  <2>4. ring' \in Rings /\ AgedItem(l) \in Item /\ Holding'
    BY <1>1, AgedTypes, AgedHolds DEF Create, TypeOK, Rings
  <2>5. Registered(native[l].object + 1, FALSE) \in Item
    BY <2>1, ItemTypes
  <2>6. seen' \in [Lists -> Verdict]
    BY <1>1 DEF Create, Unasked, Verdict
  <2>7. item' \in [Lists -> Item] /\ clean' \in [Lists -> BOOLEAN]
        /\ past' \in [Lists -> Fates]
        /\ holder' \in [stage : HolderStages, late : SUBSET Lists]
    <3>1. CASE registered
      <4>1. /\ item' = [item EXCEPT ![l] = Registered(native[l].object + 1, FALSE)]
            /\ clean' = [clean EXCEPT ![l] = FALSE] /\ holder' = Nobody
            /\ past' = [past EXCEPT ![l] = "exact"]
        BY <1>1, <3>1 DEF Create
      <4>2. QED
        BY <2>5, <4>1 DEF TypeOK, Fates
    <3>2. CASE ~registered
      <4>1. item' = [item EXCEPT ![l] = AgedItem(l)] /\ UNCHANGED <<clean, holder, past>>
        BY <1>1, <3>2 DEF Create
      <4>2. QED
        BY <2>4, <4>1 DEF TypeOK
    <3>3. QED
      BY <3>1, <3>2
  <2>8. QED
    BY <1>1, <2>1, <2>2, <2>3, <2>4, <2>6, <2>7 DEF Create, TypeOK, Rings
<1>2. CASE RecordLocked(l)
  <2>1. [item[l] EXCEPT !.evidence = @ \cup {"now"}] \in Item
    BY DEF Item
  <2>2. item' \in [Lists -> Item] /\ clean' \in [Lists -> BOOLEAN]
    <3>1. CASE item[l].object = native[l].object
      <4>1. item' = [item EXCEPT ![l] = [item[l] EXCEPT !.evidence = @ \cup {"now"}]]
            /\ clean' = [clean EXCEPT ![l] = FALSE]
        BY <1>2, <3>1 DEF RecordLocked
      <4>2. QED
        BY <2>1, <4>1 DEF TypeOK
    <3>2. CASE item[l].object # native[l].object
      BY <1>2, <3>2 DEF RecordLocked, TypeOK
    <3>3. QED
      BY <3>1, <3>2
  <2>3. native' \in [Lists -> Native] /\ Bounded'
    BY <1>2 DEF RecordLocked, TypeOK, Native, Bounded
  <2>4. QED
    BY <1>2, <1>a, <2>2, <2>3 DEF RecordLocked, TypeOK, Holding
<1>3. CASE RecordDeferred(l)
  <2>1. push(l, "evidence")
    BY <1>3 DEF RecordDeferred
  <2>2. ring' \in Rings /\ lost' \in BOOLEAN /\ past' \in [Lists -> Fates] /\ Holding'
        /\ holder' \in [stage : HolderStages, late : SUBSET Lists]
    BY <2>1, PushTypes, PushHolds DEF Kinds
  <2>3. native' \in [Lists -> Native] /\ Bounded'
    BY <1>3 DEF RecordDeferred, TypeOK, Native, Bounded
  <2>4. QED
    BY <1>3, <2>2, <2>3 DEF RecordDeferred, TypeOK, Rings
<1>4. CASE Close(l) \/ ResetSeesIdle(l) \/ ResetFast(l)
  <2>1. native' \in [Lists -> Native] /\ Bounded'
    BY <1>4, <1>b DEF Close, ResetSeesIdle, ResetFast, Stages
  <2>2. QED
    BY <1>4, <2>1 DEF Close, ResetSeesIdle, ResetFast, TypeOK, Holding, Empty
<1>5. CASE NativeReset(l)
  <2>1. native' \in [Lists -> Native]
    BY <1>5 DEF NativeReset, TypeOK, Native, Stages
  <2>4. Bounded'
    BY <1>5 DEF NativeReset, TypeOK, Native, Bounded, Quiet
  <2>2. ring' \in Rings /\ AgedItem(l) \in Item /\ Holding'
    BY <1>5, AgedTypes, AgedHolds DEF NativeReset, TypeOK, Rings
  <2>3. QED
    BY <1>5, <2>1, <2>2, <2>4 DEF NativeReset, TypeOK, Rings
<1>6. CASE ResetLocked(l)
  <2>1. native' \in [Lists -> Native] /\ Bounded'
    BY <1>6, <1>b DEF ResetLocked, Stages
  <2>2. retire_native_list(item[l]) \in Item
    BY ItemTypes DEF retire_native_list, Item
  <2>5. Overtake({l}) \in [Lists -> Fates] /\ [past EXCEPT ![l] = "exact"] \in [Lists -> Fates]
    BY <1>a DEF TypeOK, Fates
  <2>3. item' \in [Lists -> Item] /\ clean' \in [Lists -> BOOLEAN] /\ past' \in [Lists -> Fates]
    <3>1. CASE item[l].object = native[l].object
      <4>1. item' = [item EXCEPT ![l] = retire_native_list(item[l])]
            /\ clean' = [clean EXCEPT ![l] = TRUE]
            /\ past' \in {Overtake({l}), [past EXCEPT ![l] = "exact"]}
        BY <1>6, <3>1 DEF ResetLocked
      <4>2. QED
        BY <2>2, <2>5, <4>1 DEF TypeOK
    <3>2. CASE item[l].object # native[l].object
      BY <1>6, <3>2 DEF ResetLocked, TypeOK
    <3>3. QED
      BY <3>1, <3>2
  <2>4. QED
    BY <1>6, <2>1, <2>3 DEF ResetLocked, TypeOK, Holding
<1>7. CASE ResetDeferred(l)
  <2>1. native' \in [Lists -> Native] /\ Bounded'
    BY <1>7, <1>b DEF ResetDeferred, Stages
  <2>2. ring' \in Rings /\ lost' \in BOOLEAN /\ past' \in [Lists -> Fates] /\ Holding'
        /\ holder' \in [stage : HolderStages, late : SUBSET Lists]
    BY <1>7, PushTypes, PushHolds DEF ResetDeferred, Kinds
  <2>3. QED
    BY <1>7, <2>1, <2>2 DEF ResetDeferred, TypeOK, Rings
<1>8. CASE DestroyLocked(l)
  <2>1. native' \in [Lists -> Native] /\ Bounded'
    BY <1>8, <1>b DEF DestroyLocked, Stages
  <2>2. item' \in [Lists -> Item] /\ clean' \in [Lists -> BOOLEAN]
    BY <1>8, UnregisteredType DEF DestroyLocked, TypeOK
  <2>3. QED
    BY <1>8, <2>1, <2>2 DEF DestroyLocked, TypeOK, Holding
<1>9. CASE DestroyDeferred(l)
  <2>1. native' \in [Lists -> Native] /\ Bounded'
    BY <1>9, <1>b DEF DestroyDeferred, Stages
  <2>2. ring' \in Rings /\ lost' \in BOOLEAN /\ past' \in [Lists -> Fates] /\ Holding'
        /\ holder' \in [stage : HolderStages, late : SUBSET Lists]
    BY <1>9, PushTypes, PushHolds DEF DestroyDeferred, Kinds
  <2>3. QED
    BY <1>9, <2>1, <2>2 DEF DestroyDeferred, TypeOK, Rings
<1>10. CASE RegisterUnobserved(l)
  <2>1. Registered(native[l].object, TRUE) \in Item
    BY ItemTypes
  <2>2. QED
    BY <1>10, <1>a, <2>1 DEF RegisterUnobserved, TypeOK, Bounded, Holding
<1>11. QED
  BY <1>1, <1>2, <1>3, <1>4, <1>5, <1>6, <1>7, <1>8, <1>9, <1>10 DEF ListStep

LEMMA SubmissionTyped ==
  ASSUME Typed, NEW B \in SUBSET Lists, BypassUnlocked(B) \/ Admit(B) PROVE Typed'
<1> USE DEF Typed
<1>1. Bypassed(B) \in [Lists -> Verdict]
  BY DEF Bypassed, Verdict
<1>2. Applied(B) \in [Lists -> Verdict]
  <2> SUFFICES ASSUME NEW l \in Lists PROVE Applied(B)[l] \in Verdict
    BY DEF Applied
  <2>1. item[l].evidence \in SUBSET {"now", "before"}
    BY DEF TypeOK, Item
  <2>2. CASE l \notin B
    BY <2>2 DEF Applied, Unasked, Verdict
  <2>3. CASE l \in B
    <3> DEFINE wiped == \E k \in B : Stale(k)
    <3> HIDE DEF wiped
    <3>0. Applied(B)[l] =
            [how |-> CASE wiped -> "wiped"
                       [] ~wiped /\ item[l].evidence = {} -> "clear"
                       [] ~wiped /\ item[l].evidence # {} ->
                             IF item[l].invalid THEN "wiped" ELSE "applied",
             as |-> item[l].evidence]
      BY <2>3 DEF Applied, wiped
    <3>1. CASE wiped
      BY <2>1, <3>0, <3>1 DEF Verdict
    <3>2. CASE ~wiped /\ item[l].evidence = {}
      BY <2>1, <3>0, <3>2 DEF Verdict
    <3>3. CASE ~wiped /\ item[l].evidence # {}
      BY <2>1, <3>0, <3>3 DEF Verdict
    <3>4. QED
      BY <3>1, <3>2, <3>3
  <2>4. QED
    BY <2>2, <2>3
<1>3. Overtake(B) \in [Lists -> Fates]
  BY DEF Overtake, TypeOK, Fates
<1>4. Nobody \in [stage : HolderStages, late : SUBSET Lists] /\ Nobody.stage # "applied"
  BY DEF Nobody, HolderStages
<1>5. CASE BypassUnlocked(B)
  BY <1>1, <1>5 DEF BypassUnlocked, TypeOK, Bounded, Holding, Empty
<1>6. CASE Admit(B)
  BY <1>1, <1>2, <1>3, <1>4, <1>6 DEF Admit, TypeOK, Bounded, Holding
<1>7. QED
  BY <1>5, <1>6

LEMMA ResetTyped == ASSUME Typed, reset_session PROVE Typed'
<1> USE DEF Typed
<1>1. item' \in [Lists -> Item] /\ clean' \in [Lists -> BOOLEAN]
  BY ZenonT(30) DEF reset_session, ForgetAll, TypeOK, Item
<1>2. renewals' \in 0..MaxRenewals /\ renewals' = renewals + 1 /\ seen' \in [Lists -> Verdict]
  BY ListAssumption DEF reset_session, TypeOK, Unasked, Verdict
<1>3. Bounded'
  BY <1>2, ListAssumption DEF reset_session, Bounded, TypeOK, Native, Objects
<1>4. QED
  BY <1>1, <1>2, <1>3 DEF reset_session, TypeOK, Holding, Empty

LEMMA InitTyped == Init => Typed
<1> SUFFICES ASSUME Init PROVE Typed
  OBVIOUS
<1>1. 0 \in Objects
  BY ListAssumption DEF Objects
<1>2. << >> \in Seq(Entry) /\ Len(<< >>) = 0
  BY EmptySeq
<1>3. native \in [Lists -> Native] /\ item \in [Lists -> Item] /\ Bounded
  BY <1>1, UnregisteredType, ListAssumption DEF Init, Native, Stages, Bounded
<1>4. holder \in [stage : HolderStages, late : SUBSET Lists] /\ holder.stage # "applied"
  BY DEF Init, Nobody, HolderStages
<1>5. seen \in [Lists -> Verdict] /\ past \in [Lists -> Fates]
  BY DEF Init, Unasked, Verdict, Fates
<1>6. Len(ring) <= RingSize /\ ring \in Seq(Entry)
  BY <1>2, ListAssumption DEF Init
<1>7. renewals \in 0..MaxRenewals
  BY ListAssumption DEF Init
<1>9. clean \in [Lists -> BOOLEAN] /\ lost \in BOOLEAN
  BY DEF Init
<1>8. QED
  BY <1>3, <1>4, <1>5, <1>6, <1>7, <1>9 DEF Typed, TypeOK, Holding

LEMMA StepTyped == ASSUME Typed, [Next]_vars PROVE Typed'
<1>1. CASE UNCHANGED vars
  BY <1>1 DEF vars, Typed, TypeOK, Bounded, Holding, Empty
<1>2. QED
  BY <1>1, HolderTyped, ListTyped, SubmissionTyped, ResetTyped DEF Next

\* For any lists and ring: no field leaves its type, and the ring never holds more
\* than its slots (DeferredRing::push).
THEOREM TypeCorrect == Spec => []TypeOK
<1>1. Spec => []Typed
  BY InitTyped, StepTyped, PTL DEF Spec
<1>2. Typed => TypeOK
  BY DEF Typed
<1>3. QED
  BY <1>1, <1>2, PTL

(***************************************************************************)
(* Clean marks.  While an overflow is being taken no list has one, so that  *)
(* the invalidation which follows contradicts none.                         *)
(***************************************************************************)

Forgotten == holder.stage \in {"overflow", "taken"} => clean = ForgetAll

Marks == CleanIsClean /\ Forgotten

LEMMA AgedClean ==
  ASSUME NEW l \in Lists, item[l] = Registered(item[l].object, FALSE)
  PROVE  AgedItem(l) = item[l]
BY DEF AgedItem, Registered

LEMMA ForgetClean == ASSUME clean' = ForgetAll PROVE Marks'
BY DEF Marks, CleanIsClean, Forgotten, ForgetAll

\* No mark is set, and none survives work on its list.
LEMMA KeptClean ==
  ASSUME Typed, Marks, Forgotten',
         \A l \in Lists : clean'[l] => clean[l] /\ item'[l] = item[l]
  PROVE  Marks'
BY DEF Marks, CleanIsClean

LEMMA HolderMarks == ASSUME Typed, Marks, HolderStep \/ Publish PROVE Marks'
<1> USE DEF Marks
<1>0. Nobody.stage = "free" /\ holder \in [stage : HolderStages, late : SUBSET Lists]
  BY DEF Nobody, Typed, TypeOK
<1>1. CASE Acquire
  BY <1>0, <1>1, ForgetClean DEF Acquire, Goes, CleanIsClean, Forgotten
<1>2. CASE TakeOverflow
  BY <1>0, <1>2 DEF TakeOverflow, Goes, CleanIsClean, Forgotten, ForgetAll
<1>3. CASE InvalidateAll
  BY <1>0, <1>3, ForgetClean DEF InvalidateAll, Forgotten
<1>4. CASE Apply
  <2> DEFINE e == Head(ring)
  <2>1. e \in Entry
    BY <1>4, HeadTailProperties DEF Apply, HeadReady, Empty, Typed, TypeOK
  <2>2. Forgotten'
    BY <1>0, <1>4 DEF Apply, Goes, Forgotten
  <2>3. CASE ForThisObject(e)
    <3>1. e.list \in Lists /\ (e.kind = "reset" \/ e.kind = "destroy" \/ e.kind = "evidence")
      BY <2>1 DEF Entry, Kinds
    <3>2. clean' = [clean EXCEPT ![e.list] = e.kind = "reset"]
      BY <1>4, <2>3 DEF Apply
    <3>3. \A l \in Lists \ {e.list} : item'[l] = item[l] /\ clean'[l] = clean[l]
      BY <1>4, <2>3, <3>2 DEF Apply, Typed, TypeOK
    <3>4. e.kind = "reset" => item'[e.list] = Registered(item[e.list].object, FALSE)
      <4> SUFFICES ASSUME e.kind = "reset"
                   PROVE  item'[e.list] = Registered(item[e.list].object, FALSE)
        OBVIOUS
      <4>1. item' = [item EXCEPT ![e.list] = retire_native_list(item[e.list])]
        BY <1>4, <2>3 DEF Apply
      <4>2. QED
        BY <3>1, <4>1 DEF retire_native_list, Typed, TypeOK
    <3>5. clean'[e.list] <=> e.kind = "reset"
      BY <3>1, <3>2 DEF Typed, TypeOK
    <3>6. Registered(item[e.list].object, FALSE).object = item[e.list].object
      BY DEF Registered
    <3>7. QED
      BY <2>2, <3>3, <3>4, <3>5, <3>6 DEF CleanIsClean
  <2>4. CASE ~ForThisObject(e)
    BY <1>4, <2>2, <2>4 DEF Apply, CleanIsClean
  <2>5. QED
    BY <2>3, <2>4
<1>5. CASE Commit \/ Release
  BY <1>0, <1>5 DEF Commit, Release, Goes, CleanIsClean, Forgotten
<1>6. CASE Publish
  BY <1>6 DEF Publish, CleanIsClean, Forgotten, ForgetAll
<1>7. QED
  BY <1>1, <1>2, <1>3, <1>4, <1>5, <1>6 DEF HolderStep

LEMMA PushMarks ==
  ASSUME Typed, Marks, NEW l, NEW kind, push(l, kind), UNCHANGED <<item, clean>> PROVE Marks'
<1>1. holder'.stage = holder.stage
  BY DEF push, Typed, TypeOK
<1>2. QED
  BY <1>1 DEF Marks, CleanIsClean, Forgotten, ForgetAll

LEMMA ListMarks == ASSUME Typed, Marks, NEW l \in Lists, ListStep(l) PROVE Marks'
<1>0. Nobody.stage = "free"
  BY DEF Nobody
<1>1. ASSUME NEW registered \in BOOLEAN, Create(l, registered) PROVE Marks'
  <2>1. CASE registered
    <3>1. clean' = [clean EXCEPT ![l] = FALSE] /\ holder' = Nobody
          /\ \A k \in Lists \ {l} : item'[k] = item[k]
      BY <1>1, <2>1 DEF Create, Typed, TypeOK
    <3>2. QED
      BY <1>0, <3>1, KeptClean DEF Typed, TypeOK, Forgotten
  <2>2. CASE ~registered
    <3>1. item' = [item EXCEPT ![l] = AgedItem(l)] /\ UNCHANGED <<clean, holder>>
      BY <1>1, <2>2 DEF Create
    <3>2. clean[l] => AgedItem(l) = item[l]
      BY AgedClean DEF Marks, CleanIsClean
    <3>3. QED
      BY <3>1, <3>2, KeptClean DEF Marks, Typed, TypeOK, Forgotten, ForgetAll
  <2>3. QED
    BY <2>1, <2>2
<1>2. CASE RecordLocked(l)
  <2>1. holder' = Nobody /\ \A k \in Lists \ {l} : item'[k] = item[k] /\ clean'[k] = clean[k]
    BY <1>2 DEF RecordLocked, Typed, TypeOK
  <2>2. clean'[l] => clean[l] /\ item'[l] = item[l]
    BY <1>2 DEF RecordLocked, Typed, TypeOK
  <2>3. QED
    BY <1>0, <2>1, <2>2, KeptClean DEF Forgotten
<1>3. CASE RecordDeferred(l) \/ ResetDeferred(l) \/ DestroyDeferred(l)
  BY <1>3, PushMarks DEF RecordDeferred, ResetDeferred, DestroyDeferred
<1>4. CASE Close(l) \/ ResetSeesIdle(l) \/ ResetFast(l)
  BY <1>4 DEF Close, ResetSeesIdle, ResetFast, Marks, CleanIsClean, Forgotten, ForgetAll
<1>5. CASE NativeReset(l)
  <2>1. item' = [item EXCEPT ![l] = AgedItem(l)] /\ UNCHANGED <<clean, holder>>
    BY <1>5 DEF NativeReset
  <2>2. clean[l] => AgedItem(l) = item[l]
    BY AgedClean DEF Marks, CleanIsClean
  <2>3. QED
    BY <2>1, <2>2, KeptClean DEF Marks, Typed, TypeOK, Forgotten, ForgetAll
<1>6. CASE ResetLocked(l)
  <2>1. holder' = Nobody /\ \A k \in Lists \ {l} : item'[k] = item[k] /\ clean'[k] = clean[k]
    BY <1>6 DEF ResetLocked, Typed, TypeOK
  <2>2. CASE item[l].object = native[l].object
    <3>1. item'[l] = Registered(item[l].object, FALSE)
      BY <1>6, <2>2 DEF ResetLocked, retire_native_list, Typed, TypeOK
    <3>2. item'[l].object = item[l].object
      BY <3>1 DEF Registered
    <3>3. QED
      BY <1>0, <2>1, <3>1, <3>2 DEF Marks, CleanIsClean, Forgotten
  <2>3. CASE item[l].object # native[l].object
    BY <1>0, <1>6, <2>1, <2>3 DEF ResetLocked, Marks, CleanIsClean, Forgotten
  <2>4. QED
    BY <2>2, <2>3
<1>7. CASE DestroyLocked(l) \/ RegisterUnobserved(l)
  <2>1. holder' = Nobody /\ \A k \in Lists \ {l} : item'[k] = item[k] /\ clean'[k] = clean[k]
    BY <1>7 DEF DestroyLocked, RegisterUnobserved, Typed, TypeOK
  <2>2. clean'[l] => clean[l] /\ item'[l] = item[l]
    BY <1>7 DEF DestroyLocked, RegisterUnobserved, Typed, TypeOK
  <2>3. QED
    BY <1>0, <2>1, <2>2, KeptClean DEF Forgotten
<1>8. QED
  BY <1>1, <1>2, <1>3, <1>4, <1>5, <1>6, <1>7 DEF ListStep

LEMMA InitMarks == Init => Marks
BY DEF Init, Marks, CleanIsClean, Forgotten, Nobody

LEMMA StepMarks == ASSUME Typed, Marks, [Next]_vars PROVE Marks'
<1>1. CASE UNCHANGED vars
  BY <1>1 DEF vars, Marks, CleanIsClean, Forgotten, ForgetAll
<1>2. ASSUME NEW B \in SUBSET Lists, BypassUnlocked(B) \/ Admit(B) PROVE Marks'
  <2>1. Nobody.stage = "free"
    BY DEF Nobody
  <2>2. QED
    BY <1>2, <2>1 DEF BypassUnlocked, Admit, Marks, CleanIsClean, Forgotten, ForgetAll
<1>3. CASE reset_session
  BY <1>3, ForgetClean DEF reset_session
<1>4. QED
  BY <1>1, <1>2, <1>3, HolderMarks, ListMarks DEF Next

\* For any lists and ring: a list that carries the clean mark has nothing to retire,
\* whatever drain, overflow or session reset runs beside the Reset that reads the
\* mark without the mutex (SceneCaptureManager::successful_reset).
THEOREM MarkedMeansClean == Spec => []CleanIsClean
<1>1. Typed /\ Marks /\ [Next]_vars => (Typed /\ Marks)'
  BY StepTyped, StepMarks
<1>2. Init => Typed /\ Marks
  BY InitTyped, InitMarks
<1>3. Typed /\ Marks => CleanIsClean
  BY DEF Marks
<1>4. QED
  BY <1>1, <1>2, <1>3, PTL DEF Spec

(***************************************************************************)
(* Bypasses.  As long as no entry of a list was lost or overtaken, what its *)
(* recording reported is in its item, or waits in the ring behind every     *)
(* Reset and destruction of the list; or the item is unknown.               *)
(***************************************************************************)

\* Entries of the list that are still to be applied.
Pending(l) ==
    {i \in DOMAIN ring : ring[i].list = l /\ (i > 1 \/ holder.stage # "applied")}

Exact(l) == past[l] = "exact"

\* The item is of the list's object, or its destruction is pending.
Owning(l) == Exact(l) =>
    \/ item[l].object = 0
    \/ item[l].object = native[l].object /\ native[l].at # "none"
    \/ \E i \in Pending(l) : ring[i].kind = "destroy" /\ ring[i].object = item[l].object

OnlyEvidence(l, n) == \A i \in Pending(l) : i > n => ring[i].kind = "evidence"

Waiting(l) == \E n \in Pending(l) :
    /\ ring[n].kind = "evidence" /\ ring[n].now /\ ring[n].object = native[l].object
    /\ OnlyEvidence(l, n)

Known(l) == ("now" \in item[l].evidence \/ item[l].unobserved) /\ OnlyEvidence(l, 0)

Covering(l) ==
    Exact(l) /\ native[l].at \in {"recording", "closed"} /\ native[l].effects =>
        Waiting(l) \/ Known(l) \/ item[l].object = 0

Renewed(l) == native[l].at \in {"reset", "idle"} => ~native[l].effects

Reported(l) == Owning(l) /\ Covering(l) /\ Renewed(l)

LEMMA RingTypes ==
  ASSUME Typed
  PROVE  /\ Len(ring) \in Nat /\ DOMAIN ring = 1..Len(ring)
         /\ \A i \in DOMAIN ring : ring[i] \in Entry /\ ring[i].list \in Lists
<1>1. ring \in Seq(Entry)
  BY DEF Typed, TypeOK
<1>2. Len(ring) \in Nat /\ DOMAIN ring = 1..Len(ring) /\ ring \in [1..Len(ring) -> Entry]
  BY <1>1, LenProperties
<1>3. \A e \in Entry : e.list \in Lists
  BY DEF Entry
<1>4. QED
  BY <1>2, <1>3

\* The pending entries of a list move d places, and are the same.
Moved(l, d) ==
    /\ \A i \in Pending(l) : i - d \in Pending(l)'
    /\ \A i \in Pending(l)' :
          /\ i + d \in Pending(l)
          /\ ring'[i].kind = ring[i + d].kind /\ ring'[i].object = ring[i + d].object

Timely(l, d) == \A i \in Pending(l)' : ring'[i].now = ring[i + d].now

LEMMA OwningKept ==
  ASSUME Typed, NEW l \in Lists, NEW d \in {0, 1}, Moved(l, d), Owning(l),
         Exact(l)' => Exact(l), item'[l].object = item[l].object,
         item[l].object = native[l].object /\ native[l].at # "none" =>
            native'[l].object = native[l].object /\ native'[l].at # "none"
  PROVE  Owning(l)'
<1> SUFFICES ASSUME Exact(l)', item[l].object # 0,
                    ~(item[l].object = native[l].object /\ native[l].at # "none")
             PROVE  \E i \in Pending(l)' :
                        ring'[i].kind = "destroy" /\ ring'[i].object = item[l].object
  BY DEF Owning
<1>1. PICK i \in Pending(l) : ring[i].kind = "destroy" /\ ring[i].object = item[l].object
  BY DEF Owning
<1>2. i \in Int /\ i - d + d = i
  BY RingTypes DEF Pending
<1>3. i - d \in Pending(l)' /\ ring'[i - d].kind = ring[i].kind
      /\ ring'[i - d].object = ring[i].object
  BY <1>1, <1>2 DEF Moved
<1>4. QED
  BY <1>1, <1>3

LEMMA CoveringKept ==
  ASSUME Typed, Typed', NEW l \in Lists, NEW d \in {0, 1}, Moved(l, d), Timely(l, d), Covering(l),
         Exact(l)' => Exact(l), item'[l].object = item[l].object,
         "now" \in item[l].evidence => "now" \in item'[l].evidence,
         item[l].unobserved => item'[l].unobserved,
         native'[l].object = native[l].object, native'[l].effects => native[l].effects,
         native'[l].at \in {"recording", "closed"} => native[l].at \in {"recording", "closed"}
  PROVE  Covering(l)'
<1> SUFFICES ASSUME Exact(l)', native'[l].at \in {"recording", "closed"}, native'[l].effects
             PROVE  Waiting(l)' \/ Known(l)' \/ item'[l].object = 0
  BY DEF Covering
<1>1. Waiting(l) \/ Known(l) \/ item[l].object = 0
  BY DEF Covering
<1>2. \A i \in Pending(l) : i \in Int /\ i > 0
  BY RingTypes DEF Pending
<1>3. \A i \in Pending(l)' : i \in Int /\ i > 0
  <2>1. DOMAIN ring' = 1..Len(ring') /\ Len(ring') \in Nat
    BY LenProperties DEF Typed, TypeOK
  <2>2. QED
    BY <2>1 DEF Pending
<1>4. CASE Waiting(l)
  <2>1. PICK n \in Pending(l) : /\ ring[n].kind = "evidence" /\ ring[n].now
                                /\ ring[n].object = native[l].object
                                /\ OnlyEvidence(l, n)
    BY <1>4 DEF Waiting
  <2>2. n \in Int /\ (n - d) + d = n /\ n - d \in Pending(l)'
    BY <1>2 DEF Moved
  <2>3. ring'[n - d].kind = "evidence" /\ ring'[n - d].now
        /\ ring'[n - d].object = native'[l].object
    BY <2>1, <2>2 DEF Moved, Timely
  <2>4. ASSUME NEW i \in Pending(l)', i > n - d PROVE ring'[i].kind = "evidence"
    <3>1. i + d \in Pending(l) /\ i + d > n /\ ring'[i].kind = ring[i + d].kind
      BY <1>3, <2>2, <2>4 DEF Moved
    <3>2. QED
      BY <2>1, <3>1 DEF OnlyEvidence
  <2>5. OnlyEvidence(l, n - d)'
    BY <2>4 DEF OnlyEvidence
  <2>6. QED
    BY <2>2, <2>3, <2>5 DEF Waiting
<1>5. CASE Known(l)
  <2>1. ASSUME NEW i \in Pending(l)' PROVE ring'[i].kind = "evidence"
    <3>1. i + d \in Pending(l) /\ i + d > 0 /\ ring'[i].kind = ring[i + d].kind
      BY <1>3 DEF Moved
    <3>2. QED
      BY <1>5, <3>1 DEF Known, OnlyEvidence
  <2>2. OnlyEvidence(l, 0)'
    BY <2>1 DEF OnlyEvidence
  <2>3. QED
    BY <1>5, <2>2 DEF Known
<1>6. QED
  BY <1>1, <1>4, <1>5

(* How the steps move the pending entries. *)

LEMMA StayMoved ==
  ASSUME Typed, NEW l \in Lists, ring' = ring,
         holder'.stage = "applied" <=> holder.stage = "applied"
  PROVE  Moved(l, 0) /\ Timely(l, 0) /\ Pending(l)' = Pending(l)
<1>1. Pending(l)' = Pending(l)
  BY DEF Pending
<1>2. \A i \in Pending(l) : i - 0 = i /\ i + 0 = i
  BY RingTypes DEF Pending
<1>3. QED
  BY <1>1, <1>2 DEF Moved, Timely

LEMMA AgedMoved ==
  ASSUME Typed, NEW a \in Lists, ring' = Aged(a),
         holder'.stage = "applied" <=> holder.stage = "applied"
  PROVE  \A l \in Lists : Moved(l, 0) /\ (l # a => Timely(l, 0))
<1> SUFFICES ASSUME NEW l \in Lists PROVE Moved(l, 0) /\ (l # a => Timely(l, 0))
  OBVIOUS
<1>1. DOMAIN ring' = DOMAIN ring
  BY DEF Aged
<1>2. \A i \in DOMAIN ring : /\ ring'[i].list = ring[i].list /\ ring'[i].kind = ring[i].kind
                             /\ ring'[i].object = ring[i].object
                             /\ ring[i].list # a => ring'[i].now = ring[i].now
  BY RingTypes DEF Aged, Entry
<1>3. Pending(l)' = Pending(l) /\ \A i \in Pending(l) : ring[i].list = l /\ i \in DOMAIN ring
  BY <1>1, <1>2 DEF Pending
<1>4. \A i \in Pending(l) : i - 0 = i /\ i + 0 = i
  BY RingTypes DEF Pending
<1>5. QED
  BY <1>2, <1>3, <1>4 DEF Moved, Timely

LEMMA PublishMoved ==
  ASSUME Typed, Publish, NEW l \in Lists PROVE Moved(l, 0) /\ Timely(l, 0)
<1>1. PICK j \in DOMAIN ring : ring' = [ring EXCEPT ![j].ready = TRUE]
  BY DEF Publish
<1>2. DOMAIN ring' = DOMAIN ring /\ holder' = holder
  BY <1>1 DEF Publish
<1>3. \A i \in DOMAIN ring : /\ ring'[i].list = ring[i].list /\ ring'[i].kind = ring[i].kind
                             /\ ring'[i].object = ring[i].object /\ ring'[i].now = ring[i].now
  BY <1>1, RingTypes DEF Entry
<1>4. Pending(l)' = Pending(l) /\ \A i \in Pending(l) : i \in DOMAIN ring
  BY <1>2, <1>3 DEF Pending
<1>5. \A i \in Pending(l) : i - 0 = i /\ i + 0 = i
  BY RingTypes DEF Pending
<1>6. QED
  BY <1>3, <1>4, <1>5 DEF Moved, Timely

LEMMA CommitMoved ==
  ASSUME Typed, Commit, NEW l \in Lists PROVE Moved(l, 1) /\ Timely(l, 1)
<1>1. ring # << >> /\ ring \in Seq(Entry) /\ ring' = Tail(ring)
      /\ holder.stage = "applied" /\ holder'.stage = "draining"
  BY DEF Commit, Goes, Typed, TypeOK, Holding, Empty
<1>2. /\ Len(ring') = Len(ring) - 1 /\ ring' \in Seq(Entry)
      /\ \A i \in 1..Len(ring') : ring'[i] = ring[i + 1]
  BY <1>1, HeadTailProperties
<1>3. DOMAIN ring' = 1..Len(ring') /\ DOMAIN ring = 1..Len(ring) /\ Len(ring) \in Nat
  BY <1>1, <1>2, LenProperties
<1>4. \A i \in Pending(l) : i \in 2..Len(ring) /\ ring[i].list = l
  BY <1>1, <1>3 DEF Pending
<1>5. ASSUME NEW i \in Pending(l) PROVE i - 1 \in Pending(l)'
  <2>1. i - 1 \in 1..Len(ring') /\ (i - 1) + 1 = i
    BY <1>2, <1>3, <1>4
  <2>2. ring'[i - 1] = ring[i]
    BY <1>2, <2>1
  <2>3. QED
    BY <1>1, <1>3, <1>4, <2>1, <2>2 DEF Pending
<1>6. ASSUME NEW i \in Pending(l)' PROVE i + 1 \in Pending(l) /\ ring'[i] = ring[i + 1]
  <2>1. i \in 1..Len(ring') /\ ring'[i].list = l
    BY <1>3 DEF Pending
  <2>2. i + 1 \in 1..Len(ring) /\ i + 1 > 1 /\ ring'[i] = ring[i + 1]
    BY <1>2, <1>3, <2>1
  <2>3. QED
    BY <1>3, <2>1, <2>2 DEF Pending
<1>7. QED
  BY <1>5, <1>6 DEF Moved, Timely

\* With room in the ring, the new entry is the list's last.
Appended(a, kind, n) ==
    /\ n \in Pending(a)' /\ Pending(a)' = Pending(a) \cup {n}
    /\ ring'[n] = [list |-> a, kind |-> kind, object |-> native[a].object,
                   now |-> TRUE, ready |-> FALSE]
    /\ \A i \in Pending(a) : i < n /\ ring'[i] = ring[i]

LEMMA PushAppended ==
  ASSUME Typed, NEW a \in Lists, NEW kind \in Kinds, push(a, kind), ~Full
  PROVE  /\ UNCHANGED <<lost, past, holder>>
         /\ \A l \in Lists : l # a => Moved(l, 0) /\ Timely(l, 0)
         /\ \E n \in Nat : Appended(a, kind, n)
<1> DEFINE e == [list |-> a, kind |-> kind, object |-> native[a].object,
                 now |-> TRUE, ready |-> FALSE]
<1> DEFINE n == Len(ring) + 1
<1>1. ring' = Append(ring, e) /\ UNCHANGED <<lost, past, holder>>
  BY DEF push
<1>2. e \in Entry
  BY DEF Typed, TypeOK, Entry, Native
<1>3. /\ Len(ring') = n /\ DOMAIN ring' = 1..n /\ DOMAIN ring = 1..Len(ring) /\ Len(ring) \in Nat
      /\ ring'[n] = e /\ \A i \in 1..Len(ring) : ring'[i] = ring[i]
  BY <1>1, <1>2, RingTypes, AppendProperties, LenProperties DEF Typed, TypeOK
<1>4. \A l \in Lists : Pending(l) \subseteq Pending(l)'
  BY <1>1, <1>3 DEF Pending
<1>5. ASSUME NEW l \in Lists, NEW i \in Pending(l)', i # n \/ l # a PROVE i \in Pending(l)
  <2>1. i \in 1..n /\ ring'[i].list = l
    BY <1>3 DEF Pending
  <2>2. i # n
    BY <1>3, <1>5, <2>1
  <2>3. i \in 1..Len(ring)
    BY <1>3, <2>1, <2>2
  <2>4. QED
    BY <1>1, <1>3, <2>1, <2>3, <1>5 DEF Pending
<1>6. \A l \in Lists : \A i \in Pending(l) :
          i \in 1..Len(ring) /\ i - 0 = i /\ i + 0 = i /\ ring'[i] = ring[i]
  BY <1>3 DEF Pending
<1>7. \A l \in Lists : l # a => Moved(l, 0) /\ Timely(l, 0)
  BY <1>4, <1>5, <1>6 DEF Moved, Timely
<1>8. n \in Pending(a)'
  <2>1. n > 1 \/ holder.stage # "applied"
    <3>1. CASE ring = << >>
      BY <3>1 DEF Typed, Holding, Empty
    <3>2. CASE ring # << >>
      BY <3>2, <1>3, EmptySeq DEF Typed, TypeOK
    <3>3. QED
      BY <3>1, <3>2
  <2>2. QED
    BY <1>1, <1>3, <2>1 DEF Pending
<1>9. \A i \in Pending(a) : i < n
  BY <1>3 DEF Pending
<1>10. Pending(a)' = Pending(a) \cup {n}
  BY <1>4, <1>5, <1>8
<1>11. Appended(a, kind, n) /\ n \in Nat
  BY <1>3, <1>6, <1>8, <1>9, <1>10 DEF Appended
<1>12. QED
  BY <1>1, <1>7, <1>11

LEMMA PushMoved ==
  ASSUME Typed, NEW a \in Lists, NEW kind \in Kinds, push(a, kind)
  PROVE  /\ \A l \in Lists : l # a => Moved(l, 0) /\ Timely(l, 0)
         /\ \A l \in Lists : Exact(l)' => Exact(l)
         /\ Exact(a)' =>
               /\ \A i \in Pending(a) : i \in Pending(a)' /\ ring'[i] = ring[i]
               /\ \E n \in Pending(a)' :
                     /\ ring'[n] = [list |-> a, kind |-> kind, object |-> native[a].object,
                                    now |-> TRUE, ready |-> FALSE]
                     /\ \A i \in Pending(a)' : ~(i > n)
<1>1. CASE ~Full
  <2>1. past' = past /\ \A l \in Lists : l # a => Moved(l, 0) /\ Timely(l, 0)
    BY <1>1, PushAppended
  <2>2. PICK n \in Nat : Appended(a, kind, n)
    BY <1>1, PushAppended
  <2>3. \A i \in Pending(a) : i \in Nat
    BY RingTypes DEF Pending
  <2>4. \A i \in Pending(a)' : ~(i > n)
    BY <2>2, <2>3 DEF Appended
  <2>5. QED
    BY <2>1, <2>2, <2>4 DEF Appended, Exact
<1>2. CASE Full
  <2>1. UNCHANGED ring /\ holder'.stage = holder.stage
    BY <1>2 DEF push, Typed, TypeOK
  <2>2. ~Exact(a)' /\ \A l \in Lists : Exact(l)' => Exact(l)
    BY <1>2 DEF push, Typed, TypeOK, Exact
  <2>3. QED
    BY <2>1, <2>2, StayMoved
<1>3. QED
  BY <1>1, <1>2

(* A step that leaves a list's recording and item alone, or only adds to the item. *)
LEMMA ReportedKept ==
  ASSUME Typed, Typed', NEW l \in Lists, NEW d \in {0, 1}, Moved(l, d), Timely(l, d), Reported(l),
         Exact(l)' => Exact(l), item'[l].object = item[l].object,
         item'[l].evidence = item[l].evidence, item'[l].unobserved = item[l].unobserved,
         native'[l] = native[l]
  PROVE  Reported(l)'
<1>1. Owning(l)'
  BY OwningKept DEF Reported
<1>2. Covering(l)'
  BY CoveringKept DEF Reported
<1>3. QED
  BY <1>1, <1>2 DEF Reported, Renewed

(* A step after which the recording of the list has no effects. *)
LEMMA ReportedFresh ==
  ASSUME NEW l \in Lists, Owning(l)', ~native'[l].effects
  PROVE  Reported(l)'
BY DEF Reported, Covering, Renewed

\* The head entry changes the item of its list, if that is of the entry's object, and
\* is no longer pending.
LEMMA ApplyEffect ==
  ASSUME Typed, Apply, NEW l \in Lists
  PROVE  /\ ring' = ring /\ past' = past /\ native' = native /\ lost' = lost
         /\ holder.stage = "draining" /\ holder'.stage = "applied" /\ holder'.late = holder.late
         /\ 1 \in DOMAIN ring /\ Head(ring) = ring[1] /\ Head(ring) \in Entry
         /\ l # Head(ring).list =>
               Pending(l)' = Pending(l) /\ Moved(l, 0) /\ Timely(l, 0) /\ item'[l] = item[l]
         /\ l = Head(ring).list =>
               /\ 1 \in Pending(l) /\ Pending(l)' = Pending(l) \ {1}
               /\ ~ForThisObject(Head(ring)) => item'[l] = item[l]
               /\ ForThisObject(Head(ring)) =>
                     CASE Head(ring).kind = "reset"    ->
                             item'[l] = Registered(item[l].object, FALSE)
                       [] Head(ring).kind = "destroy"  -> item'[l] = Unregistered
                       [] Head(ring).kind = "evidence" ->
                             item'[l] = [item[l] EXCEPT !.evidence =
                                item[l].evidence \cup {IF Head(ring).now THEN "now" ELSE "before"}]
<1> DEFINE e == Head(ring)
<1>1. ring # << >> /\ ring' = ring /\ past' = past /\ native' = native /\ lost' = lost
      /\ holder.stage = "draining" /\ holder'.stage = "applied" /\ holder'.late = holder.late
  BY DEF Apply, HeadReady, Empty, Goes, Typed, TypeOK
<1>2. 1 \in DOMAIN ring /\ e = ring[1] /\ e \in Entry /\ e.list \in Lists
  <2>1. Len(ring) \in Nat \ {0} /\ DOMAIN ring = 1..Len(ring)
    BY <1>1, RingTypes, EmptySeq DEF Typed, TypeOK
  <2>2. 1 \in DOMAIN ring /\ e = ring[1]
    BY <2>1
  <2>3. QED
    BY <2>2, RingTypes
<1>3. Pending(l) = {i \in DOMAIN ring : ring[i].list = l}
      /\ Pending(l)' = {i \in DOMAIN ring : ring[i].list = l /\ i > 1}
  BY <1>1 DEF Pending
<1>4. CASE l # e.list
  <2>1. Pending(l)' = Pending(l) /\ \A i \in Pending(l) : i - 0 = i /\ i + 0 = i
    BY <1>2, <1>3, <1>4, RingTypes
  <2>2. Moved(l, 0) /\ Timely(l, 0)
    BY <1>1, <2>1 DEF Moved, Timely
  <2>3. item'[l] = item[l]
    BY <1>2, <1>4 DEF Apply, Typed, TypeOK
  <2>4. QED
    BY <1>1, <1>2, <1>4, <2>1, <2>2, <2>3
<1>5. CASE l = e.list
  <2>1. 1 \in Pending(l) /\ Pending(l)' = Pending(l) \ {1}
    BY <1>2, <1>3, <1>5, RingTypes
  <2>2. ~ForThisObject(e) => item' = item
    BY DEF Apply
  <2>3. e.kind = "reset" \/ e.kind = "destroy" \/ e.kind = "evidence"
    BY <1>2 DEF Entry, Kinds
  <2>4. ASSUME ForThisObject(e), e.kind = "reset" PROVE item'[l] = Registered(item[l].object, FALSE)
    <3>1. item' = [item EXCEPT ![e.list] = retire_native_list(item[e.list])]
      BY <2>4 DEF Apply
    <3>2. QED
      BY <1>5, <3>1 DEF retire_native_list, Typed, TypeOK
  <2>5. ASSUME ForThisObject(e), e.kind = "destroy" PROVE item'[l] = Unregistered
    <3>1. item' = [item EXCEPT ![e.list] = Unregistered]
      BY <2>5 DEF Apply
    <3>2. QED
      BY <1>5, <3>1 DEF Typed, TypeOK
  <2>6. ASSUME ForThisObject(e), e.kind = "evidence"
        PROVE  item'[l] = [item[l] EXCEPT !.evidence =
                              item[l].evidence \cup {IF e.now THEN "now" ELSE "before"}]
    <3>1. item' = [item EXCEPT ![e.list] = [item[e.list] EXCEPT !.evidence =
                           item[e.list].evidence \cup {IF e.now THEN "now" ELSE "before"}]]
      BY <2>6 DEF Apply
    <3>2. QED
      BY <1>5, <3>1 DEF Typed, TypeOK
  <2>7. QED
    BY <1>1, <1>2, <1>5, <2>1, <2>2, <2>3, <2>4, <2>5, <2>6
<1>6. QED
  BY <1>4, <1>5

LEMMA ApplyReported ==
  ASSUME Typed, Typed', Apply, NEW l \in Lists, Reported(l) PROVE Reported(l)'
<1> DEFINE e == Head(ring)
<1>1. ring' = ring /\ past' = past /\ native' = native
  BY ApplyEffect
<1>2. e = ring[1] /\ e \in Entry
  BY ApplyEffect
<1>3. Exact(l)' <=> Exact(l)
  BY <1>1 DEF Exact
<1>4. \A i \in Pending(l) : i \in DOMAIN ring /\ i \in Int /\ i > 0
  BY RingTypes DEF Pending
<1>5. CASE l # e.list
  <2>1. Moved(l, 0) /\ Timely(l, 0) /\ item'[l] = item[l]
    BY <1>5, ApplyEffect
  <2>2. QED
    BY <1>1, <1>3, <2>1, ReportedKept
<1>6. CASE l = e.list
  <2>1. 1 \in Pending(l) /\ Pending(l)' = Pending(l) \ {1}
    BY <1>6, ApplyEffect
  <2>2. item[l] \in Item /\ (e.kind = "reset" \/ e.kind = "destroy" \/ e.kind = "evidence")
    BY <1>2 DEF Typed, TypeOK, Entry, Kinds
  <2>3. ForThisObject(e) /\ e.kind = "reset" => item'[l] = Registered(item[l].object, FALSE)
    BY <1>6, ApplyEffect
  <2>4. ForThisObject(e) /\ e.kind = "destroy" => item'[l] = Unregistered
    BY <1>6, ApplyEffect
  <2>5. ForThisObject(e) /\ e.kind = "evidence" =>
            item'[l] = [item[l] EXCEPT !.evidence =
                           item[l].evidence \cup {IF e.now THEN "now" ELSE "before"}]
    BY <1>6, ApplyEffect
  <2>6. ~ForThisObject(e) => item'[l] = item[l]
    BY <1>6, ApplyEffect
  <2>7. Registered(item[l].object, FALSE).object = item[l].object /\ Unregistered.object = 0
    BY DEF Registered, Unregistered
  <2>8. e.kind = "evidence" \/ ~ForThisObject(e) =>
            /\ item'[l].object = item[l].object /\ item'[l].unobserved = item[l].unobserved
            /\ item[l].evidence \subseteq item'[l].evidence
    BY <2>2, <2>5, <2>6 DEF Item
  <2>9. item'[l].object = item[l].object \/ item'[l].object = 0
    BY <2>2, <2>3, <2>4, <2>7, <2>8
  <2>10. e.kind = "destroy" /\ e.object = item[l].object => item'[l].object = 0
    BY <1>6, <2>4, <2>6, <2>7 DEF ForThisObject
  <2>11. Owning(l)'
    <3> SUFFICES ASSUME Exact(l), item'[l].object # 0,
                        ~(item[l].object = native[l].object /\ native[l].at # "none")
                 PROVE  \E i \in Pending(l)' :
                            ring'[i].kind = "destroy" /\ ring'[i].object = item'[l].object
      BY <1>1, <1>3, <2>9 DEF Owning
    <3>1. item[l].object # 0 /\ item'[l].object = item[l].object
      BY <2>9, <2>6, <1>6 DEF ForThisObject
    <3>2. PICK i \in Pending(l) : ring[i].kind = "destroy" /\ ring[i].object = item[l].object
      BY <3>1 DEF Owning, Reported
    <3>3. i # 1
      BY <1>2, <2>10, <3>1, <3>2
    <3>4. QED
      BY <1>1, <2>1, <3>1, <3>2, <3>3
  <2>12. Covering(l)'
    <3> SUFFICES ASSUME Exact(l), native[l].at \in {"recording", "closed"}, native[l].effects
                 PROVE  Waiting(l)' \/ Known(l)' \/ item'[l].object = 0
      BY <1>1, <1>3 DEF Covering
    <3>1. Waiting(l) \/ Known(l) \/ item[l].object = 0
      BY DEF Covering, Reported
    <3>2. CASE Waiting(l)
      <4>1. PICK n \in Pending(l) : /\ ring[n].kind = "evidence" /\ ring[n].now
                                    /\ ring[n].object = native[l].object
                                    /\ OnlyEvidence(l, n)
        BY <3>2 DEF Waiting
      <4>2. CASE n # 1
        <5>1. OnlyEvidence(l, n)'
          BY <1>1, <2>1, <4>1 DEF OnlyEvidence
        <5>2. QED
          BY <1>1, <2>1, <4>1, <4>2, <5>1 DEF Waiting
      <4>3. CASE n = 1
        <5>1. ASSUME NEW i \in Pending(l)' PROVE i > 1 /\ ring[i].kind = "evidence"
          <6>1. i \in Pending(l) /\ i # 1
            BY <2>1
          <6>2. i > 1
            BY <1>4, <6>1
          <6>3. QED
            BY <4>1, <4>3, <6>1, <6>2 DEF OnlyEvidence
        <5>2. OnlyEvidence(l, 0)'
          BY <1>1, <5>1 DEF OnlyEvidence
        <5>3. e.kind = "evidence" /\ e.now /\ e.object = native[l].object
          BY <1>2, <4>1, <4>3
        <5>4. CASE ForThisObject(e)
          <6>1. "now" \in item'[l].evidence
            BY <2>2, <2>5, <5>3, <5>4 DEF Item
          <6>2. QED
            BY <5>2, <6>1 DEF Known
        <5>5. CASE ~ForThisObject(e) /\ item[l].object # 0
          <6>1. item[l].object # native[l].object
            BY <1>6, <5>3, <5>5 DEF ForThisObject
          <6>2. PICK i \in Pending(l) : ring[i].kind = "destroy"
            BY <5>5, <6>1 DEF Owning, Reported
          <6>3. i # 1 /\ i \in Pending(l)'
            BY <1>2, <2>1, <5>3, <6>2
          <6>4. QED
            BY <5>1, <6>2, <6>3
        <5>6. CASE ~ForThisObject(e) /\ item[l].object = 0
          BY <2>6, <5>6
        <5>7. QED
          BY <5>4, <5>5, <5>6
      <4>4. QED
        BY <4>2, <4>3
    <3>3. CASE Known(l)
      <4>1. \A i \in Pending(l) : ring[i].kind = "evidence"
        BY <1>4, <3>3 DEF Known, OnlyEvidence
      <4>2. OnlyEvidence(l, 0)' /\ e.kind = "evidence"
        BY <1>1, <1>2, <2>1, <4>1 DEF OnlyEvidence
      <4>3. QED
        BY <2>8, <3>3, <4>2 DEF Known
    <3>4. CASE item[l].object = 0
      BY <2>9, <3>4
    <3>5. QED
      BY <3>1, <3>2, <3>3, <3>4
  <2>13. QED
    BY <1>1, <2>11, <2>12 DEF Reported, Renewed
<1>7. QED
  BY <1>5, <1>6

LEMMA HolderReported ==
  ASSUME Typed, Typed', HolderStep \/ Publish, NEW l \in Lists, Reported(l) PROVE Reported(l)'
<1>0. Nobody.stage = "free" /\ holder \in [stage : HolderStages, late : SUBSET Lists]
  BY DEF Nobody, Typed, TypeOK
<1>1. CASE Acquire \/ TakeOverflow \/ InvalidateAll \/ Release
  <2>1. /\ UNCHANGED <<native, ring, past>>
        /\ holder.stage # "applied" /\ holder'.stage # "applied"
    BY <1>0, <1>1 DEF Acquire, TakeOverflow, InvalidateAll, Release, Drained, Goes
  <2>2. item'[l].object = item[l].object /\ item'[l].evidence = item[l].evidence
        /\ item'[l].unobserved = item[l].unobserved
    BY <1>1 DEF Acquire, TakeOverflow, InvalidateAll, Release, Invalidated, Typed, TypeOK, Item
  <2>3. Moved(l, 0) /\ Timely(l, 0)
    BY <2>1, StayMoved
  <2>4. QED
    BY <2>1, <2>2, <2>3, ReportedKept DEF Exact
<1>2. CASE Apply
  BY <1>2, ApplyReported
<1>3. CASE Commit
  <2>1. Moved(l, 1) /\ Timely(l, 1) /\ UNCHANGED <<native, item, past>>
    BY <1>3, CommitMoved DEF Commit
  <2>2. QED
    BY <2>1, ReportedKept DEF Exact
<1>4. CASE Publish
  <2>1. Moved(l, 0) /\ Timely(l, 0) /\ UNCHANGED <<native, item, past>>
    BY <1>4, PublishMoved DEF Publish
  <2>2. QED
    BY <2>1, ReportedKept DEF Exact
<1>5. QED
  BY <1>1, <1>2, <1>3, <1>4 DEF HolderStep

LEMMA PushReported ==
  ASSUME Typed, Typed', NEW a \in Lists, NEW kind \in Kinds, push(a, kind), UNCHANGED item,
         Reported(a), native'[a].object = native[a].object, native'[a].at \notin {"reset", "idle"},
         kind = "reset" => ~native'[a].effects, kind = "destroy" <=> native'[a].at = "none"
  PROVE  Reported(a)'
<1>1. Exact(a)' => Exact(a)
  BY PushMoved
<1>2. ASSUME Exact(a)'
      PROVE  /\ \A i \in Pending(a) : i \in Pending(a)' /\ ring'[i] = ring[i]
             /\ \E n \in Pending(a)' :
                   /\ ring'[n] = [list |-> a, kind |-> kind, object |-> native[a].object,
                                  now |-> TRUE, ready |-> FALSE]
                   /\ \A i \in Pending(a)' : ~(i > n)
  BY <1>2, PushMoved
<1>3. Owning(a)'
  <2> SUFFICES ASSUME Exact(a)', item[a].object # 0,
                      ~(item[a].object = native[a].object /\ native'[a].at # "none")
               PROVE  \E i \in Pending(a)' :
                          ring'[i].kind = "destroy" /\ ring'[i].object = item[a].object
    BY DEF Owning
  <2>1. CASE item[a].object = native[a].object
    <3>1. kind = "destroy"
      BY <2>1
    <3>2. QED
      BY <1>2, <2>1, <3>1
  <2>2. CASE item[a].object # native[a].object
    <3>1. PICK i \in Pending(a) : ring[i].kind = "destroy" /\ ring[i].object = item[a].object
      BY <1>1, <2>2 DEF Owning, Reported
    <3>2. QED
      BY <1>2, <3>1
  <2>3. QED
    BY <2>1, <2>2
<1>4. CASE kind = "evidence"
  <2>1. Exact(a)' => Waiting(a)'
    <3> SUFFICES ASSUME Exact(a)' PROVE Waiting(a)'
      OBVIOUS
    <3>1. PICK n \in Pending(a)' :
              /\ ring'[n] = [list |-> a, kind |-> kind, object |-> native[a].object,
                             now |-> TRUE, ready |-> FALSE]
              /\ \A i \in Pending(a)' : ~(i > n)
      BY <1>2
    <3>2. OnlyEvidence(a, n)'
      BY <3>1 DEF OnlyEvidence
    <3>3. ring'[n].kind = "evidence" /\ ring'[n].now /\ ring'[n].object = native'[a].object
      BY <1>4, <3>1
    <3>4. QED
      BY <3>2, <3>3 DEF Waiting
  <2>2. Covering(a)'
    BY <2>1 DEF Covering
  <2>3. QED
    BY <1>3, <2>2 DEF Reported, Renewed
<1>5. CASE kind = "reset"
  BY <1>3, <1>5, ReportedFresh
<1>6. CASE kind = "destroy"
  BY <1>3, <1>6 DEF Reported, Covering, Renewed
<1>7. QED
  BY <1>4, <1>5, <1>6 DEF Kinds

LEMMA ListReported ==
  ASSUME Typed, Typed', NEW a \in Lists, ListStep(a), \A l \in Lists : Reported(l)
  PROVE  \A l \in Lists : Reported(l)'
<1>0. Nobody.stage = "free" /\ holder \in [stage : HolderStages, late : SUBSET Lists]
      /\ item[a] \in Item /\ native[a] \in Native
  BY DEF Nobody, Typed, TypeOK
<1>1. ASSUME NEW registered \in BOOLEAN, Create(a, registered)
      PROVE  \A l \in Lists : Reported(l)'
  <2>1. (holder'.stage = "applied") <=> (holder.stage = "applied")
    <3>1. CASE registered
      <4>1. holder.stage = "draining" /\ holder' = Nobody
        BY <1>1, <3>1 DEF Create, Drained
      <4>2. QED
        BY <1>0, <4>1
    <3>2. CASE ~registered
      BY <1>1, <3>2 DEF Create
    <3>3. QED
      BY <3>1, <3>2
  <2>2. \A l \in Lists : Moved(l, 0) /\ (l # a => Timely(l, 0))
    <3>1. ring' = Aged(a)
      BY <1>1 DEF Create
    <3>2. QED
      BY <2>1, <3>1, AgedMoved
  <2>3. /\ native'[a].object = native[a].object + 1 /\ native'[a].at = "recording"
        /\ ~native'[a].effects /\ native[a].at = "none"
        /\ \A l \in Lists \ {a} : native'[l] = native[l]
    BY <1>1 DEF Create, Typed, TypeOK
  <2>4. \A l \in Lists \ {a} : item'[l] = item[l] /\ past'[l] = past[l]
    BY <1>1 DEF Create, Typed, TypeOK
  <2>5. ASSUME NEW l \in Lists \ {a} PROVE Reported(l)'
    BY <2>2, <2>3, <2>4, ReportedKept DEF Exact
  <2>6. Owning(a)'
    <3>1. CASE registered
      <4>1. item'[a] = Registered(native[a].object + 1, FALSE)
        BY <1>1, <3>1 DEF Create, Typed, TypeOK
      <4>2. QED
        BY <2>3, <4>1 DEF Owning, Registered
    <3>2. CASE ~registered
      <4>1. item'[a] = AgedItem(a) /\ past' = past
        BY <1>1, <3>2 DEF Create, Typed, TypeOK
      <4>2. item'[a].object = item[a].object
        BY <1>0, <4>1 DEF AgedItem, Item
      <4>3. QED
        BY <2>2, <2>3, <4>1, <4>2, OwningKept DEF Reported, Exact
    <3>3. QED
      BY <3>1, <3>2
  <2>7. Reported(a)'
    BY <2>3, <2>6, ReportedFresh
  <2>8. QED
    BY <2>5, <2>7
<1>2. ASSUME RecordLocked(a) \/ RegisterUnobserved(a), NEW l \in Lists PROVE Reported(l)'
  <2>1. /\ ring' = ring /\ past' = Overtake({a})
        /\ holder.stage # "applied" /\ holder'.stage # "applied"
    BY <1>0, <1>2 DEF RecordLocked, RegisterUnobserved, Drained
  <2>2. Moved(l, 0) /\ Timely(l, 0) /\ Pending(l)' = Pending(l)
    BY <2>1, StayMoved
  <2>3. (Exact(l)' => Exact(l)) /\ (Exact(a)' => ~Queued(a))
    BY <2>1 DEF Exact, Overtake
  <2>4. CASE l # a
    <3>1. item'[l] = item[l] /\ native'[l] = native[l]
      BY <1>2, <2>4 DEF RecordLocked, RegisterUnobserved, Typed, TypeOK
    <3>2. QED
      BY <2>2, <2>3, <3>1, ReportedKept
  <2>5. CASE l = a
    <3>1. Exact(a)' => Pending(a)' = {}
      BY <2>2, <2>3, <2>5 DEF Pending, Queued
    <3>2. Exact(a)' => OnlyEvidence(a, 0)'
      BY <3>1 DEF OnlyEvidence
    <3>3. Exact(a)' => item[a].object = 0 \/ item[a].object = native[a].object
      BY <2>2, <2>3, <2>5, <3>1 DEF Reported, Owning
    <3>4. native'[a].object = native[a].object /\ native'[a].at \in {"recording", "closed"}
      <4>1. CASE RecordLocked(a)
        <5>1. native'[a] = [native[a] EXCEPT !.effects = TRUE]
          BY <4>1 DEF RecordLocked, Typed, TypeOK
        <5>2. native[a].at = "recording"
          BY <4>1 DEF RecordLocked, Free
        <5>3. QED
          BY <1>0, <5>1, <5>2 DEF Native
      <4>2. CASE RegisterUnobserved(a)
        <5>1. native' = native /\ native[a].at = "closed"
          BY <4>2 DEF RegisterUnobserved, Batch, Free
        <5>2. QED
          BY <5>1
      <4>3. QED
        BY <1>2, <4>1, <4>2
    <3>5. CASE RecordLocked(a) /\ item[a].object = native[a].object
      <4>1. item'[a] = [item[a] EXCEPT !.evidence = @ \cup {"now"}]
        BY <3>5 DEF RecordLocked, Typed, TypeOK
      <4>2. item'[a].object = item[a].object /\ "now" \in item'[a].evidence
        BY <1>0, <4>1 DEF Item
      <4>3. QED
        BY <2>5, <3>2, <3>4, <3>5, <4>2 DEF Reported, Owning, Covering, Known, Renewed
    <3>6. CASE RecordLocked(a) /\ item[a].object # native[a].object
      <4>1. item' = item
        BY <3>6 DEF RecordLocked
      <4>2. QED
        BY <2>5, <3>3, <3>4, <3>6, <4>1 DEF Reported, Owning, Covering, Renewed
    <3>7. CASE RegisterUnobserved(a)
      <4>1. item'[a] = Registered(native[a].object, TRUE)
        BY <3>7 DEF RegisterUnobserved, Typed, TypeOK
      <4>2. item'[a].object = native[a].object /\ item'[a].unobserved
        BY <4>1 DEF Registered
      <4>3. QED
        BY <2>5, <3>2, <3>4, <4>2 DEF Reported, Owning, Covering, Known, Renewed
    <3>8. QED
      BY <1>2, <3>5, <3>6, <3>7
  <2>6. QED
    BY <2>4, <2>5
<1>3. ASSUME RecordDeferred(a) \/ ResetDeferred(a) \/ DestroyDeferred(a), NEW l \in Lists
      PROVE  Reported(l)'
  <2>1. /\ UNCHANGED item
        /\ native'[a].object = native[a].object
        /\ \A k \in Lists \ {a} : native'[k] = native[k]
    BY <1>0, <1>3 DEF RecordDeferred, ResetDeferred, DestroyDeferred, Stage, Typed, TypeOK, Native
  <2>2. PICK kind \in Kinds :
           /\ push(a, kind) /\ native'[a].at \notin {"reset", "idle"}
           /\ kind = "reset" => ~native'[a].effects
           /\ kind = "destroy" <=> native'[a].at = "none"
    <3>1. CASE RecordDeferred(a)
      <4>1. push(a, "evidence") /\ native'[a].at = "recording"
        BY <1>0, <3>1 DEF RecordDeferred, Free, Typed, TypeOK, Native
      <4>2. QED
        BY <4>1 DEF Kinds
    <3>2. CASE ResetDeferred(a)
      <4>1. push(a, "reset") /\ native'[a].at = "recording"
            /\ native'[a].effects = native[a].effects /\ native[a].at \in {"reset", "idle"}
        BY <1>0, <3>2 DEF ResetDeferred, Stage, Typed, TypeOK, Native
      <4>2. QED
        BY <4>1 DEF Kinds, Reported, Renewed
    <3>3. CASE DestroyDeferred(a)
      <4>1. push(a, "destroy") /\ native'[a].at = "none"
        BY <1>0, <3>3 DEF DestroyDeferred, Stage, Typed, TypeOK, Native
      <4>2. QED
        BY <4>1 DEF Kinds
    <3>4. QED
      BY <1>3, <3>1, <3>2, <3>3
  <2>3. Reported(a)'
    BY <2>1, <2>2, PushReported
  <2>4. l # a => Moved(l, 0) /\ Timely(l, 0) /\ (Exact(l)' => Exact(l))
    BY <2>2, PushMoved
  <2>5. CASE l # a
    BY <2>1, <2>4, <2>5, ReportedKept
  <2>6. QED
    BY <2>3, <2>5
<1>4. ASSUME Close(a) \/ ResetSeesIdle(a) \/ ResetFast(a), NEW l \in Lists PROVE Reported(l)'
  <2>1. UNCHANGED <<item, ring, past, holder>>
    BY <1>4 DEF Close, ResetSeesIdle, ResetFast
  <2>2. Moved(l, 0) /\ Timely(l, 0) /\ (Exact(l)' => Exact(l))
    BY <2>1, StayMoved DEF Exact
  <2>3. CASE l # a
    <3>1. native'[l] = native[l]
      BY <1>4, <2>3 DEF Close, ResetSeesIdle, ResetFast, Stage, Typed, TypeOK
    <3>2. QED
      BY <2>1, <2>2, <3>1, ReportedKept
  <2>4. CASE l = a
    <3>1. /\ native'[a].object = native[a].object /\ native'[a].effects = native[a].effects
          /\ native[a].at # "none" /\ native'[a].at # "none"
      BY <1>0, <1>4 DEF Close, ResetSeesIdle, ResetFast, Free, Stage, Typed, TypeOK, Native
    <3>2. Owning(a)'
      BY <2>1, <2>2, <2>4, <3>1, OwningKept DEF Reported
    <3>3. CASE Close(a)
      <4>1. native[a].at = "recording" /\ native'[a].at = "closed"
        BY <1>0, <3>3 DEF Close, Free, Stage, Typed, TypeOK, Native
      <4>2. Covering(a)'
        BY <2>1, <2>2, <2>4, <3>1, <4>1, CoveringKept DEF Reported
      <4>3. QED
        BY <2>4, <3>2, <4>1, <4>2 DEF Reported, Renewed
    <3>4. CASE ResetSeesIdle(a) \/ ResetFast(a)
      <4>1. native[a].at \in {"reset", "idle"}
        BY <3>4 DEF ResetSeesIdle, ResetFast
      <4>2. QED
        BY <2>4, <3>1, <3>2, <4>1, ReportedFresh DEF Reported, Renewed
    <3>5. QED
      BY <1>4, <3>3, <3>4
  <2>5. QED
    BY <2>3, <2>4
<1>5. ASSUME NativeReset(a), NEW l \in Lists PROVE Reported(l)'
  <2>1. ring' = Aged(a) /\ UNCHANGED <<past, holder>> /\ item'[a] = AgedItem(a)
        /\ \A k \in Lists \ {a} : item'[k] = item[k] /\ native'[k] = native[k]
    BY <1>5 DEF NativeReset, Typed, TypeOK
  <2>2. Moved(l, 0) /\ (l # a => Timely(l, 0)) /\ (Exact(l)' => Exact(l))
    BY <2>1, AgedMoved DEF Exact
  <2>3. CASE l # a
    BY <2>1, <2>2, <2>3, ReportedKept
  <2>4. CASE l = a
    <3>1. /\ native'[a].object = native[a].object /\ ~native'[a].effects
          /\ native'[a].at # "none"
      BY <1>5 DEF NativeReset, Typed, TypeOK
    <3>2. item'[a].object = item[a].object
      BY <1>0, <2>1 DEF AgedItem, Item
    <3>3. Owning(a)'
      BY <2>2, <2>4, <3>1, <3>2, OwningKept DEF Reported
    <3>4. QED
      BY <2>4, <3>1, <3>3, ReportedFresh
  <2>5. QED
    BY <2>3, <2>4
<1>6. ASSUME ResetLocked(a) \/ DestroyLocked(a), NEW l \in Lists PROVE Reported(l)'
  <2>1. ring' = ring /\ holder.stage # "applied" /\ holder'.stage # "applied"
    BY <1>0, <1>6 DEF ResetLocked, DestroyLocked, Drained
  <2>2. Moved(l, 0) /\ Timely(l, 0)
    BY <2>1, StayMoved
  <2>3. CASE l # a
    <3>1. item'[l] = item[l] /\ native'[l] = native[l]
      BY <1>6, <2>3 DEF ResetLocked, DestroyLocked, Stage, Typed, TypeOK
    <3>2. past'[l] = past[l]
      BY <1>6, <2>3 DEF ResetLocked, DestroyLocked, Overtake, Typed, TypeOK
    <3>3. QED
      BY <2>2, <3>1, <3>2, ReportedKept DEF Exact
  <2>4. CASE l = a
    <3>1. native'[a].object = native[a].object /\ native'[a].effects = native[a].effects
      BY <1>0, <1>6 DEF ResetLocked, DestroyLocked, Stage, Typed, TypeOK, Native
    <3>2. CASE ResetLocked(a)
      <4>1. native[a].at \in {"reset", "idle"} /\ native'[a].at = "recording"
        BY <1>0, <3>2 DEF ResetLocked, Stage, Typed, TypeOK, Native
      <4>2. CASE item[a].object = native[a].object
        <5>1. item'[a] = Registered(item[a].object, FALSE)
          BY <3>2, <4>2 DEF ResetLocked, retire_native_list, Typed, TypeOK
        <5>2. Owning(a)'
          BY <3>1, <4>1, <4>2, <5>1 DEF Owning, Registered
        <5>3. QED
          BY <2>4, <3>1, <4>1, <5>2, ReportedFresh DEF Reported, Renewed
      <4>3. CASE item[a].object # native[a].object
        <5>1. UNCHANGED <<item, past>>
          BY <3>2, <4>3 DEF ResetLocked
        <5>2. Owning(a)'
          BY <2>2, <2>4, <3>1, <4>3, <5>1, OwningKept DEF Reported, Exact
        <5>3. QED
          BY <2>4, <3>1, <4>1, <5>2, ReportedFresh DEF Reported, Renewed
      <4>4. QED
        BY <4>2, <4>3
    <3>3. CASE DestroyLocked(a)
      <4>1. native'[a].at = "none" /\ UNCHANGED past
        BY <1>0, <3>3 DEF DestroyLocked, Stage, Typed, TypeOK, Native
      <4>2. CASE item[a].object = native[a].object
        <5>1. item'[a] = Unregistered
          BY <3>3, <4>2 DEF DestroyLocked, Typed, TypeOK
        <5>2. item'[a].object = 0
          BY <5>1 DEF Unregistered, Registered
        <5>3. QED
          BY <2>4, <4>1, <5>2 DEF Reported, Owning, Covering, Renewed
      <4>3. CASE item[a].object # native[a].object
        <5>1. UNCHANGED item
          BY <3>3, <4>3 DEF DestroyLocked
        <5>2. Owning(a)'
          BY <2>2, <2>4, <3>1, <4>1, <4>3, <5>1, OwningKept DEF Reported, Exact
        <5>3. QED
          BY <2>4, <4>1, <5>2 DEF Reported, Covering, Renewed
      <4>4. QED
        BY <4>2, <4>3
    <3>4. QED
      BY <1>6, <3>2, <3>3
  <2>5. QED
    BY <2>3, <2>4
<1>7. QED
  BY <1>1, <1>2, <1>3, <1>4, <1>5, <1>6 DEF ListStep

LEMMA SubmissionReported ==
  ASSUME Typed, Typed', NEW B \in SUBSET Lists, BypassUnlocked(B) \/ Admit(B),
         NEW l \in Lists, Reported(l)
  PROVE  Reported(l)'
<1>1. UNCHANGED <<native, item, ring>> /\ (holder'.stage = "applied" <=> holder.stage = "applied")
  BY DEF BypassUnlocked, Admit, Drained, Nobody
<1>2. Exact(l)' => Exact(l)
  BY DEF BypassUnlocked, Admit, Exact, Overtake
<1>3. Moved(l, 0) /\ Timely(l, 0)
  BY <1>1, StayMoved
<1>4. QED
  BY <1>1, <1>2, <1>3, ReportedKept

LEMMA ResetReported ==
  ASSUME Typed, Typed', reset_session, NEW l \in Lists, Reported(l) PROVE Reported(l)'
<1>1. UNCHANGED <<native, ring, past, holder>>
  BY DEF reset_session
<1>2. item'[l] = [item[l] EXCEPT !.adopted = FALSE] /\ item[l] \in Item
  BY DEF reset_session, Typed, TypeOK
<1>3. item'[l].object = item[l].object /\ item'[l].evidence = item[l].evidence
      /\ item'[l].unobserved = item[l].unobserved
  BY <1>2 DEF Item
<1>4. Moved(l, 0) /\ Timely(l, 0)
  BY <1>1, StayMoved
<1>5. QED
  BY <1>1, <1>3, <1>4, ReportedKept DEF Exact

LEMMA InitReported == Init => \A l \in Lists : Reported(l)
<1> SUFFICES ASSUME Init, NEW l \in Lists PROVE Reported(l)
  OBVIOUS
<1>1. item[l].object = 0
  BY DEF Init, Unregistered, Registered
<1>2. native[l] = [at |-> "none", object |-> 0, effects |-> FALSE]
  BY DEF Init
<1>3. QED
  BY <1>1, <1>2 DEF Reported, Owning, Covering, Renewed

LEMMA StepReported ==
  ASSUME Typed, Typed', \A l \in Lists : Reported(l), [Next]_vars
  PROVE  \A l \in Lists : Reported(l)'
<1>1. ASSUME UNCHANGED vars, NEW l \in Lists PROVE Reported(l)'
  <2>1. UNCHANGED <<native, item, ring, past, holder>>
    BY <1>1 DEF vars
  <2>2. Moved(l, 0) /\ Timely(l, 0)
    BY <2>1, StayMoved
  <2>3. QED
    BY <2>1, <2>2, ReportedKept DEF Exact
<1>2. QED
  BY <1>1, HolderReported, ListReported, SubmissionReported, ResetReported DEF Next

\* Nothing that is known and carries no evidence has effects, once nothing waits.
LEMMA UnrelatedHasNone ==
  ASSUME Typed, NEW l \in Lists, Reported(l), ~Queued(l), ~unknown(l), item[l].evidence = {},
         native[l].at \in {"recording", "closed"}
  PROVE  ~native[l].effects \/ past[l] # "exact"
<1>1. Pending(l) = {}
  BY DEF Pending, Queued
<1>2. QED
  BY <1>1 DEF Reported, Covering, Exact, Waiting, Known, unknown

LEMMA QuietBypass ==
  ASSUME seen' = Unasked PROVE BypassIsObserved'
BY DEF BypassIsObserved, Unasked

LEMMA StepBypass ==
  ASSUME Typed, \A l \in Lists : Reported(l), BypassIsObserved, [Next]_vars
  PROVE  BypassIsObserved'
<1>1. CASE UNCHANGED vars
  BY <1>1 DEF vars, BypassIsObserved
<1>2. CASE HolderStep \/ Publish \/ reset_session
  BY <1>2, QuietBypass DEF HolderStep, Acquire, TakeOverflow, InvalidateAll, Apply, Commit,
        Release, Publish, reset_session, Quiet
<1>3. CASE \E l \in Lists : ListStep(l)
  BY <1>3, QuietBypass DEF ListStep, Create, RecordLocked, RecordDeferred, Close, NativeReset,
        ResetSeesIdle, ResetFast, ResetLocked, ResetDeferred, DestroyLocked, DestroyDeferred,
        RegisterUnobserved, Quiet
<1>4. ASSUME NEW B \in SUBSET Lists, BypassUnlocked(B) PROVE BypassIsObserved'
  <2> SUFFICES ASSUME NEW l \in Lists, seen'[l].how = "clear"
               PROVE  ~native'[l].effects \/ past'[l] # "exact"
    BY DEF BypassIsObserved
  <2>1. UNCHANGED <<native, past>> /\ seen' = Bypassed(B) /\ ring = << >>
    BY <1>4 DEF BypassUnlocked, classify_unobserved, Empty
  <2>2. l \in B
    BY <2>1 DEF Bypassed
  <2>3. ~Queued(l)
    BY <2>1 DEF Queued
  <2>4. unrelated(l) /\ native[l].at = "closed"
    BY <1>4, <2>2 DEF BypassUnlocked, classify_unobserved, Batch, Free
  <2>5. QED
    BY <2>1, <2>3, <2>4, UnrelatedHasNone DEF unrelated
<1>5. ASSUME NEW B \in SUBSET Lists, Admit(B) PROVE BypassIsObserved'
  <2> SUFFICES ASSUME NEW l \in Lists, seen'[l].how = "clear", past'[l] = "exact"
               PROVE  ~native'[l].effects
    BY DEF BypassIsObserved
  <2>1. UNCHANGED native /\ past' = Overtake(B)
        /\ seen' = IF \A k \in B : unrelated(k) THEN Bypassed(B) ELSE Applied(B)
    BY <1>5 DEF Admit
  <2>2. l \in B
    BY <2>1 DEF Bypassed, Applied, Unasked
  <2>3. ~Queued(l) /\ past[l] = "exact"
    BY <2>1, <2>2 DEF Overtake
  <2>4. native[l].at = "closed"
    BY <1>5, <2>2 DEF Admit, Batch, Free
  <2>5. ~unknown(l) /\ item[l].evidence = {}
    <3>1. CASE \A k \in B : unrelated(k)
      BY <2>2, <3>1 DEF unrelated
    <3>2. CASE ~\A k \in B : unrelated(k)
      <4> DEFINE wiped == \E k \in B : Stale(k)
      <4> HIDE DEF wiped
      <4>1. seen'[l].how =
              CASE wiped -> "wiped"
                [] ~wiped /\ item[l].evidence = {} -> "clear"
                [] ~wiped /\ item[l].evidence # {} ->
                      IF item[l].invalid THEN "wiped" ELSE "applied"
        BY <2>1, <2>2, <3>2 DEF Applied, wiped
      <4>2. ~wiped /\ item[l].evidence = {}
        BY <4>1
      <4>3. QED
        BY <2>2, <4>2 DEF wiped, Stale
    <3>3. QED
      BY <3>1, <3>2
  <2>6. QED
    BY <2>1, <2>3, <2>4, <2>5, UnrelatedHasNone
<1>6. QED
  BY <1>1, <1>2, <1>3, <1>4, <1>5 DEF Next

\* For any lists and ring: a batch forwarded without ordering, lock-free or under the
\* mutex, carries no effects, as long as no entry of its lists was lost to an overflow
\* or overtaken (classify_unobserved, before_submission).
THEOREM BypassedIsUnrelated == Spec => []BypassIsObserved
<1> DEFINE IInv == Typed /\ (\A l \in Lists : Reported(l)) /\ BypassIsObserved
<1>1. Init => IInv
  <2>1. Init => BypassIsObserved
    BY DEF Init, BypassIsObserved, Unasked
  <2>2. QED
    BY <2>1, InitTyped, InitReported
<1>2. IInv /\ [Next]_vars => IInv'
  <2> SUFFICES ASSUME IInv, [Next]_vars PROVE IInv'
    OBVIOUS
  <2>1. Typed'
    BY StepTyped
  <2>2. \A l \in Lists : Reported(l)'
    BY <2>1, StepReported
  <2>3. BypassIsObserved'
    BY StepBypass
  <2>4. QED
    BY <2>1, <2>2, <2>3
<1>3. IInv => BypassIsObserved
  OBVIOUS
<1>4. QED
  BY <1>1, <1>2, <1>3, PTL DEF Spec

(***************************************************************************)
(* Order.  As long as no entry of a list was overtaken, or lost behind a    *)
(* queued Reset: the evidence of the list's object, with the evidence that  *)
(* waits behind the last Reset, is that of its recording; or the item is    *)
(* marked so that a submission discards it, or an overflow that nobody can  *)
(* submit the list before is about to mark it.                              *)
(***************************************************************************)

\* Pending entries of the object that the item is of.
Live(l) == {i \in Pending(l) : ring[i].object = item[l].object}

\* An entry of the list may be lost that no lock holder has accounted for.
Losing(l) ==
    \/ holder.stage \in {"overflow", "taken"}
    \/ lost /\ (holder.stage = "free" \/ l \in holder.late)

Doomed(l) == item[l].invalid \/ item[l].unobserved \/ Losing(l)

Renewing(l) == \E i \in Live(l) : ring[i].kind = "reset"

Current(l) == item[l].object = native[l].object /\ native[l].at # "none"

\* No entry is of a later object, and a Reset that saw the ring idle has none.
Dated(l) ==
    /\ item[l].object <= native[l].object
    /\ \A i \in Pending(l) : ring[i].object <= native[l].object
    /\ native[l].at = "idle" => Pending(l) = {}

\* An item of a destroyed object is about to go, or is discarded.
Orphaned(l) == InOrder(l) /\ item[l].object # 0 /\ ~Current(l) =>
    \/ \E i \in Live(l) : ring[i].kind = "destroy"
    \/ Doomed(l) /\ ~Renewing(l)

\* What waits behind entry n is the evidence of the recording.
Behind(l, n) ==
    /\ \A i \in Pending(l) : i > n =>
          ring[i].kind = "evidence" /\ ring[i].now /\ ring[i].object = native[l].object
    /\ native[l].effects <=> \E i \in Pending(l) : i > n

Exactly(l) ==
    /\ "before" \notin item[l].evidence
    /\ \A i \in Live(l) : ring[i].kind = "evidence" /\ ring[i].now
    /\ native[l].effects <=> "now" \in item[l].evidence \/ Live(l) # {}

Recorded(l) == native[l].at \in {"recording", "closed"}

Faithful(l) == InOrder(l) /\ item[l].object # 0 /\ Current(l) /\ Recorded(l) =>
    \/ \E n \in Live(l) : ring[n].kind = "reset" /\ Behind(l, n)
    \/ ~Renewing(l) /\ (Doomed(l) \/ Exactly(l))

Traced(l) == Dated(l) /\ Orphaned(l) /\ Faithful(l)

(* Steps that leave the list's item and entries as they are, but for the place. *)

LEMMA LiveMoved ==
  ASSUME Typed, NEW l \in Lists, NEW d \in {0, 1}, Moved(l, d),
         item'[l].object = item[l].object
  PROVE  /\ \A i \in Live(l) : i - d \in Live(l)' /\ ring'[i - d].kind = ring[i].kind
         /\ \A i \in Live(l)' : i + d \in Live(l) /\ ring'[i].kind = ring[i + d].kind
         /\ Renewing(l)' <=> Renewing(l)
<1>1. \A i \in Pending(l) : i \in Int /\ i - d + d = i
  BY RingTypes DEF Pending
<1>2. ASSUME NEW i \in Live(l) PROVE i - d \in Live(l)' /\ ring'[i - d].kind = ring[i].kind
  <2>1. i \in Pending(l) /\ ring[i].object = item[l].object
    BY DEF Live
  <2>2. i - d \in Pending(l)' /\ ring'[i - d].kind = ring[i].kind
        /\ ring'[i - d].object = ring[i].object
    BY <1>1, <2>1 DEF Moved
  <2>3. QED
    BY <2>1, <2>2 DEF Live
<1>3. ASSUME NEW i \in Live(l)' PROVE i + d \in Live(l) /\ ring'[i].kind = ring[i + d].kind
  <2>1. i \in Pending(l)' /\ ring'[i].object = item[l].object
    BY DEF Live
  <2>2. QED
    BY <2>1 DEF Moved, Live
<1>4. QED
  BY <1>2, <1>3 DEF Renewing

LEMMA DatedKept ==
  ASSUME Typed, Typed', NEW l \in Lists, NEW d \in {0, 1}, Moved(l, d), Dated(l),
         item'[l].object \in {item[l].object, 0, native'[l].object},
         native'[l].object \in {native[l].object, native[l].object + 1},
         native'[l].at = "idle" => native[l].at = "idle"
  PROVE  Dated(l)'
<1>1. native[l].object \in Nat /\ item[l].object \in Nat
  <2>1. native[l] \in Native /\ item[l] \in Item
    BY DEF Typed, TypeOK
  <2>2. native[l].object \in Objects /\ item[l].object \in Objects
    BY <2>1 DEF Native, Item
  <2>3. QED
    BY <2>2, ListAssumption DEF Objects
<1>2. item'[l].object <= native'[l].object
  BY <1>1 DEF Dated
<1>3. ASSUME NEW i \in Pending(l)' PROVE ring'[i].object <= native'[l].object
  <2>1. i + d \in Pending(l) /\ ring'[i].object = ring[i + d].object
    BY DEF Moved
  <2>2. ring[i + d].object <= native[l].object /\ ring[i + d].object \in Nat
    <3>1. ring[i + d] \in Entry
      BY <2>1, RingTypes DEF Pending
    <3>2. ring[i + d].object \in Objects
      BY <3>1 DEF Entry
    <3>3. QED
      BY <2>1, <3>2, ListAssumption DEF Dated, Objects
  <2>3. QED
    BY <1>1, <2>1, <2>2
<1>4. native'[l].at = "idle" => Pending(l)' = {}
  BY DEF Dated, Moved
<1>5. QED
  BY <1>2, <1>3, <1>4 DEF Dated

LEMMA OrphanedKept ==
  ASSUME Typed, NEW l \in Lists, NEW d \in {0, 1}, Moved(l, d), Orphaned(l),
         InOrder(l)' => InOrder(l), item'[l].object = item[l].object,
         Doomed(l) /\ item[l].object # 0 => Doomed(l)', Current(l) => Current(l)'
  PROVE  Orphaned(l)'
<1> SUFFICES ASSUME InOrder(l)', item[l].object # 0, ~Current(l)'
             PROVE  (\E i \in Live(l)' : ring'[i].kind = "destroy") \/ (Doomed(l)' /\ ~Renewing(l)')
  BY DEF Orphaned
<1>1. (\E i \in Live(l) : ring[i].kind = "destroy") \/ (Doomed(l) /\ ~Renewing(l))
  BY DEF Orphaned
<1>2. QED
  BY <1>1, LiveMoved

LEMMA FaithfulKept ==
  ASSUME Typed, Typed', NEW l \in Lists, NEW d \in {0, 1}, Moved(l, d), Timely(l, d), Faithful(l),
         InOrder(l)' => InOrder(l), item'[l].object = item[l].object,
         item'[l].evidence = item[l].evidence, Doomed(l) /\ item[l].object # 0 => Doomed(l)',
         native'[l].object = native[l].object, native'[l].effects = native[l].effects,
         native[l].at = "none" => native'[l].at = "none", Recorded(l)' => Recorded(l)
  PROVE  Faithful(l)'
<1> SUFFICES ASSUME InOrder(l)', item[l].object # 0, Current(l)', Recorded(l)'
             PROVE  \/ \E n \in Live(l)' : ring'[n].kind = "reset" /\ Behind(l, n)'
                    \/ ~Renewing(l)' /\ (Doomed(l)' \/ Exactly(l)')
  BY DEF Faithful
<1>0. \A i \in Pending(l) : i \in Int
  BY RingTypes DEF Pending
<1>1. \A i \in Pending(l)' : i \in Int
  <2>1. DOMAIN ring' = 1..Len(ring') /\ Len(ring') \in Nat
    BY LenProperties DEF Typed, TypeOK
  <2>2. QED
    BY <2>1 DEF Pending
<1>2. InOrder(l) /\ Current(l) /\ Recorded(l)
  BY DEF Current
<1>3. CASE \E n \in Live(l) : ring[n].kind = "reset" /\ Behind(l, n)
  <2>1. PICK n \in Live(l) : ring[n].kind = "reset" /\ Behind(l, n)
    BY <1>3
  <2>2. n \in Int /\ n - d \in Live(l)' /\ ring'[n - d].kind = "reset"
    BY <1>0, <2>1, LiveMoved DEF Live
  <2>3. ASSUME NEW i \in Pending(l)', i > n - d
        PROVE  /\ i + d \in Pending(l) /\ i + d > n
               /\ ring'[i].kind = "evidence" /\ ring'[i].now /\ ring'[i].object = native'[l].object
    <3>1. i + d \in Pending(l) /\ i + d > n
      BY <1>1, <2>2, <2>3 DEF Moved
    <3>2. ring[i + d].kind = "evidence" /\ ring[i + d].now /\ ring[i + d].object = native[l].object
      BY <2>1, <3>1 DEF Behind
    <3>3. QED
      BY <3>1, <3>2 DEF Moved, Timely
  <2>4. ASSUME NEW i \in Pending(l), i > n PROVE i - d \in Pending(l)' /\ i - d > n - d
    BY <1>0, <2>2, <2>4 DEF Moved
  <2>5. (\E i \in Pending(l)' : i > n - d) <=> (\E i \in Pending(l) : i > n)
    BY <2>3, <2>4
  <2>6. Behind(l, n - d)'
    BY <2>1, <2>3, <2>5 DEF Behind
  <2>7. QED
    BY <2>2, <2>6
<1>4. CASE ~Renewing(l) /\ Doomed(l)
  BY <1>4, LiveMoved
<1>5. CASE ~Renewing(l) /\ Exactly(l)
  <2>1. \A i \in Live(l)' : ring'[i].kind = "evidence" /\ ring'[i].now
    <3> SUFFICES ASSUME NEW i \in Live(l)' PROVE ring'[i].kind = "evidence" /\ ring'[i].now
      OBVIOUS
    <3>1. i + d \in Live(l) /\ ring'[i].kind = ring[i + d].kind
      BY LiveMoved
    <3>2. ring'[i].now = ring[i + d].now
      BY DEF Timely, Live
    <3>3. QED
      BY <1>5, <3>1, <3>2 DEF Exactly
  <2>2. Live(l)' # {} <=> Live(l) # {}
    BY LiveMoved
  <2>3. Exactly(l)'
    BY <1>5, <2>1, <2>2 DEF Exactly
  <2>4. QED
    BY <1>5, <2>3, LiveMoved
<1>6. QED
  BY <1>2, <1>3, <1>4, <1>5 DEF Faithful

LEMMA TracedKept ==
  ASSUME Typed, Typed', NEW l \in Lists, NEW d \in {0, 1}, Moved(l, d), Timely(l, d), Traced(l),
         InOrder(l)' => InOrder(l), item'[l].object = item[l].object,
         item'[l].evidence = item[l].evidence, Doomed(l) /\ item[l].object # 0 => Doomed(l)',
         native'[l] = native[l]
  PROVE  Traced(l)'
<1>1. Current(l)' <=> Current(l)
  BY DEF Current
<1>2. Dated(l)'
  BY DatedKept DEF Traced
<1>3. Orphaned(l)'
  BY <1>1, OrphanedKept DEF Traced
<1>4. Recorded(l)' <=> Recorded(l)
  BY DEF Recorded
<1>5. Faithful(l)'
  BY <1>4, FaithfulKept DEF Traced
<1>6. QED
  BY <1>2, <1>3, <1>5 DEF Traced

LEMMA ApplyTraced ==
  ASSUME Typed, Typed', Apply, NEW l \in Lists, Traced(l) PROVE Traced(l)'
<1> DEFINE e == Head(ring)
<1>1. /\ ring' = ring /\ past' = past /\ native' = native /\ lost' = lost
      /\ holder.stage = "draining" /\ holder'.stage = "applied" /\ holder'.late = holder.late
      /\ e = ring[1] /\ e \in Entry
  BY ApplyEffect
<1>2. item[l] \in Item /\ (e.kind = "reset" \/ e.kind = "destroy" \/ e.kind = "evidence")
  BY <1>1 DEF Typed, TypeOK, Entry, Kinds
<1>3. Losing(l)' <=> Losing(l)
  BY <1>1 DEF Losing
<1>4. CASE l # e.list
  <2>1. Moved(l, 0) /\ Timely(l, 0) /\ item'[l] = item[l]
    BY <1>4, ApplyEffect
  <2>2. Doomed(l) => Doomed(l)'
    BY <1>3, <2>1 DEF Doomed
  <2>3. QED
    BY <1>1, <2>1, <2>2, TracedKept DEF InOrder
<1>5. CASE l = e.list
  <2>1. 1 \in Pending(l) /\ Pending(l)' = Pending(l) \ {1}
    BY <1>5, ApplyEffect
  <2>2. \A i \in Pending(l) : i \in Int /\ i > 0
    BY RingTypes DEF Pending
  <2>3. CASE ForThisObject(e) /\ e.kind = "destroy"
    <3>1. item'[l] = Unregistered
      BY <1>5, <2>3, ApplyEffect
    <3>2. item'[l].object = 0
      BY <3>1 DEF Unregistered, Registered
    <3>3. native[l].object >= 0
      <4>1. native[l].object \in Objects
        BY DEF Typed, TypeOK, Native
      <4>2. QED
        BY <4>1, ListAssumption DEF Objects
    <3>4. \A i \in Pending(l)' : ring'[i].object <= native'[l].object
      BY <1>1, <2>1 DEF Traced, Dated
    <3>5. native'[l].at = "idle" => Pending(l)' = {}
      BY <1>1, <2>1 DEF Traced, Dated
    <3>6. QED
      BY <1>1, <3>2, <3>3, <3>4, <3>5 DEF Traced, Dated, Orphaned, Faithful
  <2>4. CASE ~(ForThisObject(e) /\ e.kind = "destroy")
    <3>1. ForThisObject(e) /\ e.kind = "reset" => item'[l] = Registered(item[l].object, FALSE)
      BY <1>5, ApplyEffect
    <3>2. ForThisObject(e) /\ e.kind = "evidence" =>
              item'[l] = [item[l] EXCEPT !.evidence =
                             item[l].evidence \cup {IF e.now THEN "now" ELSE "before"}]
      BY <1>5, ApplyEffect
    <3>3. ~ForThisObject(e) => item'[l] = item[l]
      BY <1>5, ApplyEffect
    <3>4. ForThisObject(e) /\ e.kind = "reset" =>
              item'[l].object = item[l].object /\ item'[l].evidence = {}
      BY <3>1 DEF Registered
    <3>5. ~(ForThisObject(e) /\ e.kind = "reset") =>
              /\ item'[l].object = item[l].object /\ item'[l].unobserved = item[l].unobserved
              /\ item'[l].invalid = item[l].invalid
      BY <1>2, <2>4, <3>2, <3>3 DEF Item
    <3>6. item'[l].object = item[l].object
      BY <3>4, <3>5
    <3>7. Live(l)' = Live(l) \ {1}
      BY <1>1, <2>1, <3>6 DEF Live
    <3>8. 1 \in Live(l) <=> e.object = item[l].object
      BY <1>1, <2>1 DEF Live
    <3>9. item[l].object # 0 => (1 \in Live(l) <=> ForThisObject(e))
      BY <1>5, <3>8 DEF ForThisObject
    <3>10. ~Renewing(l) /\ Doomed(l) /\ item[l].object # 0 => Doomed(l)'
      <4> SUFFICES ASSUME ~Renewing(l), Doomed(l), item[l].object # 0 PROVE Doomed(l)'
        OBVIOUS
      <4>1. ~(ForThisObject(e) /\ e.kind = "reset")
        BY <1>1, <3>9 DEF Renewing
      <4>2. QED
        BY <1>3, <3>5, <4>1 DEF Doomed
    <3>11. Dated(l)'
      BY <1>1, <2>1, <3>6 DEF Traced, Dated
    <3>12. Orphaned(l)'
      <4> SUFFICES ASSUME InOrder(l), item[l].object # 0, ~Current(l)
                   PROVE  (\E i \in Live(l)' : ring'[i].kind = "destroy") \/ (Doomed(l)' /\ ~Renewing(l)')
        BY <1>1, <3>6 DEF Orphaned, InOrder, Current
      <4>1. CASE \E i \in Live(l) : ring[i].kind = "destroy"
        <5>1. PICK i \in Live(l) : ring[i].kind = "destroy"
          BY <4>1
        <5>2. i # 1
          BY <1>1, <2>4, <3>9, <5>1
        <5>3. QED
          BY <1>1, <3>7, <5>1, <5>2
      <4>2. CASE Doomed(l) /\ ~Renewing(l)
        BY <1>1, <3>7, <3>10, <4>2 DEF Renewing
      <4>3. QED
        BY <4>1, <4>2 DEF Traced, Orphaned
    <3>13. Faithful(l)'
      <4> SUFFICES ASSUME InOrder(l), item[l].object # 0, Current(l), Recorded(l)
                   PROVE  \/ \E n \in Live(l)' : ring'[n].kind = "reset" /\ Behind(l, n)'
                          \/ ~Renewing(l)' /\ (Doomed(l)' \/ Exactly(l)')
        BY <1>1, <3>6 DEF Faithful, InOrder, Current, Recorded
      <4>1. CASE \E n \in Live(l) : n # 1 /\ ring[n].kind = "reset" /\ Behind(l, n)
        <5>1. PICK n \in Live(l) : n # 1 /\ ring[n].kind = "reset" /\ Behind(l, n)
          BY <4>1
        <5>2. n \in Int /\ n > 1
          BY <2>2, <5>1 DEF Live
        <5>3. \A i \in Pending(l)' : i > n => i \in Pending(l)
          BY <2>1
        <5>4. \A i \in Pending(l) : i > n => i \in Pending(l)'
          BY <2>1, <2>2, <5>2
        <5>5. (\E i \in Pending(l)' : i > n) <=> (\E i \in Pending(l) : i > n)
          BY <5>3, <5>4
        <5>6. Behind(l, n)'
          BY <1>1, <5>1, <5>3, <5>5 DEF Behind
        <5>7. QED
          BY <1>1, <3>7, <5>1, <5>6
      <4>2. CASE 1 \in Live(l) /\ ring[1].kind = "reset" /\ Behind(l, 1)
        <5>1. item'[l].evidence = {}
          BY <1>1, <3>4, <3>9, <4>2
        <5>2. \A i \in Pending(l)' : i \in Pending(l) /\ i > 1
          BY <2>1, <2>2
        <5>3. \A i \in Pending(l)' :
                  ring[i].kind = "evidence" /\ ring[i].now /\ ring[i].object = native[l].object
          BY <4>2, <5>2 DEF Behind
        <5>4. Live(l)' = Pending(l)'
          BY <1>1, <3>6, <5>3 DEF Live, Current
        <5>5. native[l].effects <=> Pending(l)' # {}
          BY <2>1, <2>2, <4>2, <5>2 DEF Behind
        <5>6. Exactly(l)'
          BY <1>1, <5>1, <5>3, <5>4, <5>5 DEF Exactly
        <5>7. ~Renewing(l)'
          BY <1>1, <5>3, <5>4 DEF Renewing
        <5>8. QED
          BY <5>6, <5>7
      <4>3. CASE ~Renewing(l) /\ Doomed(l)
        BY <1>1, <3>7, <3>10, <4>3 DEF Renewing
      <4>4. CASE ~Renewing(l) /\ Exactly(l)
        <5>1. ~Renewing(l)'
          BY <1>1, <3>7, <4>4 DEF Renewing
        <5>2. CASE 1 \in Live(l)
          <6>1. ForThisObject(e) /\ e.kind = "evidence" /\ e.now
            BY <1>1, <3>9, <4>4, <5>2 DEF Exactly
          <6>2. item'[l].evidence = item[l].evidence \cup {"now"}
            BY <1>2, <3>2, <6>1 DEF Item
          <6>3. native[l].effects
            BY <4>4, <5>2 DEF Exactly
          <6>4. Exactly(l)'
            BY <1>1, <3>7, <4>4, <6>2, <6>3 DEF Exactly
          <6>5. QED
            BY <5>1, <6>4
        <5>3. CASE 1 \notin Live(l)
          <6>1. item'[l] = item[l] /\ Live(l)' = Live(l)
            BY <3>3, <3>7, <3>9, <5>3
          <6>2. Exactly(l)'
            BY <1>1, <4>4, <6>1 DEF Exactly
          <6>3. QED
            BY <5>1, <6>2
        <5>4. QED
          BY <5>2, <5>3
      <4>5. QED
        BY <4>1, <4>2, <4>3, <4>4 DEF Traced, Faithful
    <3>14. QED
      BY <3>11, <3>12, <3>13 DEF Traced
  <2>5. QED
    BY <2>3, <2>4
<1>6. QED
  BY <1>4, <1>5

LEMMA HolderTraced ==
  ASSUME Typed, Typed', HolderStep \/ Publish, NEW l \in Lists, Traced(l) PROVE Traced(l)'
<1>0. Nobody.stage = "free" /\ holder \in [stage : HolderStages, late : SUBSET Lists]
  BY DEF Nobody, Typed, TypeOK
<1>1. CASE Acquire \/ TakeOverflow \/ InvalidateAll \/ Release
  <2>1. /\ UNCHANGED <<native, ring, past>>
        /\ holder.stage # "applied" /\ holder'.stage # "applied"
    BY <1>0, <1>1 DEF Acquire, TakeOverflow, InvalidateAll, Release, Drained, Goes
  <2>2. item'[l].object = item[l].object /\ item'[l].evidence = item[l].evidence
    BY <1>1 DEF Acquire, TakeOverflow, InvalidateAll, Release, Invalidated, Typed, TypeOK, Item
  <2>3. Moved(l, 0) /\ Timely(l, 0)
    BY <2>1, StayMoved
  <2>4. Doomed(l) /\ item[l].object # 0 => Doomed(l)'
    <3>1. CASE Acquire \/ TakeOverflow
      BY <1>0, <3>1 DEF Acquire, TakeOverflow, Goes, Doomed, Losing
    <3>2. CASE InvalidateAll
      <4>1. item'[l].invalid = (item[l].object # 0)
        BY <3>2 DEF InvalidateAll, Invalidated, Typed, TypeOK, Item
      <4>2. QED
        BY <4>1 DEF Doomed
    <3>3. CASE Release
      BY <1>0, <3>3 DEF Release, Drained, Doomed, Losing
    <3>4. QED
      BY <1>1, <3>1, <3>2, <3>3
  <2>5. QED
    BY <2>1, <2>2, <2>3, <2>4, TracedKept DEF InOrder
<1>2. CASE Apply
  BY <1>2, ApplyTraced
<1>3. CASE Commit
  <2>1. /\ Moved(l, 1) /\ Timely(l, 1) /\ UNCHANGED <<native, item, past, lost>>
        /\ holder.stage = "applied" /\ holder'.stage = "draining" /\ holder'.late = holder.late
    BY <1>0, <1>3, CommitMoved DEF Commit, Goes
  <2>2. Doomed(l) => Doomed(l)'
    BY <2>1 DEF Doomed, Losing
  <2>3. QED
    BY <2>1, <2>2, TracedKept DEF InOrder
<1>4. CASE Publish
  <2>1. Moved(l, 0) /\ Timely(l, 0) /\ UNCHANGED <<native, item, past, lost, holder>>
    BY <1>4, PublishMoved DEF Publish
  <2>2. Doomed(l) => Doomed(l)'
    BY <2>1 DEF Doomed, Losing
  <2>3. QED
    BY <2>1, <2>2, TracedKept DEF InOrder
<1>5. QED
  BY <1>1, <1>2, <1>3, <1>4 DEF HolderStep

LEMMA PushTraced ==
  ASSUME Typed, Typed', NEW a \in Lists, NEW kind \in Kinds, push(a, kind), Contended,
         UNCHANGED item, Traced(a), native'[a].object = native[a].object,
         native'[a].at # "idle", native[a].at # "none",
         kind = "evidence" => Recorded(a) /\ native'[a].effects,
         kind = "reset" => ~native'[a].effects,
         kind = "destroy" <=> native'[a].at = "none"
  PROVE  Traced(a)'
<1>0. native[a].object \in Nat
  <2>1. native[a].object \in Objects
    BY DEF Typed, TypeOK, Native
  <2>2. QED
    BY <2>1, ListAssumption DEF Objects
<1>1. CASE ~Full
  <2>1. UNCHANGED <<lost, past, holder>>
    BY <1>1, PushAppended
  <2>2. PICK n \in Nat : Appended(a, kind, n)
    BY <1>1, PushAppended
  <2>3. /\ Pending(a)' = Pending(a) \cup {n} /\ \A i \in Pending(a) : i < n /\ ring'[i] = ring[i]
        /\ ring'[n].kind = kind /\ ring'[n].object = native[a].object /\ ring'[n].now
    BY <2>2 DEF Appended
  <2>4. \A i \in Pending(a) : i \in Nat /\ i # n
    BY <2>3, RingTypes DEF Pending
  <2>5. item[a].object # native[a].object => Live(a)' = Live(a)
    BY <2>3, <2>4 DEF Live
  <2>6. item[a].object = native[a].object => Live(a)' = Live(a) \cup {n}
    BY <2>3, <2>4 DEF Live
  <2>7. \A i \in Live(a) : ring'[i] = ring[i]
    BY <2>3 DEF Live
  <2>8. Doomed(a)' <=> Doomed(a)
    BY <2>1 DEF Doomed, Losing
  <2>9. Dated(a)'
    BY <1>0, <2>3 DEF Traced, Dated
  <2>10. Orphaned(a)'
    <3> SUFFICES ASSUME InOrder(a), item[a].object # 0, ~Current(a)'
                 PROVE  (\E i \in Live(a)' : ring'[i].kind = "destroy") \/ (Doomed(a)' /\ ~Renewing(a)')
      BY <2>1 DEF Orphaned, InOrder
    <3>1. CASE item[a].object = native[a].object
      <4>1. kind = "destroy"
        BY <3>1 DEF Current
      <4>2. QED
        BY <2>3, <2>6, <3>1, <4>1
    <3>2. CASE item[a].object # native[a].object
      <4>1. (\E i \in Live(a) : ring[i].kind = "destroy") \/ (Doomed(a) /\ ~Renewing(a))
        BY <3>2 DEF Traced, Orphaned, Current
      <4>2. QED
        BY <2>5, <2>7, <2>8, <3>2, <4>1 DEF Renewing
    <3>3. QED
      BY <3>1, <3>2
  <2>11. Faithful(a)'
    <3> SUFFICES ASSUME InOrder(a), item[a].object # 0, Current(a)', Recorded(a)'
                 PROVE  \/ \E k \in Live(a)' : ring'[k].kind = "reset" /\ Behind(a, k)'
                        \/ ~Renewing(a)' /\ (Doomed(a)' \/ Exactly(a)')
      BY <2>1 DEF Faithful, InOrder
    <3>1. item[a].object = native[a].object /\ Current(a) /\ Live(a)' = Live(a) \cup {n}
      BY <2>6 DEF Current
    <3>2. kind = "reset" \/ kind = "evidence"
      BY DEF Kinds, Current
    <3>3. CASE kind = "reset"
      <4>1. \A i \in Pending(a)' : ~(i > n)
        BY <2>3, <2>4
      <4>2. Behind(a, n)'
        BY <3>3, <4>1 DEF Behind
      <4>3. QED
        BY <2>3, <3>1, <3>3, <4>2
    <3>4. CASE kind = "evidence"
      <4>1. Recorded(a) /\ native'[a].effects
        BY <3>4
      <4>2. CASE \E k \in Live(a) : ring[k].kind = "reset" /\ Behind(a, k)
        <5>1. PICK k \in Live(a) : ring[k].kind = "reset" /\ Behind(a, k)
          BY <4>2
        <5>2. k \in Pending(a) /\ k < n /\ k \in Nat /\ ring'[k] = ring[k]
          BY <2>3, <2>4, <5>1 DEF Live
        <5>3. ASSUME NEW i \in Pending(a)', i > k
              PROVE  ring'[i].kind = "evidence" /\ ring'[i].now /\ ring'[i].object = native'[a].object
          <6>1. CASE i = n
            BY <2>3, <3>4, <6>1
          <6>2. CASE i \in Pending(a)
            BY <2>3, <5>1, <5>3, <6>2 DEF Behind
          <6>3. QED
            BY <2>3, <6>1, <6>2
        <5>4. n > k /\ n \in Pending(a)'
          BY <2>3, <5>2
        <5>5. Behind(a, k)'
          BY <4>1, <5>3, <5>4 DEF Behind
        <5>6. QED
          BY <3>1, <5>1, <5>2, <5>5
      <4>3. CASE ~Renewing(a) /\ (Doomed(a) \/ Exactly(a))
        <5>1. ~Renewing(a)'
          BY <2>3, <2>7, <3>1, <3>4, <4>3 DEF Renewing
        <5>2. Exactly(a) => Exactly(a)'
          BY <2>3, <2>7, <3>1, <3>4, <4>1 DEF Exactly
        <5>3. QED
          BY <2>8, <4>3, <5>1, <5>2
      <4>4. QED
        BY <3>1, <4>1, <4>2, <4>3 DEF Traced, Faithful
    <3>5. QED
      BY <3>2, <3>3, <3>4
  <2>12. QED
    BY <2>9, <2>10, <2>11 DEF Traced
<1>2. CASE Full
  <2>1. ring' = ring /\ lost' /\ holder'.stage = holder.stage /\ a \in holder'.late
        /\ (InOrder(a)' => ~ResetQueued(a))
    BY <1>2 DEF push, Typed, TypeOK, InOrder
  <2>2. Pending(a)' = Pending(a)
    BY <2>1 DEF Pending
  <2>3. Live(a)' = Live(a)
    BY <2>1, <2>2 DEF Live
  <2>4. InOrder(a)' => ~Renewing(a)'
    BY <2>1, <2>3 DEF Renewing, ResetQueued, Live, Pending
  <2>5. Doomed(a)'
    BY <2>1 DEF Doomed, Losing
  <2>6. Dated(a)'
    BY <2>1, <2>2 DEF Traced, Dated
  <2>7. QED
    BY <2>4, <2>5, <2>6 DEF Traced, Orphaned, Faithful
<1>3. QED
  BY <1>1, <1>2

(* Another list's entry, or the work of a lock holder that releases the mutex. *)

LEMMA PushDooms ==
  ASSUME Typed, NEW a \in Lists, NEW kind \in Kinds, push(a, kind), NEW l \in Lists
  PROVE  (Losing(l) => Losing(l)') /\ (l # a => (InOrder(l)' => InOrder(l)))
<1>1. holder \in [stage : HolderStages, late : SUBSET Lists] /\ past \in [Lists -> Fates]
  BY DEF Typed, TypeOK
<1>2. CASE ~Full
  BY <1>2 DEF push, Losing, InOrder
<1>3. CASE Full
  BY <1>1, <1>3 DEF push, Losing, InOrder
<1>4. QED
  BY <1>2, <1>3

LEMMA UnlockDooms ==
  ASSUME holder.stage = "draining", holder' = Nobody, lost' = lost, NEW l \in Lists
  PROVE  Losing(l) => Losing(l)'
BY DEF Losing, Nobody

LEMMA OvertakeOrders ==
  ASSUME NEW S \in SUBSET Lists, past' = Overtake(S), NEW l \in Lists
  PROVE  (InOrder(l)' => InOrder(l)) /\ (l \in S /\ InOrder(l)' => Pending(l) = {})
BY DEF InOrder, Overtake, Queued, Pending

\* The other lists' part of a step of list a's threads.
LEMMA OthersTraced ==
  ASSUME Typed, Typed', NEW a \in Lists, ListStep(a), NEW l \in Lists \ {a}, Traced(l)
  PROVE  Traced(l)'
<1>0. Nobody.stage = "free" /\ l # a /\ l \in Lists
  BY DEF Nobody
<1>1. native'[l] = native[l] /\ item'[l] = item[l]
  <2>1. CASE \E registered \in BOOLEAN : Create(a, registered)
    BY <1>0, <2>1 DEF Create, Typed, TypeOK
  <2>2. CASE RecordLocked(a) \/ RecordDeferred(a) \/ RegisterUnobserved(a)
    BY <1>0, <2>2 DEF RecordLocked, RecordDeferred, RegisterUnobserved, Typed, TypeOK
  <2>3. CASE Close(a) \/ ResetSeesIdle(a) \/ ResetFast(a) \/ NativeReset(a)
    BY <1>0, <2>3 DEF Close, ResetSeesIdle, ResetFast, NativeReset, Stage, Typed, TypeOK
  <2>4. CASE ResetLocked(a) \/ ResetDeferred(a)
    BY <1>0, <2>4 DEF ResetLocked, ResetDeferred, Stage, Typed, TypeOK
  <2>5. CASE DestroyLocked(a) \/ DestroyDeferred(a)
    BY <1>0, <2>5 DEF DestroyLocked, DestroyDeferred, Stage, Typed, TypeOK
  <2>6. QED
    BY <2>1, <2>2, <2>3, <2>4, <2>5 DEF ListStep
<1>2. /\ Moved(l, 0) /\ Timely(l, 0) /\ (InOrder(l)' => InOrder(l))
      /\ (Losing(l) => Losing(l)')
  <2>1. ASSUME NEW registered \in BOOLEAN, Create(a, registered)
        PROVE  /\ Moved(l, 0) /\ Timely(l, 0) /\ (InOrder(l)' => InOrder(l))
               /\ (Losing(l) => Losing(l)')
    <3>1. ring' = Aged(a) /\ lost' = lost /\ past'[l] = past[l]
      BY <1>0, <2>1 DEF Create, Typed, TypeOK
    <3>2. \/ holder.stage = "draining" /\ holder' = Nobody
          \/ holder' = holder
      BY <2>1 DEF Create, Drained
    <3>3. (holder'.stage = "applied") <=> (holder.stage = "applied")
      BY <1>0, <3>2
    <3>4. Losing(l) => Losing(l)'
      BY <1>0, <3>1, <3>2, UnlockDooms DEF Losing
    <3>5. QED
      BY <1>0, <3>1, <3>3, <3>4, AgedMoved DEF InOrder
  <2>2. CASE RecordDeferred(a) \/ ResetDeferred(a) \/ DestroyDeferred(a)
    <3>1. PICK kind \in Kinds : push(a, kind)
      BY <2>2 DEF RecordDeferred, ResetDeferred, DestroyDeferred, Kinds
    <3>2. Moved(l, 0) /\ Timely(l, 0)
      BY <1>0, <3>1, PushMoved
    <3>3. QED
      BY <1>0, <3>1, <3>2, PushDooms
  <2>3. CASE RecordLocked(a) \/ RegisterUnobserved(a) \/ ResetLocked(a) \/ DestroyLocked(a)
    <3>1. /\ ring' = ring /\ lost' = lost /\ holder.stage = "draining" /\ holder' = Nobody
      BY <2>3 DEF RecordLocked, RegisterUnobserved, ResetLocked, DestroyLocked, Drained
    <3>2. past'[l] = past[l]
      BY <1>0, <2>3 DEF RecordLocked, RegisterUnobserved, ResetLocked, DestroyLocked, Overtake,
            Typed, TypeOK
    <3>3. Moved(l, 0) /\ Timely(l, 0)
      BY <1>0, <3>1, StayMoved
    <3>4. QED
      BY <1>0, <3>1, <3>2, <3>3, UnlockDooms DEF InOrder
  <2>4. CASE Close(a) \/ ResetSeesIdle(a) \/ ResetFast(a)
    <3>1. UNCHANGED <<ring, lost, past, holder>>
      BY <2>4 DEF Close, ResetSeesIdle, ResetFast
    <3>2. QED
      BY <1>0, <3>1, StayMoved DEF InOrder, Losing
  <2>5. CASE NativeReset(a)
    <3>1. ring' = Aged(a) /\ UNCHANGED <<lost, past, holder>>
      BY <2>5 DEF NativeReset
    <3>2. QED
      BY <1>0, <3>1, AgedMoved DEF InOrder, Losing
  <2>6. QED
    BY <2>1, <2>2, <2>3, <2>4, <2>5 DEF ListStep
<1>3. Doomed(l) => Doomed(l)'
  BY <1>1, <1>2 DEF Doomed
<1>4. QED
  BY <1>0, <1>1, <1>2, <1>3, TracedKept

\* The mutex is held and nothing of the list is pending: what is known of the recording
\* is in the item.
LEMMA SettledTraced ==
  ASSUME Typed, NEW l \in Lists, Dated(l)', InOrder(l)' => Pending(l)' = {},
         InOrder(l)' /\ item'[l].object # 0 /\ ~Current(l)' => Doomed(l)',
         InOrder(l)' /\ item'[l].object # 0 /\ Current(l)' /\ Recorded(l)' =>
            \/ Doomed(l)'
            \/ "before" \notin item'[l].evidence
               /\ (native'[l].effects <=> "now" \in item'[l].evidence)
  PROVE  Traced(l)'
<1>1. InOrder(l)' => Live(l)' = {} /\ ~Renewing(l)'
  BY DEF Live, Renewing
<1>2. QED
  BY <1>1 DEF Traced, Orphaned, Faithful, Exactly

LEMMA ListTraced ==
  ASSUME Typed, Typed', Marks, NEW a \in Lists, ListStep(a), Renewed(a), Traced(a)
  PROVE  Traced(a)'
<1>0. /\ Nobody.stage = "free" /\ holder \in [stage : HolderStages, late : SUBSET Lists]
      /\ item[a] \in Item /\ native[a] \in Native
      /\ native[a].object \in Nat /\ item[a].object \in Nat
  <2>1. item[a] \in Item /\ native[a] \in Native
    BY DEF Typed, TypeOK
  <2>2. native[a].object \in Objects /\ item[a].object \in Objects
    BY <2>1 DEF Native, Item
  <2>3. QED
    BY <2>1, <2>2, ListAssumption DEF Objects, Nobody, Typed, TypeOK
<1>1. ASSUME NEW registered \in BOOLEAN, Create(a, registered) PROVE Traced(a)'
  <2>1. (holder'.stage = "applied") <=> (holder.stage = "applied")
    BY <1>0, <1>1 DEF Create, Drained
  <2>2. Moved(a, 0)
    <3>1. ring' = Aged(a)
      BY <1>1 DEF Create
    <3>2. QED
      BY <2>1, <3>1, AgedMoved
  <2>3. /\ native'[a].object = native[a].object + 1 /\ native'[a].at = "recording"
        /\ ~native'[a].effects /\ native[a].at = "none"
    BY <1>1 DEF Create, Typed, TypeOK
  <2>4. \A i \in Pending(a)' : i + 0 \in Pending(a) /\ ring'[i].object = ring[i + 0].object
    BY <2>2 DEF Moved
  <2>5. CASE registered
    <3>1. item'[a] = Registered(native[a].object + 1, FALSE)
      BY <1>1, <2>5 DEF Create, Typed, TypeOK
    <3>2. item'[a].object = native'[a].object /\ item'[a].evidence = {}
      BY <2>3, <3>1 DEF Registered
    <3>3. Dated(a)'
      BY <2>2, <2>3, <3>2, DatedKept DEF Traced
    <3>4. \A i \in Pending(a)' : ring'[i].object <= native[a].object
      BY <2>4 DEF Traced, Dated
    <3>5. Live(a)' = {}
      BY <1>0, <2>3, <3>2, <3>4 DEF Live
    <3>6. Exactly(a)' /\ ~Renewing(a)' /\ Current(a)'
      BY <2>3, <3>2, <3>5 DEF Exactly, Renewing, Current
    <3>7. QED
      BY <3>3, <3>6 DEF Traced, Orphaned, Faithful
  <2>6. CASE ~registered
    <3>1. item'[a] = AgedItem(a) /\ UNCHANGED <<past, holder, lost>>
      BY <1>1, <2>6 DEF Create, Typed, TypeOK
    <3>2. item'[a].object = item[a].object /\ item'[a].invalid = item[a].invalid
          /\ item'[a].unobserved = item[a].unobserved
      BY <1>0, <3>1 DEF AgedItem, Item
    <3>3. ~Current(a) /\ ~Current(a)'
      BY <1>0, <2>3, <3>2 DEF Traced, Dated, Current
    <3>4. Doomed(a) => Doomed(a)'
      BY <3>1, <3>2 DEF Doomed, Losing
    <3>5. Dated(a)'
      BY <2>2, <2>3, <3>2, DatedKept DEF Traced
    <3>6. Orphaned(a)'
      BY <2>2, <3>1, <3>2, <3>3, <3>4, OrphanedKept DEF Traced, InOrder
    <3>7. QED
      BY <3>3, <3>5, <3>6 DEF Traced, Faithful
  <2>7. QED
    BY <2>5, <2>6
<1>2. CASE RecordLocked(a) \/ RegisterUnobserved(a)
  <2>1. /\ ring' = ring /\ lost' = lost /\ past' = Overtake({a})
        /\ holder.stage = "draining" /\ a \notin holder.late /\ holder' = Nobody
    BY <1>2 DEF RecordLocked, RegisterUnobserved, Drained
  <2>2. Moved(a, 0) /\ Pending(a)' = Pending(a)
    BY <1>0, <2>1, StayMoved
  <2>3. (InOrder(a)' => InOrder(a)) /\ (InOrder(a)' => Pending(a) = {})
    BY <2>1, OvertakeOrders
  <2>4. InOrder(a)' => ~Renewing(a) /\ Live(a) = {}
    BY <2>3 DEF Renewing, Live
  <2>5. ~Losing(a)
    BY <2>1 DEF Losing
  <2>6. native'[a].object = native[a].object /\ native'[a].at = native[a].at
        /\ native[a].at \in {"recording", "closed"}
    <3>1. CASE RecordLocked(a)
      BY <1>0, <3>1 DEF RecordLocked, Free, Typed, TypeOK, Native
    <3>2. CASE RegisterUnobserved(a)
      BY <3>2 DEF RegisterUnobserved, Batch, Free
    <3>3. QED
      BY <1>2, <3>1, <3>2
  <2>7. CASE RecordLocked(a) /\ item[a].object = native[a].object
    <3>1. item'[a] = [item[a] EXCEPT !.evidence = @ \cup {"now"}]
      BY <2>7 DEF RecordLocked, Typed, TypeOK
    <3>2. /\ item'[a].object = item[a].object /\ item'[a].invalid = item[a].invalid
          /\ item'[a].unobserved = item[a].unobserved
          /\ item'[a].evidence = item[a].evidence \cup {"now"}
      BY <1>0, <3>1 DEF Item
    <3>3. native'[a].effects
      BY <2>7 DEF RecordLocked, Typed, TypeOK
    <3>4. Doomed(a) => Doomed(a)'
      BY <2>5, <3>2 DEF Doomed
    <3>5. Current(a) /\ Current(a)' /\ Recorded(a)
      BY <2>6, <2>7, <3>2 DEF Current, Recorded
    <3>6. InOrder(a)' /\ item[a].object # 0 => Doomed(a) \/ "before" \notin item[a].evidence
      BY <2>3, <2>4, <3>5 DEF Traced, Faithful, Exactly
    <3>7. Dated(a)'
      BY <2>2, <2>6, <3>2, DatedKept DEF Traced
    <3>8. QED
      BY <2>2, <2>3, <3>2, <3>3, <3>4, <3>5, <3>6, <3>7, SettledTraced
  <2>8. CASE RecordLocked(a) /\ item[a].object # native[a].object
    <3>1. item' = item
      BY <2>8 DEF RecordLocked
    <3>2. ~Current(a) /\ ~Current(a)'
      BY <2>6, <2>8, <3>1 DEF Current
    <3>3. InOrder(a)' /\ item[a].object # 0 => Doomed(a)
      BY <2>3, <2>4, <3>2 DEF Traced, Orphaned
    <3>4. Doomed(a) => Doomed(a)'
      BY <2>5, <3>1 DEF Doomed
    <3>5. Dated(a)'
      BY <2>2, <2>6, <3>1, DatedKept DEF Traced
    <3>6. QED
      BY <2>2, <2>3, <3>1, <3>2, <3>3, <3>4, <3>5, SettledTraced
  <2>9. CASE RegisterUnobserved(a)
    <3>1. item'[a] = Registered(native[a].object, TRUE) /\ native' = native
      BY <2>9 DEF RegisterUnobserved, Typed, TypeOK
    <3>2. item'[a].object = native'[a].object /\ item'[a].unobserved
      BY <3>1 DEF Registered
    <3>3. Doomed(a)'
      BY <3>2 DEF Doomed
    <3>4. Dated(a)'
      BY <2>2, <2>6, <3>2, DatedKept DEF Traced
    <3>5. QED
      BY <2>2, <2>3, <3>3, <3>4, SettledTraced
  <2>10. QED
    BY <1>2, <2>7, <2>8, <2>9
<1>3. CASE RecordDeferred(a) \/ ResetDeferred(a) \/ DestroyDeferred(a)
  <2>1. CASE RecordDeferred(a)
    <3>1. /\ push(a, "evidence") /\ Contended /\ UNCHANGED item /\ native'[a].effects
          /\ native'[a].object = native[a].object /\ native'[a].at = "recording"
          /\ native[a].at = "recording"
      BY <1>0, <2>1 DEF RecordDeferred, Free, Typed, TypeOK, Native
    <3>2. QED
      BY <3>1, PushTraced DEF Kinds, Recorded
  <2>2. CASE ResetDeferred(a)
    <3>1. /\ push(a, "reset") /\ Contended /\ UNCHANGED item /\ ~native'[a].effects
          /\ native'[a].object = native[a].object /\ native'[a].at = "recording"
          /\ native[a].at \in {"reset", "idle"}
      BY <1>0, <2>2 DEF ResetDeferred, Stage, Typed, TypeOK, Native, Renewed
    <3>2. QED
      BY <3>1, PushTraced DEF Kinds
  <2>3. CASE DestroyDeferred(a)
    <3>1. /\ push(a, "destroy") /\ Contended /\ UNCHANGED item
          /\ native'[a].object = native[a].object /\ native'[a].at = "none"
          /\ native[a].at \in {"recording", "closed"}
      BY <1>0, <2>3 DEF DestroyDeferred, Free, Stage, Typed, TypeOK, Native
    <3>2. QED
      BY <3>1, PushTraced DEF Kinds
  <2>4. QED
    BY <1>3, <2>1, <2>2, <2>3
<1>4. CASE Close(a) \/ ResetSeesIdle(a) \/ ResetFast(a)
  <2>1. /\ UNCHANGED <<item, ring, lost, past, holder>>
        /\ native'[a].object = native[a].object /\ native'[a].effects = native[a].effects
        /\ native[a].at # "none" /\ native'[a].at # "none"
    BY <1>0, <1>4 DEF Close, ResetSeesIdle, ResetFast, Free, Stage, Typed, TypeOK, Native
  <2>2. Moved(a, 0) /\ Timely(a, 0) /\ Pending(a)' = Pending(a)
    BY <2>1, StayMoved
  <2>3. Doomed(a) => Doomed(a)'
    BY <2>1 DEF Doomed, Losing
  <2>4. Current(a)' <=> Current(a)
    BY <2>1 DEF Current
  <2>5. Orphaned(a)'
    BY <2>1, <2>2, <2>3, <2>4, OrphanedKept DEF Traced, InOrder
  <2>6. CASE Close(a)
    <3>1. native[a].at = "recording" /\ native'[a].at = "closed"
      BY <1>0, <2>6 DEF Close, Free, Stage, Typed, TypeOK, Native
    <3>2. Dated(a)'
      BY <2>1, <2>2, <3>1, DatedKept DEF Traced
    <3>3. Faithful(a)'
      BY <2>1, <2>2, <2>3, <3>1, FaithfulKept DEF Traced, InOrder, Recorded
    <3>4. QED
      BY <2>5, <3>2, <3>3 DEF Traced
  <2>7. CASE ResetSeesIdle(a)
    <3>1. native'[a].at = "idle" /\ ring = << >>
      BY <1>0, <2>7 DEF ResetSeesIdle, idle, Empty, Stage, Typed, TypeOK, Native
    <3>2. Pending(a)' = {}
      BY <2>2, <3>1 DEF Pending
    <3>3. Dated(a)'
      BY <2>1, <3>2 DEF Traced, Dated
    <3>4. QED
      BY <2>5, <3>1, <3>3 DEF Traced, Faithful, Recorded
  <2>8. CASE ResetFast(a)
    <3>1. native[a].at = "idle" /\ native'[a].at = "recording" /\ FastReset(a)
      BY <1>0, <2>8 DEF ResetFast, Stage, Typed, TypeOK, Native
    <3>2. Pending(a)' = {} /\ ~native'[a].effects
      BY <2>1, <2>2, <3>1 DEF Traced, Dated, Renewed
    <3>3. item[a].evidence = {}
      <4>1. item[a] = Registered(item[a].object, FALSE)
        BY <3>1 DEF Marks, CleanIsClean, FastReset
      <4>2. QED
        BY <4>1 DEF Registered
    <3>4. Current(a)'
      BY <2>1, <3>1 DEF FastReset, Current
    <3>5. Dated(a)'
      BY <2>1, <2>2, <3>1, DatedKept DEF Traced
    <3>6. QED
      BY <2>1, <3>2, <3>3, <3>4, <3>5, SettledTraced
  <2>9. QED
    BY <1>4, <2>6, <2>7, <2>8
<1>5. CASE NativeReset(a)
  <2>1. /\ ring' = Aged(a) /\ UNCHANGED <<past, holder, lost>> /\ item'[a] = AgedItem(a)
        /\ native'[a].object = native[a].object /\ native'[a].at = "reset"
    BY <1>5 DEF NativeReset, Typed, TypeOK
  <2>2. Moved(a, 0)
    BY <2>1, AgedMoved
  <2>3. item'[a].object = item[a].object /\ item'[a].invalid = item[a].invalid
        /\ item'[a].unobserved = item[a].unobserved
    BY <1>0, <2>1 DEF AgedItem, Item
  <2>4. Doomed(a) => Doomed(a)'
    BY <2>1, <2>3 DEF Doomed, Losing
  <2>5. Current(a) => Current(a)'
    BY <2>1, <2>3 DEF Current
  <2>6. Orphaned(a)'
    BY <2>1, <2>2, <2>3, <2>4, <2>5, OrphanedKept DEF Traced, InOrder
  <2>7. Dated(a)'
    BY <2>1, <2>2, <2>3, DatedKept DEF Traced
  <2>8. QED
    BY <2>1, <2>6, <2>7 DEF Traced, Faithful, Recorded
<1>6. CASE ResetLocked(a) \/ DestroyLocked(a)
  <2>1. /\ ring' = ring /\ lost' = lost
        /\ holder.stage = "draining" /\ a \notin holder.late /\ holder' = Nobody
    BY <1>6 DEF ResetLocked, DestroyLocked, Drained
  <2>2. Moved(a, 0) /\ Pending(a)' = Pending(a)
    BY <1>0, <2>1, StayMoved
  <2>3. Losing(a) => Losing(a)'
    BY <2>1, UnlockDooms
  <2>4. /\ native'[a].object = native[a].object /\ native'[a].at # "idle"
        /\ native'[a].at # "none" => ~native'[a].effects
    BY <1>0, <1>6 DEF ResetLocked, DestroyLocked, Stage, Typed, TypeOK, Native, Renewed
  <2>5. native[a].at # "none"
    BY <1>6 DEF ResetLocked, DestroyLocked, Free
  <2>6. CASE item[a].object # native[a].object
    <3>1. UNCHANGED <<item, past>>
      BY <1>6, <2>6 DEF ResetLocked, DestroyLocked
    <3>2. ~Current(a) /\ ~Current(a)'
      BY <2>4, <2>6, <3>1 DEF Current
    <3>3. Doomed(a) => Doomed(a)'
      BY <2>3, <3>1 DEF Doomed
    <3>4. Dated(a)'
      BY <2>2, <2>4, <3>1, DatedKept DEF Traced
    <3>5. Orphaned(a)'
      BY <2>2, <3>1, <3>2, <3>3, OrphanedKept DEF Traced, InOrder
    <3>6. QED
      BY <3>2, <3>4, <3>5 DEF Traced, Faithful
  <2>7. CASE ResetLocked(a) /\ item[a].object = native[a].object
    <3>1. item'[a] = Registered(item[a].object, FALSE)
      BY <2>7 DEF ResetLocked, retire_native_list, Typed, TypeOK
    <3>2. item'[a].object = item[a].object /\ item'[a].evidence = {}
      BY <3>1 DEF Registered
    <3>3. InOrder(a)' => Pending(a)' = {}
      <4>1. CASE Queued(a)
        <5>1. past' = Overtake({a})
          BY <2>7, <4>1 DEF ResetLocked
        <5>2. QED
          BY <2>2, <5>1, OvertakeOrders
      <4>2. CASE ~Queued(a)
        BY <2>2, <4>2 DEF Queued, Pending
      <4>3. QED
        BY <4>1, <4>2
    <3>4. native'[a].at = "recording" /\ Current(a)'
      BY <1>0, <2>4, <2>7, <3>2 DEF ResetLocked, Stage, Typed, TypeOK, Native, Current
    <3>5. Dated(a)'
      BY <2>2, <2>4, <3>2, DatedKept DEF Traced
    <3>6. QED
      BY <2>4, <3>2, <3>3, <3>4, <3>5, SettledTraced
  <2>8. CASE DestroyLocked(a) /\ item[a].object = native[a].object
    <3>1. item'[a] = Unregistered
      BY <2>8 DEF DestroyLocked, Typed, TypeOK
    <3>2. item'[a].object = 0
      BY <3>1 DEF Unregistered, Registered
    <3>3. Dated(a)'
      BY <2>2, <2>4, <3>2, DatedKept DEF Traced
    <3>4. QED
      BY <3>2, <3>3 DEF Traced, Orphaned, Faithful
  <2>9. QED
    BY <1>6, <2>6, <2>7, <2>8
<1>7. QED
  BY <1>1, <1>2, <1>3, <1>4, <1>5, <1>6 DEF ListStep

LEMMA SubmissionTraced ==
  ASSUME Typed, Typed', NEW B \in SUBSET Lists, BypassUnlocked(B) \/ Admit(B),
         NEW l \in Lists, Traced(l)
  PROVE  Traced(l)'
<1>1. UNCHANGED <<native, item, ring, lost>> /\ (holder'.stage = "applied" <=> holder.stage = "applied")
  BY DEF BypassUnlocked, Admit, Drained, Nobody
<1>2. Moved(l, 0) /\ Timely(l, 0)
  BY <1>1, StayMoved
<1>3. (InOrder(l)' => InOrder(l)) /\ (Losing(l) => Losing(l)')
  <2>1. CASE BypassUnlocked(B)
    BY <2>1 DEF BypassUnlocked, InOrder, Losing
  <2>2. CASE Admit(B)
    <3>1. past' = Overtake(B) /\ holder.stage = "draining" /\ holder' = Nobody
      BY <2>2 DEF Admit, Drained
    <3>2. QED
      BY <1>1, <3>1, OvertakeOrders, UnlockDooms
  <2>3. QED
    BY <2>1, <2>2
<1>4. Doomed(l) => Doomed(l)'
  BY <1>1, <1>3 DEF Doomed
<1>5. QED
  BY <1>1, <1>2, <1>3, <1>4, TracedKept

LEMMA SessionTraced ==
  ASSUME Typed, Typed', reset_session, NEW l \in Lists, Traced(l) PROVE Traced(l)'
<1>1. UNCHANGED <<native, ring, past, holder, lost>>
  BY DEF reset_session
<1>2. item'[l] = [item[l] EXCEPT !.adopted = FALSE] /\ item[l] \in Item
  BY DEF reset_session, Typed, TypeOK
<1>3. item'[l].object = item[l].object /\ item'[l].evidence = item[l].evidence
      /\ item'[l].unobserved = item[l].unobserved /\ item'[l].invalid = item[l].invalid
  BY <1>2 DEF Item
<1>4. Moved(l, 0) /\ Timely(l, 0)
  BY <1>1, StayMoved
<1>5. Doomed(l) => Doomed(l)'
  BY <1>1, <1>3 DEF Doomed, Losing
<1>6. QED
  BY <1>1, <1>3, <1>4, <1>5, TracedKept DEF InOrder

LEMMA InitTraced == Init => \A l \in Lists : Traced(l)
<1> SUFFICES ASSUME Init, NEW l \in Lists PROVE Traced(l)
  OBVIOUS
<1>1. item[l].object = 0 /\ ring = << >>
  BY DEF Init, Unregistered, Registered
<1>2. native[l] = [at |-> "none", object |-> 0, effects |-> FALSE]
  BY DEF Init
<1>3. Pending(l) = {}
  BY <1>1 DEF Pending
<1>4. QED
  BY <1>1, <1>2, <1>3 DEF Traced, Dated, Orphaned, Faithful

LEMMA StepTraced ==
  ASSUME Typed, Typed', Marks, \A l \in Lists : Reported(l) /\ Traced(l), [Next]_vars
  PROVE  \A l \in Lists : Traced(l)'
<1>1. ASSUME UNCHANGED vars, NEW l \in Lists PROVE Traced(l)'
  <2>1. UNCHANGED <<native, item, ring, past, holder, lost>>
    BY <1>1 DEF vars
  <2>2. Moved(l, 0) /\ Timely(l, 0)
    BY <2>1, StayMoved
  <2>3. QED
    BY <2>1, <2>2, TracedKept DEF InOrder, Doomed, Losing
<1>2. ASSUME NEW a \in Lists, ListStep(a), NEW l \in Lists PROVE Traced(l)'
  <2>1. CASE l = a
    BY <1>2, <2>1, ListTraced DEF Reported
  <2>2. CASE l # a
    BY <1>2, <2>2, OthersTraced
  <2>3. QED
    BY <2>1, <2>2
<1>3. QED
  BY <1>1, <1>2, HolderTraced, SubmissionTraced, SessionTraced DEF Next

\* A recording that the lock holder would order with its evidence.
LEMMA AppliedExactly ==
  ASSUME Typed, NEW l \in Lists, Traced(l), InOrder(l), Pending(l) = {}, ~unknown(l),
         ~item[l].invalid, item[l].evidence # {}, native[l].at = "closed",
         holder.stage = "draining", l \notin holder.late
  PROVE  item[l].evidence = (IF native[l].effects THEN {"now"} ELSE {})
<1>1. ~Doomed(l) /\ item[l].object # 0
  BY DEF Doomed, Losing, unknown
<1>2. Live(l) = {}
  BY DEF Live
<1>3. Current(l)
  BY <1>1, <1>2 DEF Traced, Orphaned
<1>4. Exactly(l)
  BY <1>1, <1>2, <1>3 DEF Traced, Faithful, Recorded
<1>5. item[l].evidence \subseteq {"now", "before"}
  BY DEF Typed, TypeOK, Item
<1>6. QED
  BY <1>2, <1>4, <1>5 DEF Exactly

LEMMA QuietApplied ==
  ASSUME seen' = Unasked PROVE AppliedAsRecorded'
BY DEF AppliedAsRecorded, Unasked

LEMMA StepApplied ==
  ASSUME Typed, \A l \in Lists : Traced(l), AppliedAsRecorded, [Next]_vars
  PROVE  AppliedAsRecorded'
<1>1. CASE UNCHANGED vars
  BY <1>1 DEF vars, AppliedAsRecorded, InOrder
<1>2. CASE HolderStep \/ Publish \/ reset_session
  BY <1>2, QuietApplied DEF HolderStep, Acquire, TakeOverflow, InvalidateAll, Apply, Commit,
        Release, Publish, reset_session, Quiet
<1>3. CASE \E l \in Lists : ListStep(l)
  BY <1>3, QuietApplied DEF ListStep, Create, RecordLocked, RecordDeferred, Close, NativeReset,
        ResetSeesIdle, ResetFast, ResetLocked, ResetDeferred, DestroyLocked, DestroyDeferred,
        RegisterUnobserved, Quiet
<1>4. ASSUME NEW B \in SUBSET Lists, BypassUnlocked(B) PROVE AppliedAsRecorded'
  <2>1. \A l \in Lists : seen'[l].how # "applied"
    BY <1>4 DEF BypassUnlocked, Bypassed
  <2>2. QED
    BY <2>1 DEF AppliedAsRecorded
<1>5. ASSUME NEW B \in SUBSET Lists, Admit(B) PROVE AppliedAsRecorded'
  <2> SUFFICES ASSUME NEW l \in Lists, seen'[l].how = "applied", InOrder(l)'
               PROVE  seen'[l].as = (IF native'[l].effects THEN {"now"} ELSE {})
    BY DEF AppliedAsRecorded
  <2>1. /\ UNCHANGED native /\ past' = Overtake(B) /\ holder.stage = "draining"
        /\ B \cap holder.late = {}
    BY <1>5 DEF Admit, Drained
  <2>2. seen' = Applied(B)
    <3>1. \A k \in Lists : Bypassed(B)[k].how # "applied"
      BY DEF Bypassed
    <3>2. seen' = Bypassed(B) \/ seen' = Applied(B)
      BY <1>5 DEF Admit
    <3>3. QED
      BY <3>1, <3>2
  <2>3. l \in B
    BY <2>2 DEF Applied, Unasked
  <2> DEFINE wiped == \E k \in B : Stale(k)
  <2> HIDE DEF wiped
  <2>4. seen'[l] =
          [how |-> CASE wiped -> "wiped"
                     [] ~wiped /\ item[l].evidence = {} -> "clear"
                     [] ~wiped /\ item[l].evidence # {} ->
                           IF item[l].invalid THEN "wiped" ELSE "applied",
           as |-> item[l].evidence]
    BY <2>2, <2>3 DEF Applied, wiped
  <2>5. ~wiped /\ item[l].evidence # {} /\ ~item[l].invalid /\ seen'[l].as = item[l].evidence
    <3>1. CASE wiped
      BY <2>4, <3>1
    <3>2. CASE ~wiped /\ item[l].evidence = {}
      BY <2>4, <3>2
    <3>3. CASE ~wiped /\ item[l].evidence # {}
      BY <2>4, <3>3
    <3>4. QED
      BY <3>1, <3>2, <3>3
  <2>6. ~unknown(l)
    BY <2>3, <2>5 DEF wiped, Stale
  <2>7. native[l].at = "closed"
    BY <1>5, <2>3 DEF Admit, Batch, Free
  <2>8. InOrder(l) /\ Pending(l) = {}
    BY <2>1, <2>3, OvertakeOrders
  <2>9. item[l].evidence = (IF native[l].effects THEN {"now"} ELSE {})
    BY <2>1, <2>3, <2>5, <2>6, <2>7, <2>8, AppliedExactly
  <2>10. QED
    BY <2>1, <2>5, <2>9
<1>6. QED
  BY <1>1, <1>2, <1>3, <1>4, <1>5 DEF Next

\* For any lists and ring: a recording that is ordered with its evidence is ordered with
\* all of it and with none of an earlier recording's, whatever overflow, drain, Reset or
\* reused address came between, unless an entry of its list was overtaken or lost behind
\* a queued Reset (SceneCaptureManager::before_submission, apply_deferred_work).
THEOREM AppliedIsRecorded == Spec => []AppliedAsRecorded
<1> DEFINE IInv == Typed /\ Marks /\ (\A l \in Lists : Reported(l) /\ Traced(l))
                   /\ AppliedAsRecorded
<1>1. Init => IInv
  <2>1. Init => AppliedAsRecorded
    BY DEF Init, AppliedAsRecorded, Unasked
  <2>2. QED
    BY <2>1, InitTyped, InitMarks, InitReported, InitTraced
<1>2. IInv /\ [Next]_vars => IInv'
  <2> SUFFICES ASSUME IInv, [Next]_vars PROVE IInv'
    OBVIOUS
  <2>1. Typed'
    BY StepTyped
  <2>2. Marks'
    BY StepMarks
  <2>3. \A l \in Lists : Reported(l)'
    BY <2>1, StepReported
  <2>4. \A l \in Lists : Traced(l)'
    BY <2>1, StepTraced
  <2>5. AppliedAsRecorded'
    BY StepApplied
  <2>6. QED
    BY <2>1, <2>2, <2>3, <2>4, <2>5
<1>3. IInv => AppliedAsRecorded
  OBVIOUS
<1>4. QED
  BY <1>1, <1>2, <1>3, PTL DEF Spec
=============================================================================

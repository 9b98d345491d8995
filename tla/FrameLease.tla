----------------------------- MODULE FrameLease -----------------------------
(***************************************************************************)
(* What the capture manager promises of its snapshot textures               *)
(* (graphics/scene_capture_manager.hpp): "Each returned frame is leased     *)
(* exactly once, after successful native Reset or destruction retires its   *)
(* application recording, all receipts return, and its producer fence       *)
(* completes", and what follows for the texture itself: no list that copies *)
(* into it is queued while a frame in it is out or it is free to be used    *)
(* again, and no reader is queued when it is used again.                    *)
(*                                                                          *)
(* CaptureSubmission implements this with its packets as the textures.      *)
(***************************************************************************)
CONSTANT Textures

VARIABLE
    slot    \* per texture: the life of the frame in it, whether a list that copies
            \* into it or private work that reads it is queued on the GPU, and
            \* whether the queued work is in the order the receipts say

Stages == {"free", "recorded", "handed", "spent", "lost"}

Slot == [frame : Stages, writing : BOOLEAN, reading : BOOLEAN, trusted : BOOLEAN]

TypeOK == slot \in [Textures -> Slot]

Fresh == [frame |-> "free", writing |-> FALSE, reading |-> FALSE, trusted |-> TRUE]

Init == slot = [t \in Textures |-> Fresh]

-----------------------------------------------------------------------------
(* The steps of one texture, from s to n. *)

NotWritten(s) == s.trusted => ~s.writing
NotRead(s) == s.trusted => ~s.reading
Becomes(s, n, stage) == n = [s EXCEPT !.frame = stage]

\* A copy into the texture is recorded, also into one returned in the same step.
Record(s, n) ==
    s.frame \in {"free", "spent"} /\ NotWritten(s) /\ NotRead(s) /\ Becomes(s, n, "recorded")

\* A list with the copy is queued; those of a lost frame may still be.
Execute(s, n) == s.frame \in {"recorded", "lost"} /\ n = [s EXCEPT !.writing = TRUE]

\* The last queued copy, or the last reader, has run.
Written(s, n) == s.writing /\ n = [s EXCEPT !.writing = FALSE]
WasRead(s, n) == s.reading /\ n = [s EXCEPT !.reading = FALSE]

\* The frame is leased to the consumer, once.
Hand(s, n) == s.frame = "recorded" /\ NotWritten(s) /\ Becomes(s, n, "handed")

Consume(s, n) == s.frame \in {"handed", "lost"} /\ n = [s EXCEPT !.reading = TRUE]

\* The consumer is done, or no consumer wants the frame.
Spend(s, n) == s.frame \in {"recorded", "handed"} /\ NotWritten(s) /\ Becomes(s, n, "spent")

\* The texture may be used again; also one whose copy was never submitted.
Return(s, n) ==
    s.frame \in {"spent", "recorded"} /\ NotWritten(s) /\ NotRead(s) /\ Becomes(s, n, "free")

\* Quarantined for good, in whatever state the work is.
Lose(s, n) == s.frame # "free" /\ Becomes(s, n, "lost")

Distrust(s, n) == n = [s EXCEPT !.trusted = FALSE]

Step(s, n) ==
    \/ Record(s, n) \/ Execute(s, n) \/ Written(s, n) \/ WasRead(s, n)
    \/ Hand(s, n) \/ Consume(s, n) \/ Spend(s, n) \/ Return(s, n)
    \/ Lose(s, n) \/ Distrust(s, n)

\* A step of the manager may move several textures.
Next ==
    /\ slot' = [t \in Textures |-> slot'[t]]
    /\ \A t \in Textures : slot'[t] = slot[t] \/ Step(slot[t], slot'[t])

Spec == Init /\ [][Next]_slot

-----------------------------------------------------------------------------
\* No frame is read while it is being written, and no texture is used again
\* under its readers or writers.
Exclusive ==
    \A t \in Textures :
        slot[t].trusted =>
            /\ slot[t].frame \in {"free", "handed", "spent"} => ~slot[t].writing
            /\ slot[t].frame \in {"free", "recorded"} => ~slot[t].reading
=============================================================================

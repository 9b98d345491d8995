------------------------- MODULE MCCaptureSubmission -------------------------
(***************************************************************************)
(* An instance of CaptureSubmission for TLC: two recorded lists, each with   *)
(* its own thread, two simulator queues and the bridge's.                    *)
(***************************************************************************)
EXTENDS CaptureSubmission, TLC

CONSTANTS a, b, p1, p2, x, y

TwoLists == {a, b}
OneList == {a}
OnePacket == {p1}
TwoPackets == {p1, p2}
TwoQueues == {x, y}

\* Lists, queues and packets are interchangeable.
Interchangeable == Permutations(TwoLists) \cup Permutations(TwoQueues)
                       \cup Permutations(TwoPackets)
=============================================================================

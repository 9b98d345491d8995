-------------------------- MODULE MCSubmissionPool --------------------------
(***************************************************************************)
(* An instance of SubmissionPool for TLC.  Two packets hold one full plan  *)
(* (a restore and the save behind it); a third copy then finds the pool    *)
(* full.  The packets are interchangeable, but symmetry is not used: the   *)
(* run checks liveness too.                                                *)
(***************************************************************************)
EXTENDS SubmissionPool

CONSTANTS p1, p2

TwoPackets == {p1, p2}
=============================================================================

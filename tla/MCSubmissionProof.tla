-------------------------- MODULE MCSubmissionProof --------------------------
(***************************************************************************)
(* An instance of SubmissionProof for TLC.  The sites of a call do not     *)
(* depend on how its rows reached the registry: a Close that misses the    *)
(* registry's lock is explored with calls of one list.                     *)
(***************************************************************************)
EXTENDS SubmissionProof

NoContention == registry.deferred = << >> /\ ~registry.lost
OneListUnderContention == NoContention \/ Len(batch) = 0 \/ (Len(batch) = 1 /\ ~Open)
=============================================================================

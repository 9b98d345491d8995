--------------------------- MODULE MCListEvidence ---------------------------
(***************************************************************************)
(* An instance of ListEvidence for TLC: two lists, each recorded by its own *)
(* thread, and a ring of two entries.  "b" is destroyed once and its address *)
(* used again.                                                              *)
(***************************************************************************)
EXTENDS ListEvidence

CONSTANTS a, b

TwoLists == {a, b}
Second == {b}
=============================================================================

--------------------------- MODULE MCSceneHandoff ---------------------------
(***************************************************************************)
(* A small instance of SceneHandoff: two feeds, two addresses, one device, *)
(* two inspections at a time and one copy callback; inspections read a     *)
(* correct pair, another pair of entries and a malformed one.              *)
(***************************************************************************)
EXTENDS SceneHandoff, TLC

CONSTANTS h1, h2, m1, e1, e2, e3

Pair(manager, i, j, g, h) ==
  [manager |-> manager, ids |-> (0 :> i @@ 1 :> j), handles |-> (0 :> g @@ 1 :> h)]

MCGraphs == {Pair(m1, e1, e2, h1, h2), Pair(m1, e1, e3, h1, h2), Pair(m1, e1, e2, h1, h1)}

\* Both addresses registered, one of them a second time under a held match; two
\* scenes; two overlapping captures.
MCLimits == ("device_counter" :> 1 @@ "resource_counter" :> 3 @@ "lifecycle_epoch" :> 5 @@
             "scene_epoch" :> 2 @@ "capture_sequence" :> 2)

\* Nothing tells two inspections apart.
ObserverSymmetry == Permutations(Observers)
=============================================================================

-------------------------- MODULE MCStallWatchdog --------------------------
(***************************************************************************)
(* Instances of StallWatchdog for TLC: which states the pilot and the      *)
(* simulator move between in each run.                                     *)
(***************************************************************************)
EXTENDS StallWatchdog

Quiet == [connected |-> TRUE, button |-> FALSE, manual |-> FALSE, door |-> FALSE,
          ready |-> TRUE, fresh |-> TRUE, changing |-> FALSE, flowing |-> FALSE]

\* The door camera alone or with a preview, a stale button reading before readiness,
\* an aircraft change, disconnected.
TimingWorlds ==
    {Quiet, [Quiet EXCEPT !.connected = FALSE],
     [Quiet EXCEPT !.door = TRUE], [Quiet EXCEPT !.manual = TRUE, !.door = TRUE],
     [Quiet EXCEPT !.button = TRUE, !.ready = FALSE, !.fresh = FALSE],
     [Quiet EXCEPT !.manual = TRUE, !.changing = TRUE]}

\* The button's request with frames that flow, its reading gone stale, and no
\* request.
HoldWorlds ==
    {Quiet, [Quiet EXCEPT !.button = TRUE, !.flowing = TRUE],
     [Quiet EXCEPT !.button = TRUE, !.fresh = FALSE]}
=============================================================================

---------------------------- MODULE MCTaxiButton ----------------------------
(***************************************************************************)
(* Instances of TaxiButton for TLC: one button, or two with the shortcut   *)
(* of both.                                                                *)
(***************************************************************************)
EXTENDS TaxiButton

CONSTANTS left, right

One == {left}
OneAction == {{left}}
Two == {left, right}
TwoActions == {{left}, {left, right}}
=============================================================================

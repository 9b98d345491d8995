---------------------------- MODULE MCCameraPair ----------------------------
(***************************************************************************)
(* An instance of CameraPair for TLC: more views than retirement slots, and  *)
(* entries for two pairs.                                                    *)
(***************************************************************************)
EXTENDS CameraPair
=============================================================================

---------------------------- MODULE MCGcTrigger ----------------------------
(***************************************************************************)
(* Model checking of GcTrigger.                                            *)
(***************************************************************************)
EXTENDS GcTrigger
=============================================================================

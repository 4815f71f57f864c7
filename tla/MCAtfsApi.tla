----------------------------- MODULE MCAtfsApi -----------------------------
(***************************************************************************)
(* Model checking of AtfsApi.                                              *)
(***************************************************************************)
EXTENDS AtfsApi
=============================================================================

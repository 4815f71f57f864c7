------------------------------- MODULE MCBoot -------------------------------
(***************************************************************************)
(* Model checking of Boot: two threads of one process, and a second        *)
(* process.                                                                *)
(***************************************************************************)
EXTENDS Boot

CONSTANTS p1, p2

MCThread == {<<p1, 1>>, <<p1, 2>>, <<p2, 1>>}
=============================================================================

---------------------------- MODULE MCFileData ----------------------------
(***************************************************************************)
(* Model checking of FileData: the offset stays within one byte of the     *)
(* file, or of the end of a u64.                                           *)
(***************************************************************************)
EXTENDS FileData

OffsetInReach == file_off \in 0..(FileBytes + 1) \cup (U64 - 2)..(U64 - 1)
=============================================================================

------------------------------ MODULE MCUpdate ------------------------------
(***************************************************************************)
(* A small instance of Update: two versions, one hook, and a request the   *)
(* hook may make within another.                                           *)
(***************************************************************************)
EXTENDS Update

MCBinaries == [version: Versions, part: {"whole", "cut"}]
=============================================================================

----------------------------- MODULE MCStorage -----------------------------
(***************************************************************************)
(* A small instance of Storage: two sizes, so that a process may be set up *)
(* with more or less than an earlier one committed.                        *)
(***************************************************************************)
EXTENDS Storage

MCArrays == {<<1>>, <<1, 0>>}
=============================================================================

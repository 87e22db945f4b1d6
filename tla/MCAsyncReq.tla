----------------------------- MODULE MCAsyncReq -----------------------------
(***************************************************************************)
(* AsyncReq on small instances.  Worker objects are interchangeable.       *)
(***************************************************************************)
EXTENDS AsyncReq, TLC

Symmetry == Permutations(Workers)

=============================================================================

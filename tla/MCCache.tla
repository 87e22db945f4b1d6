------------------------------ MODULE MCCache ------------------------------
(***************************************************************************)
(* Cache on small instances.                                               *)
(***************************************************************************)
EXTENDS Cache

=============================================================================

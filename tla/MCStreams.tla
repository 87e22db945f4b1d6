----------------------------- MODULE MCStreams -----------------------------
(***************************************************************************)
(* Streams on a small instance.                                            *)
(***************************************************************************)
EXTENDS Streams

CONSTANTS c1, c2

\* One channel fills the ring and has requests waiting, the other one interferes.
MCMaxBytes == (c1 :> 3) @@ (c2 :> 1) @@ ("process" :> 4)

=============================================================================

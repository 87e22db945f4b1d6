---------------------------- MODULE MCEventQueue ----------------------------
(***************************************************************************)
(* EventQueue on small instances: nodes are numbers, NoNode is below them. *)
(***************************************************************************)
EXTENDS EventQueue, TLC

MCPool  == 1..2
MCPool1 == 1..1
MCHeap  == 3..8
MCExit  == 0
MCNull  == -1
MCSym   == Permutations(Threads)

=============================================================================

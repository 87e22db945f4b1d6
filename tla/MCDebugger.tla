----------------------------- MODULE MCDebugger -----------------------------
(* Instances of Debugger for TLC. *)
EXTENDS Debugger

CONSTANTS t1, t2, p1

MCPair == [c \in {t1, t2} |-> p1]
=============================================================================

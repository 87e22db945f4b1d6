---------------------------- MODULE MCDiscovery ----------------------------
(* An instance of Discovery for TLC: two agents on one host, a third on       *)
(* another, that act in turn.                                                 *)
EXTENDS Discovery

CONSTANTS a1, a2, a3, h1, h2

MCHostOf == [a \in Agents |-> IF a = a3 THEN h2 ELSE h1]
MCRank   == [a \in Agents |-> CASE a = a1 -> 1 [] a = a2 -> 2 [] a = a3 -> 3]
=============================================================================

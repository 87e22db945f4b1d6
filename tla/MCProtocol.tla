----------------------------- MODULE MCProtocol -----------------------------
(***************************************************************************)
(* Protocol on a small instance: the client sends two commands and two     *)
(* redirects, which the server carries out or relays.                      *)
(***************************************************************************)
EXTENDS Protocol

\* All commands are the client's.
MCOrigin == [c \in Cmds |-> "client"]

\* The connection of the proxy to the agent.
MCBreakable == {{"target", "agent"}}

=============================================================================

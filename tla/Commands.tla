------------------------------ MODULE Commands ------------------------------
(***************************************************************************)
(* What agent/tcf/framework/protocol.c promises to the sender of commands: *)
(* the handler of a command is called exactly once, either with the answer *)
(* to that very command or with an error.                                  *)
(*                                                                         *)
(* This is the abstract specification that Protocol implements.            *)
(***************************************************************************)
EXTENDS Sequences

CONSTANT Cmds       \* the commands

VARIABLES
    issued,         \* the commands for which protocol_send_command() was called
    calls           \* what the handler of each command was called with, in order

\* The handler's argument: the reply, a rejection, or an error made up locally.
Answers == {"reply", "rejected", "closed"}

AbsInit == issued = {} /\ calls = [c \in Cmds |-> <<>>]

\* The handler of c is called, for the first time.
Concludes(c) ==
    /\ c \in issued'
    /\ calls[c] = <<>>
    /\ \E a \in Answers : calls'[c] = <<a>>

\* One step of the program may send several commands and conclude several others.
AbsNext ==
    /\ issued \subseteq issued'
    /\ calls' = [c \in Cmds |-> calls'[c]]
    /\ \A c \in Cmds : calls'[c] = calls[c] \/ Concludes(c)

Waiting(c) == c \in issued /\ calls[c] = <<>>

AbsSpec == AbsInit /\ [][AbsNext]_<<issued, calls>>

\* No sender waits for ever.
AbsFairSpec == AbsSpec /\ \A c \in Cmds : Waiting(c) ~> ~Waiting(c)

=============================================================================

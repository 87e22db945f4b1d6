------------------------------ MODULE Shutdown ------------------------------
(***************************************************************************)
(* The shutdown manager of agent/tcf/framework/shutdown.c.                 *)
(*                                                                         *)
(* Subsystems register a ShutdownInfo object.  After shutdown_start() each *)
(* registered object is notified, stops when it can, and the loop is       *)
(* cancelled once none is left.  All of it runs on the dispatch thread; a  *)
(* call is one action, and notify_all() is interrupted by its callbacks.   *)
(***************************************************************************)
EXTENDS Naturals, Sequences

CONSTANTS
    Objs,           \* the ShutdownInfo objects
    NoObj,          \* the head of the list shutdown_active
    Renewable       \* the objects that call shutdown_set_normal() while PENDING, as the
                    \* channels do when one is created during a shutdown

ASSUME ShutdownAssumption ==
    /\ NoObj \notin Objs
    /\ Renewable \subseteq Objs

VARIABLES
    state,          \* ShutdownInfo.state
    shutdown_active,            \* the objects that are not STOPPED, in list order
    shutdown_complete_handler,  \* TRUE once shutdown_start() has set it
    notify_pending,
    notify_events,  \* how many notify_all events are in the event queue
    sdpc,           \* where the dispatch thread is, as far as this module can tell
    cur,            \* the object whose notify() callback runs, or NoObj
    next            \* the cursor of notify_all(): the next object to visit, or NoObj

sdvars == <<state, shutdown_active, shutdown_complete_handler, notify_pending,
            notify_events, sdpc, cur, next>>

-----------------------------------------------------------------------------

States == {"STOPPED", "NORMAL", "PENDING"}

Active == {shutdown_active[i] : i \in 1..Len(shutdown_active)}

\* list_remove(): the neighbours of o are linked to each other.
Unlink(q, o) ==
    IF \A k \in 1..Len(q) : q[k] # o THEN q
    ELSE LET i == CHOOSE k \in 1..Len(q) : q[k] = o
         IN  SubSeq(q, 1, i - 1) \o SubSeq(q, i + 1, Len(q))

\* The list link that follows o.
Follower(o, n) ==
    \E i \in 1..Len(shutdown_active) :
        /\ shutdown_active[i] = o
        /\ n = IF i = Len(shutdown_active) THEN NoObj ELSE shutdown_active[i + 1]

\* Variant: notify_pending is not looked at.
SetStopped_AlwaysPost(o) ==
    /\ state[o] # "STOPPED"
    /\ state' = [state EXCEPT ![o] = "STOPPED"]
    /\ shutdown_active' = Unlink(shutdown_active, o)
    /\ IF shutdown_complete_handler
         THEN notify_pending' = TRUE /\ notify_events' = notify_events + 1
         ELSE UNCHANGED <<notify_pending, notify_events>>

\* shutdown_set_stopped() on an object that is not STOPPED.
SetStopped(o) ==
    /\ state[o] # "STOPPED"
    /\ state' = [state EXCEPT ![o] = "STOPPED"]
    /\ shutdown_active' = Unlink(shutdown_active, o)
    /\ IF shutdown_complete_handler /\ ~notify_pending
         THEN notify_pending' = TRUE /\ notify_events' = notify_events + 1
         ELSE UNCHANGED <<notify_pending, notify_events>>

\* shutdown_set_normal() on an object that is not NORMAL.
SetNormal(o) ==
    /\ state[o] # "NORMAL"
    /\ state' = [state EXCEPT ![o] = "NORMAL"]
    /\ shutdown_active' = IF state[o] = "STOPPED" THEN Append(shutdown_active, o)
                                                  ELSE shutdown_active

-----------------------------------------------------------------------------

\* shutdown_start() the first time (a call after that returns 1 and changes nothing).
ShutdownStart ==
    /\ sdpc = "loop"
    /\ ~notify_pending
    /\ ~shutdown_complete_handler
    /\ shutdown_complete_handler' = TRUE
    /\ notify_pending' = TRUE
    /\ notify_events' = notify_events + 1
    /\ UNCHANGED <<state, shutdown_active, sdpc, cur, next>>

\* notify_all() is dispatched: cancel the loop, or walk the list.
NotifyAll ==
    /\ sdpc = "loop" /\ notify_events > 0
    /\ notify_events' = notify_events - 1
    /\ notify_pending' = FALSE
    /\ IF shutdown_active = <<>>
         THEN sdpc' = "stopped" /\ UNCHANGED next
         ELSE sdpc' = "notify" /\ next' = Head(shutdown_active)
    /\ UNCHANGED <<state, shutdown_active, shutdown_complete_handler, cur>>

\* One round of the walk: a NORMAL object becomes PENDING and is called back.
NotifyOne ==
    /\ sdpc = "notify" /\ next # NoObj
    /\ \E n \in Objs \cup {NoObj} : Follower(next, n) /\ next' = n
    /\ IF state[next] = "NORMAL"
         THEN /\ state' = [state EXCEPT ![next] = "PENDING"]
              /\ sdpc' = "callback" /\ cur' = next
         ELSE UNCHANGED <<state, sdpc, cur>>
    /\ UNCHANGED <<shutdown_active, shutdown_complete_handler, notify_pending,
                   notify_events>>

\* The callback returns to the walk.
CallbackReturn ==
    /\ sdpc = "callback"
    /\ sdpc' = "notify" /\ cur' = NoObj
    /\ UNCHANGED <<state, shutdown_active, shutdown_complete_handler, notify_pending,
                   notify_events, next>>

NotifyDone ==
    /\ sdpc = "notify" /\ next = NoObj
    /\ sdpc' = "loop"
    /\ UNCHANGED <<state, shutdown_active, shutdown_complete_handler, notify_pending,
                   notify_events, cur, next>>

\* A subsystem starts, from an event handler or from the callback of another one.
Register(o) ==
    /\ sdpc \in {"loop", "callback"}
    /\ state[o] = "PENDING" => o \in Renewable
    /\ SetNormal(o)
    /\ UNCHANGED <<shutdown_complete_handler, notify_pending, notify_events, sdpc, cur, next>>

\* A subsystem has stopped: in its own callback, or in a later event handler.
Stop(o) ==
    /\ sdpc = "loop" \/ (sdpc = "callback" /\ cur = o)
    /\ SetStopped(o)
    /\ UNCHANGED <<shutdown_complete_handler, sdpc, cur, next>>

-----------------------------------------------------------------------------

SdInit ==
    /\ state = [o \in Objs |-> "STOPPED"]
    /\ shutdown_active = <<>>
    /\ shutdown_complete_handler = FALSE
    /\ notify_pending = FALSE
    /\ notify_events = 0
    /\ sdpc = "loop" /\ cur = NoObj /\ next = NoObj

\* The steps of notify_all().
NotifyStep == NotifyAll \/ NotifyOne \/ CallbackReturn \/ NotifyDone

SdNext ==
    \/ ShutdownStart
    \/ NotifyStep
    \/ \E o \in Objs : Register(o) \/ Stop(o)

SdSpec == SdInit /\ [][SdNext]_sdvars

-----------------------------------------------------------------------------
(***************************************************************************)
(* Properties                                                              *)
(***************************************************************************)

\* Every variable has its type.
SdTypeOK ==
    /\ state \in [Objs -> States]
    /\ shutdown_active \in Seq(Objs)
    /\ shutdown_complete_handler \in BOOLEAN
    /\ notify_pending \in BOOLEAN
    /\ notify_events \in Nat
    /\ sdpc \in {"loop", "notify", "callback", "stopped"}
    /\ cur \in Objs \cup {NoObj} /\ next \in Objs \cup {NoObj}

\* shutdown_active holds every object that is not STOPPED, once, and the cursor of
\* notify_all() never stands on an object that has left the list: list_remove() links
\* such an object to itself, and the walk would not end.
ActiveList ==
    /\ \A o \in Objs : o \in Active <=> state[o] # "STOPPED"
    /\ \A i, j \in 1..Len(shutdown_active) : shutdown_active[i] = shutdown_active[j] => i = j
    /\ sdpc \in {"notify", "callback"} /\ next # NoObj => next \in Active

\* A notify_all event is in the queue exactly while notify_pending is set: the
\* assertion in notify_all() holds and the event is never queued twice.
OneNotification == notify_events = IF notify_pending THEN 1 ELSE 0

\* No shutdown is forgotten: between events, when no notify_all is on its way, some
\* object has been notified and will report, or has asked for another notification.
NotForgotten ==
    shutdown_complete_handler /\ sdpc = "loop" /\ ~notify_pending =>
        \E o \in Objs : state[o] = "PENDING" \/ (o \in Renewable /\ state[o] = "NORMAL")

\* What the shutdown manager keeps to, whatever the subsystems do.
NotificationsExact == SdTypeOK /\ ActiveList /\ OneNotification /\ NotForgotten

\* The loop is cancelled only when a shutdown was asked for and every object stopped.
StopsClean ==
    sdpc = "stopped" => shutdown_complete_handler /\ \A o \in Objs : state[o] = "STOPPED"

=============================================================================

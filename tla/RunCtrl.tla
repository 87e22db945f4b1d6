------------------------------ MODULE RunCtrl ------------------------------
(***************************************************************************)
(* Run control (agent/tcf/services/runctrl.c): the run control lock, the   *)
(* list of "safe events" that wait until every thread of a process has     *)
(* stopped, and the bookkeeping that decides when they may run.            *)
(*                                                                         *)
(* All of this code runs on the event dispatch thread.  Its state is one   *)
(* record, written s below; an operator named after a function of the code *)
(* is the state that function leaves.  Module Debugger holds the actions.  *)
(* The record's fields, by the code's names:                               *)
(*   ctx    one record per thread (Context, ContextExtensionRC, and the    *)
(*          part of ContextExtensionBP about stepping over a breakpoint)   *)
(*   list   safe_event_list               lock   run_ctrl_lock_cnt         *)
(*   count  safe_event_pid_count          timer  stop_all_timer_posted     *)
(*   ticks  stop_all_timer_cnt            queue  the posted events         *)
(*   the remaining fields belong to module Breakpoints                     *)
(* run_safe_events_posted is the number of "safe" events in the queue.     *)
(***************************************************************************)
EXTENDS Naturals, Sequences, FiniteSets

CONSTANTS Threads,     \* contexts that have a state
          Processes,   \* their containers: stop group and breakpoint group
          ProcessOf,   \* the process of each thread
          StopAllMax   \* STOP_ALL_MAX_CNT, time-outs before a thread is given up

ASSUME ContextsAssumption ==
    /\ IsFiniteSet(Threads) /\ IsFiniteSet(Processes)
    /\ Threads \cap Processes = {}
    /\ ProcessOf \in [Threads -> Processes]
ASSUME StopAllMaxAssumption == StopAllMax \in Nat \ {0}

PostedMax == 4   \* the literal 4 that limits the lazily posted events

\* A thread the agent has not heard of yet.
NoContext == [known |-> FALSE, stopped |-> FALSE, exiting |-> FALSE,
              exited |-> FALSE, pending_intercept |-> FALSE,
              intercepted |-> FALSE, pending_safe_event |-> FALSE,
              safe_single_step |-> FALSE, cannot_stop |-> FALSE,
              terminate |-> FALSE, sigstop_posted |-> FALSE,
              stopped_by_bp |-> FALSE, stopped_by_exception |-> FALSE,
              at_bp |-> FALSE, stepping_over_bp |-> FALSE, skips |-> 0]

GroupOf(x) == IF x \in Threads THEN ProcessOf[x] ELSE x

Group(p) == {c \in Threads : ProcessOf[c] = p}

\* The record s with fields of thread c replaced as the record d says.
Set(s, c, d) == [s EXCEPT !.ctx[c] =
                   [f \in DOMAIN @ |-> IF f \in DOMAIN d THEN d[f] ELSE @[f]]]

Alive(s, c) == s.ctx[c].known /\ ~s.ctx[c].exited

\* is_all_stopped: threads that are exiting or were given up do not count.
is_all_stopped(s, x) ==
    \A c \in Group(GroupOf(x)) :
        Alive(s, c) => \/ s.ctx[c].stopped
                       \/ s.ctx[c].exiting
                       \/ s.ctx[c].cannot_stop

-----------------------------------------------------------------------------

post_event(s, e) == [s EXCEPT !.queue = Append(@, e)]

Posted(s) == Cardinality({i \in 1..Len(s.queue) : s.queue[i] = "safe"})

\* Variant: the limit on posted events is off by the whole.
lazy_sync_Never(s) == IF s.lock = 0 /\ Posted(s) \in 1..PostedMax
                        THEN post_event(s, "safe") ELSE s

\* The guarded post of run_safe_events that lets stopped threads continue.
lazy_sync(s) == IF s.lock = 0 /\ Posted(s) < PostedMax
                  THEN post_event(s, "safe") ELSE s

run_ctrl_lock(s) == [s EXCEPT !.lock = @ + 1]

\* Variant: stopped threads are not continued after the last unlock.
run_ctrl_unlock_Silent(s) == [s EXCEPT !.lock = @ - 1]

run_ctrl_unlock(s) == IF s.lock = 1 THEN post_event([s EXCEPT !.lock = 0], "safe")
                                    ELSE [s EXCEPT !.lock = @ - 1]

\* The event waits for the stop group of x, a thread or a process.
post_safe_event(s, x, done) ==
    LET s1 == IF s.list = <<>> THEN post_event(run_ctrl_lock(s), "safe")
                               ELSE run_ctrl_lock(s)
    IN  [s1 EXCEPT !.list = Append(@, [ctx |-> x, done |-> done])]

\* Variant: the flag of the thread is left set.
check_safe_events_FlagLeft(s, c) ==
    LET s1 == [s EXCEPT !.count = @ - 1]
    IN  IF s1.count = 0 THEN post_event(s1, "safe") ELSE s1

\* A context the event list was waiting for has stopped or exited.
check_safe_events(s, c) ==
    LET s1 == [Set(s, c, [pending_safe_event |-> FALSE]) EXCEPT !.count = @ - 1]
    IN  IF s1.count = 0 THEN post_event(s1, "safe") ELSE s1

\* context_stop: a dead thread cannot be signalled and is marked exiting.
context_stop(s, dead, c) ==
    IF c \in dead /\ ~s.ctx[c].sigstop_posted
      THEN Set(s, c, [exiting |-> TRUE])
      ELSE Set(s, c, [sigstop_posted |-> TRUE])

\* Variant: a started thread is not waited for.
stop_if_safe_events_NotCounted(s, dead, c) ==
    IF s.lock = 0 \/ s.ctx[c].exiting \/ s.ctx[c].stopped \/ s.ctx[c].safe_single_step
      THEN s ELSE context_stop(s, dead, c)

\* A thread that appears or starts while run control is locked is stopped.
stop_if_safe_events(s, dead, c) ==
    LET x  == s.ctx[c]
        s1 == IF x.safe_single_step THEN s ELSE context_stop(s, dead, c)
    IN  IF s.lock = 0 \/ x.exiting \/ x.stopped THEN s
        ELSE IF x.pending_safe_event THEN s1
        ELSE [Set(s1, c, [pending_safe_event |-> TRUE]) EXCEPT !.count = @ + 1]

-----------------------------------------------------------------------------

\* CONTEXT_GROUP_INTERCEPT: one thread, or its process in all-stop mode.
InterceptGroup(s, c) == IF s.all_stop THEN ProcessOf[c] ELSE c

\* resume_context_tree of a thread, with send_event_context_resumed.
resume_context_tree(s, c) ==
    IF ~s.ctx[c].intercepted THEN s
    ELSE lazy_sync([s EXCEPT !.ctx = [d \in Threads |->
             IF InterceptGroup(s, d) = InterceptGroup(s, c)
               THEN [s.ctx[d] EXCEPT !.intercepted = FALSE] ELSE s.ctx[d]]])

\* send_context_started_event and its run control listener.
context_started(s, dead, c) ==
    LET s1 == Set(s, c, [stopped |-> FALSE, stopped_by_bp |-> FALSE,
                         stopped_by_exception |-> FALSE])
    IN  stop_if_safe_events(resume_context_tree(s1, c), dead, c)

\* suspend_debug_context, and suspend_by_breakpoint without skip_prologue.
suspend_debug_context(s, dead, c) ==
    LET x == s.ctx[c] IN
    IF x.exited THEN s
    ELSE IF ~x.stopped THEN
        IF x.exiting THEN s
        ELSE LET s1 == Set(s, c, [pending_intercept |-> TRUE])
             IN  IF x.safe_single_step THEN s1 ELSE context_stop(s1, dead, c)
    ELSE IF x.intercepted THEN s
    ELSE lazy_sync(Set(s, c, [pending_intercept |-> TRUE]))

\* send_event_context_suspended: what has stopped is reported to the clients.
send_event_context_suspended(s) ==
    [s EXCEPT !.ctx = [c \in Threads |->
        IF s.ctx[c].pending_intercept /\ s.ctx[c].stopped
          THEN [s.ctx[c] EXCEPT !.intercepted = TRUE, !.pending_intercept = FALSE,
                                !.terminate = FALSE]
          ELSE s.ctx[c]]]

\* event_terminate for a thread: it is killed when it is next resumed.
event_terminate(s, c) ==
    IF s.ctx[c].exited THEN s
    ELSE resume_context_tree(
           Set(s, c, [pending_intercept |-> FALSE, terminate |-> TRUE]), c)

-----------------------------------------------------------------------------

\* mark_stop_groups: the processes some event in the list waits for.
mark_stop_groups(s) == {GroupOf(s.list[i].ctx) : i \in 1..Len(s.list)}

\* Variant: only threads on their single step are waited for.
MustStop_StepsOnly(s, marks) ==
    {c \in Threads : /\ Alive(s, c) /\ ~s.ctx[c].exiting
                     /\ ~s.ctx[c].cannot_stop /\ ~s.ctx[c].stopped
                     /\ s.ctx[c].safe_single_step}

\* The threads run_safe_events has to wait for.
MustStop(s, marks) ==
    {c \in Threads : /\ Alive(s, c) /\ ~s.ctx[c].exiting
                     /\ ~s.ctx[c].cannot_stop /\ ~s.ctx[c].stopped
                     /\ s.ctx[c].safe_single_step \/ ProcessOf[c] \in marks}

\* The first half of run_safe_events: ask the threads to stop, giving up those
\* in failing (context_stop returned an error) and all of them on time-out.
\* A thread on its single step is only disturbed after half of the time-outs.
stop_groups(s, dead, failing, marks) ==
    LET must   == MustStop(s, marks)
        asked  == {c \in must : \/ ~s.ctx[c].safe_single_step
                                \/ s.ticks >= StopAllMax \div 2}
        giveup == IF s.ticks >= StopAllMax THEN must ELSE asked \cap failing
        waited == must \ giveup
        after(c) ==
            LET x == [s.ctx[c] EXCEPT !.pending_safe_event = c \in waited] IN
            IF c \in giveup THEN
                [x EXCEPT !.terminate = FALSE, !.safe_single_step = FALSE,
                          !.cannot_stop = TRUE]
            ELSE IF c \in asked THEN
                [x EXCEPT !.exiting = x.exiting \/ (c \in dead /\ ~x.sigstop_posted),
                          !.sigstop_posted = x.sigstop_posted \/ c \notin dead]
            ELSE x
        s1 == [s EXCEPT !.ctx = [c \in Threads |-> after(c)],
                        !.count = Cardinality(waited)]
    IN  IF waited = {} THEN [s1 EXCEPT !.ticks = 0, !.timer = FALSE] ELSE s1

\* Variant: the time-outs are not counted.
stop_all_timer_NotCounted(s) == post_event([s EXCEPT !.timer = FALSE], "safe")

stop_all_timer(s) == post_event([s EXCEPT !.timer = FALSE, !.ticks = @ + 1], "safe")
=============================================================================

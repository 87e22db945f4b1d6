----------------------------- MODULE Debugger ------------------------------
(***************************************************************************)
(* Run control and breakpoints on a Linux target: the events of the traced *)
(* threads (agent/system/GNU/Linux/tcf/context-linux.c), the events the    *)
(* dispatch thread takes from its queue, the stop timer and the clients'   *)
(* commands.  Handlers run on the dispatch thread one after another; a     *)
(* handler with a loop takes one step per iteration, with the rest of the  *)
(* loop in the variable work, and no other handler starts meanwhile.       *)
(***************************************************************************)
EXTENDS Breakpoints

CONSTANTS First,        \* the threads that exist when the model starts
          Blocked,      \* threads that may never react to SIGSTOP
          MaxSurprises  \* what may happen on its own: signals, breakpoint hits,
                        \* deaths, failing system calls and clients' commands

ASSUME FirstAssumption == First \subseteq Threads

VARIABLES s,      \* the state of run control and breakpoints
          os,     \* each thread as the kernel sees it
          work,   \* the handler in progress
          surprises  \* how many of them there were

vars == <<s, os, work, surprises>>

Idle == [op |-> "idle"]

Dead == {c \in Threads : os[c] = "dead"}

Init ==
    /\ \E all_stop \in BOOLEAN :
         s = [ctx |-> [c \in Threads |-> [NoContext EXCEPT !.known = c \in First]],
              bi |-> [p \in Processes |->
                        IF \E c \in First : ProcessOf[c] = p
                          THEN [NoInstruction EXCEPT !.alive = TRUE, !.refs = TRUE,
                                                     !.planted = TRUE]
                          ELSE NoInstruction],
              list |-> <<>>, lock |-> 0, count |-> 0, ticks |-> 0, timer |-> FALSE,
              queue |-> <<>>, all_stop |-> all_stop, enabled |-> TRUE,
              posted |-> <<>>, loc_posted |-> {}, active |-> {}, loc_active |-> {},
              waiting |-> <<>>, conds |-> [p \in Processes |-> {}], ok |-> {},
              replanting |-> FALSE]
    /\ os = [c \in Threads |-> IF c \in First THEN "run" ELSE "none"]
    /\ work = Idle
    /\ surprises = 0

Surprise == surprises < MaxSurprises /\ surprises' = surprises + 1

-----------------------------------------------------------------------------
(* Threads: what ptrace and waitpid report *)

\* send_context_stopped_event for a thread, with what changed in d.
context_stopped(t, c, d) ==
    LET s1 == Set(Set(t, c, [stopped |-> TRUE, safe_single_step |-> FALSE,
                             cannot_stop |-> FALSE, at_bp |-> FALSE]), c, d)
        s2 == IF s1.ctx[c].stopped_by_bp THEN evaluate_breakpoint(s1, Dead, c) ELSE s1
        s3 == IF s2.ctx[c].pending_safe_event THEN check_safe_events(s2, c) ELSE s2
    IN  lazy_sync(s3)

Running(c) == work = Idle /\ os[c] \in {"run", "step"}

Held(c) == os' = [os EXCEPT ![c] = "held"]

\* SIGSTOP arrives.  A thread that was to step has not moved.
SigStop(c) ==
    /\ Running(c) \/ (work = Idle /\ os[c] = "new")
    /\ s.ctx[c].sigstop_posted
    /\ s' = context_stopped(s, c, [sigstop_posted |-> FALSE, at_bp |-> os[c] = "step"])
    /\ Held(c)
    /\ UNCHANGED <<work, surprises>>

\* The single instruction is done, or was not executed after all.
StepDone(c) ==
    /\ Running(c) /\ os[c] = "step"
    /\ \E moved \in BOOLEAN :
         /\ s' = context_stopped(s, c, [at_bp |-> ~moved])
         /\ IF moved THEN UNCHANGED surprises ELSE Surprise
    /\ Held(c)
    /\ UNCHANGED work

BreakpointHit(c) ==
    /\ Running(c) /\ os[c] = "run" /\ s.bi[ProcessOf[c]].planted
    /\ s' = context_stopped(s, c, [stopped_by_bp |-> TRUE])
    /\ Surprise /\ Held(c)
    /\ UNCHANGED work

\* A signal the client wants to see.
Signal(c) ==
    /\ Running(c)
    /\ s' = context_stopped(s, c, [pending_intercept |-> TRUE,
                                   stopped_by_exception |-> TRUE])
    /\ Surprise /\ Held(c)
    /\ UNCHANGED work

\* PTRACE_EVENT_EXIT: the thread stops once more on its way out.
ExitStop(c) ==
    /\ Running(c) /\ ~s.ctx[c].exiting
    /\ s' = context_stopped(s, c, [exiting |-> TRUE])
    /\ Surprise /\ Held(c)
    /\ UNCHANGED work

\* add_thread: a new thread is expected to report a SIGSTOP.
AddThread(t, d) ==
    post_location_evaluation_request(
        stop_if_safe_events(Set(t, d, [known |-> TRUE, sigstop_posted |-> TRUE]),
                            Dead, d),
        ProcessOf[d])

\* PTRACE_EVENT_CLONE: after add_thread the creator has stopped.
Clone(c, d) ==
    /\ Running(c) /\ os[c] = "run" /\ ~s.ctx[c].exiting
    /\ os[d] = "none" /\ ProcessOf[c] = ProcessOf[d]
    /\ s' = context_stopped(AddThread(s, d), c, <<>>)
    /\ os' = [os EXCEPT ![c] = "held", ![d] = "new"]
    /\ UNCHANGED <<work, surprises>>

\* A thread that was allowed to leave is gone; the report is on its way.
Leave(c) ==
    /\ Running(c) /\ s.ctx[c].exiting
    /\ os' = [os EXCEPT ![c] = "dead"]
    /\ UNCHANGED <<s, work, surprises>>

Killed(p) == [c \in Threads |-> IF ProcessOf[c] = p /\ os[c] \notin {"none", "gone"}
                                  THEN "dead" ELSE os[c]]

\* SIGKILL from outside ends all threads of a process, stopped or not.
Kill(p) ==
    /\ work = Idle /\ \E c \in Group(p) : os[c] \in {"run", "step", "held"}
    /\ os' = Killed(p)
    /\ Surprise
    /\ UNCHANGED <<s, work>>

\* event_pid_exited: a stopped thread is first reported as started.
ExitReport(c) ==
    /\ work = Idle /\ os[c] = "dead"
    /\ LET s1 == Set(s, c, [exiting |-> TRUE])
           s2 == IF s.ctx[c].stopped THEN context_started(s1, Dead, c) ELSE s1
           s3 == Set(s2, c, [exiting |-> FALSE, exited |-> TRUE,
                             pending_intercept |-> FALSE, intercepted |-> FALSE,
                             safe_single_step |-> FALSE, terminate |-> FALSE])
           s4 == IF s3.ctx[c].pending_safe_event THEN check_safe_events(s3, c) ELSE s3
       IN  s' = post_location_evaluation_request(s4, ProcessOf[c])
    /\ os' = [os EXCEPT ![c] = "gone"]
    /\ UNCHANGED <<work, surprises>>

-----------------------------------------------------------------------------
(* Resuming threads *)

\* context_resume of a stopped thread: the state, and what becomes of it.
Resumed(t, c) ==
    IF must_skip(t, c) THEN skip_breakpoint(t, c)
    ELSE context_started(Set(t, c, [exiting |-> t.ctx[c].exiting \/ c \in Dead]), Dead, c)

\* The kernel side of context_resume: SIGKILL is passed to a terminated thread.
ResumedOs(t, c) ==
    IF must_skip(t, c) \/ os[c] # "held" THEN os
    ELSE IF t.ctx[c].terminate THEN Killed(ProcessOf[c])
    ELSE [os EXCEPT ![c] = "run"]

-----------------------------------------------------------------------------
(* Events of the dispatch thread *)

Next1(e) == work = Idle /\ s.queue # <<>> /\ Head(s.queue) = e

Popped == [s EXCEPT !.queue = Tail(@)]

\* System calls on live threads that fail in this step.
Failing(F) ==
    \/ F = {} /\ UNCHANGED surprises
    \/ \E c \in Threads : F = {c} /\ Surprise

\* run_safe_events up to its loop over the events.
run_safe_events ==
    /\ Next1("safe")
    /\ IF Posted(Popped) > 0 THEN
           s' = Popped /\ UNCHANGED <<work, surprises>>
       ELSE IF s.lock = 0 THEN
           s' = post_event(Popped, "sync") /\ UNCHANGED <<work, surprises>>
       ELSE IF s.list = <<>> THEN
           s' = Popped /\ UNCHANGED <<work, surprises>>
       ELSE \E F \in {{}} \cup {{c} : c \in MustStop(s, mark_stop_groups(s)) \ Dead} :
           /\ Failing(F)
           /\ s' = stop_groups(Popped, Dead, F, mark_stop_groups(s))
           /\ work' = [op |-> "events", marks |-> mark_stop_groups(s)]
    /\ UNCHANGED os

\* What one safe event does, before the run control lock it held is released.
SafeEvent(t, F, e) ==
    CASE e.done = "skip"      -> safe_skip_breakpoint(t, Dead, F, e.ctx)
      [] e.done = "restore"   -> safe_restore_breakpoint(t, Dead, F, e.ctx)
      [] e.done = "terminate" -> event_terminate(t, e.ctx)
      [] e.done = "wait"      -> t

\* One iteration of the loop.
run_safe_event ==
    /\ work.op = "events" /\ s.list # <<>>
    /\ LET e == Head(s.list) IN
       IF GroupOf(e.ctx) \notin work.marks THEN
           /\ s' = IF Posted(s) = 0 THEN post_event(s, "safe") ELSE s
           /\ work' = Idle
           /\ UNCHANGED <<os, surprises>>
       ELSE IF s.count > 0 THEN
           /\ s' = [s EXCEPT !.timer = TRUE]
           /\ work' = Idle
           /\ UNCHANGED <<os, surprises>>
       ELSE \E F \in {{}} \cup {{c} : c \in {e.ctx} \cap (Threads \ Dead)} :
           /\ F # {} => e.done = "skip" \/ (e.done = "restore" /\ StepAgain(s, e.ctx))
           /\ Failing(F)
           /\ \E t \in {SafeEvent([s EXCEPT !.list = Tail(@)], F, e)} :
                /\ s' = run_ctrl_unlock(t)
                /\ os' = [c \in Threads |->
                            IF os[c] = "held" /\ s.ctx[c].stopped /\ ~t.ctx[c].stopped
                              THEN "step" ELSE os[c]]
           /\ UNCHANGED work

\* After the last safe event cache_notify() lets the waiting clients run.
safe_events_done ==
    /\ work.op = "events" /\ s.list = <<>>
    /\ work' = [op |-> "clients", rest |-> s.waiting]
    /\ UNCHANGED <<s, os, surprises>>

event_replant_breakpoints ==
    /\ Next1("replant")
    /\ IF "replant" \in Range(Tail(s.queue)) \/ s.waiting # <<>>
         THEN s' = Popped /\ UNCHANGED work
         ELSE /\ s' = [Popped EXCEPT !.active = Range(s.posted),
                                     !.loc_active = s.loc_posted,
                                     !.waiting = s.posted,
                                     !.posted = <<>>, !.loc_posted = {}]
              /\ work' = [op |-> "clients", rest |-> s.posted]
    /\ UNCHANGED <<os, surprises>>

run_client ==
    /\ work.op = "clients"
    /\ IF work.rest = <<>> THEN work' = Idle /\ UNCHANGED s
       ELSE \E true \in SUBSET s.conds[Head(work.rest)] :
            /\ s' = replant_client(s, Dead, Head(work.rest), true)
            /\ work' = [work EXCEPT !.rest = Tail(@)]
    /\ UNCHANGED <<os, surprises>>

\* sync_run_state up to the loop that stops or continues the threads.
sync_run_state ==
    /\ Next1("sync")
    /\ IF s.lock # 0 THEN s' = Popped /\ UNCHANGED work
       ELSE LET flags == {InterceptGroup(s, c) : c \in {d \in Threads :
                            /\ Alive(s, d)
                            /\ s.ctx[d].pending_intercept \/ s.ctx[d].intercepted}}
            IN  /\ s' = [Popped EXCEPT !.ticks = 0, !.count = 0, !.ctx =
                           [c \in Threads |-> [s.ctx[c] EXCEPT !.pending_safe_event = FALSE]]]
                /\ work' = [op |-> "sync", flags |-> flags, err |-> FALSE,
                            rest |-> SetToSeq({c \in Threads :
                                /\ Alive(s, c) /\ ~s.ctx[c].intercepted
                                /\ \/ InterceptGroup(s, c) \in flags
                                   \/ s.ctx[c].stopped /\ ~s.ctx[c].pending_intercept}),
                            kills |-> <<>>]
    /\ UNCHANGED <<os, surprises>>

\* Variant: a lock taken in the loop does not end it.
SyncGoesOn_Locked == work.op = "sync" /\ ~work.err

SyncGoesOn == work.op = "sync" /\ ~work.err /\ s.lock = 0

\* A thread of an intercepted group is stopped as well.
sync_stop(c) ==
    LET s1 == Set(s, c, [pending_intercept |-> TRUE])
        s2 == Set(context_stop(s1, Dead, c), c, [pending_safe_event |-> TRUE])
    IN  IF s.ctx[c].stopped \/ s.ctx[c].exiting THEN s1
        ELSE [s2 EXCEPT !.count = @ + 1]

\* context_resume, which may fail for a live thread.
sync_resume(c) ==
    \E F \in {{}} \cup {{d} : d \in {c} \ Dead} :
        /\ F # {} => ~must_skip(s, c)
        /\ Failing(F)
        /\ s' = IF F = {} THEN Resumed(s, c) ELSE resume_error(s, c)
        /\ os' = IF F = {} THEN ResumedOs(s, c) ELSE os
        /\ work' = [work EXCEPT !.err = F # {},
                                !.rest = IF @ = <<>> THEN @ ELSE Tail(@),
                                !.kills = IF work.rest = <<>> THEN Tail(@) ELSE @]

\* One iteration of the loop over the threads; those to be killed come last.
sync_thread ==
    /\ SyncGoesOn /\ work.rest # <<>>
    /\ LET c == Head(work.rest) IN
       IF InterceptGroup(s, c) \in work.flags THEN
           /\ s' = sync_stop(c)
           /\ work' = [work EXCEPT !.rest = Tail(@)]
           /\ UNCHANGED <<os, surprises>>
       ELSE IF s.ctx[c].terminate THEN
           /\ work' = [work EXCEPT !.rest = Tail(@), !.kills = Append(@, c)]
           /\ UNCHANGED <<s, os, surprises>>
       ELSE sync_resume(c)

sync_kill ==
    /\ SyncGoesOn /\ work.rest = <<>> /\ work.kills # <<>>
    /\ sync_resume(Head(work.kills))

\* The end of sync_run_state and of its cache client.
sync_done ==
    /\ work.op = "sync"
    /\ ~SyncGoesOn \/ (work.rest = <<>> /\ work.kills = <<>>)
    /\ LET t == IF s.count = 0 /\ work.err THEN lazy_sync(s) ELSE s
       IN  s' = IF Posted(t) > 0 \/ t.lock > 0 THEN t
                ELSE send_event_context_suspended(t)
    /\ work' = Idle
    /\ UNCHANGED <<os, surprises>>

StopAllTimer ==
    /\ work = Idle /\ s.timer
    /\ s' = stop_all_timer(s)
    /\ UNCHANGED <<os, work, surprises>>

-----------------------------------------------------------------------------
(* Commands of the clients *)

command_suspend(c) ==
    /\ work = Idle /\ Alive(s, c) /\ ~s.ctx[c].intercepted
    /\ s' = suspend_debug_context(s, Dead, c)
    /\ Surprise
    /\ UNCHANGED <<os, work>>

\* command_resume with mode RM_RESUME; an error still cancels a termination.
command_resume(c) ==
    /\ work = Idle /\ Alive(s, c)
    /\ s' = resume_context_tree(Set(s, c, [terminate |-> FALSE]), c)
    /\ Surprise
    /\ UNCHANGED <<os, work>>

command_terminate(c) ==
    /\ work = Idle /\ Alive(s, c)
    /\ s' = post_safe_event(s, c, "terminate")
    /\ Surprise
    /\ UNCHANGED <<os, work>>

\* The Breakpoints commands enable, disable, add and remove.
set_breakpoint ==
    /\ work = Idle
    /\ s' = replant_breakpoint([s EXCEPT !.enabled = ~@])
    /\ Surprise
    /\ UNCHANGED <<os, work>>

-----------------------------------------------------------------------------

Dispatch == \/ run_safe_events \/ run_safe_event \/ safe_events_done
            \/ event_replant_breakpoints \/ run_client
            \/ sync_run_state \/ sync_thread \/ sync_kill \/ sync_done

Unsolicited(c) == BreakpointHit(c) \/ Signal(c) \/ ExitStop(c)

Commands(c) == command_suspend(c) \/ command_resume(c) \/ command_terminate(c)

Next == \/ Dispatch \/ StopAllTimer \/ set_breakpoint
        \/ \E c \in Threads : \/ SigStop(c) \/ StepDone(c) \/ Leave(c)
                              \/ ExitReport(c) \/ Unsolicited(c) \/ Commands(c)
        \/ \E c, d \in Threads : Clone(c, d)
        \/ \E p \in Processes : Kill(p)

\* The dispatch loop goes on, the timer fires, the kernel delivers signals and
\* reports exits, and an unblocked thread executes the instruction it steps.
\* The first conjunct is WF_vars(Dispatch) with its enabling condition, a handler
\* in progress or an event in the queue, written out.
Fairness ==
    /\ []<>(work = Idle /\ s.queue = <<>>) \/ []<><<Dispatch>>_vars
    /\ WF_vars(StopAllTimer)
    /\ \A c \in Threads : /\ WF_vars(ExitReport(c))
                          /\ WF_vars(Leave(c))
    /\ \A c \in Threads \ Blocked : /\ WF_vars(SigStop(c))
                                    /\ WF_vars(StepDone(c))

Spec == Init /\ [][Next]_vars /\ Fairness

-----------------------------------------------------------------------------
(* Properties *)

\* The counters agree with what they count: pending threads, and one run
\* control lock per safe event and one for a replanting in progress
\* (safe_event_pid_count, run_ctrl_lock_cnt).
LocksCounted ==
    /\ s.count = Cardinality({c \in Threads : s.ctx[c].pending_safe_event})
    /\ s.lock = Len(s.list) + (IF s.replanting THEN 1 ELSE 0)

\* A safe event that is about to run finds every thread of its stop group
\* stopped (the assertion in run_safe_events, and runctrl.h: "guaranteed to run
\* while relevant contexts are stopped").
SafeEventsSafe ==
    work.op = "events" /\ s.list # <<>> /\ s.count = 0
        /\ GroupOf(Head(s.list).ctx) \in work.marks
    => is_all_stopped(s, Head(s.list).ctx)

\* While an instruction that should be planted is not, because a thread steps
\* over it or because it is being replanted, no thread of the process runs
\* code, except one on its single step or one that could not be stopped
\* (safe_skip_breakpoint, flush_instructions).
NoMissedBreakpoint ==
    \A c \in Threads :
        LET b == s.bi[ProcessOf[c]] IN
        os[c] = "run" /\ b.refs /\ ~b.planted
            => s.ctx[c].exiting \/ s.ctx[c].cannot_stop

\* Whenever run control is not locked, an enabled breakpoint is planted in every
\* process (flush_instructions, safe_restore_breakpoint).
PlantedWhenUnlocked ==
    s.lock = 0 /\ s.enabled =>
        \A p \in Processes : ~ProcessExited(s, p) => s.bi[p].planted

\* While run control is locked no thread is resumed, except for a single step
\* or because it exits (runctrl.h: "don't resume any thread while run control
\* is locked").
NoResumeWhileLocked ==
    [][\A c \in Threads :
         s.ctx[c].stopped /\ ~s'.ctx[c].stopped /\ s.lock > 0 =>
             s'.ctx[c].safe_single_step \/ s'.ctx[c].exiting \/ s'.ctx[c].exited]_vars

\* A suspend request, an exception or a breakpoint hit is reported, unless the
\* thread exits or is terminated first (sync_run_state).
InterceptReported ==
    \A c \in Threads \ Blocked : s.ctx[c].pending_intercept ~> ~s.ctx[c].pending_intercept

\* Run control does not stay locked: every safe event runs, the stop timer sees
\* to threads that do not stop (run_safe_events, stop_all_timer).
LocksReleased == s.lock > 0 ~> s.lock = 0

\* A thread stopped only for a safe event runs again (run_ctrl_unlock: "Lazily
\* continue execution of temporary stopped contexts").
StoppedThreadsContinue ==
    \A c \in Threads :
        s.ctx[c].stopped /\ ~s.ctx[c].intercepted
            ~> ~s.ctx[c].stopped \/ s.ctx[c].intercepted

\* A condition is evaluated while its thread is stopped (the assertion in
\* evaluate_condition).
EvaluatedWhileStopped ==
    work.op = "clients" /\ work.rest # <<>> /\ s.enabled
        /\ is_all_stopped(s, Head(work.rest))
    => \A c \in s.conds[Head(work.rest)] : s.ctx[c].stopped
=============================================================================

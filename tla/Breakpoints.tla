---------------------------- MODULE Breakpoints ----------------------------
(***************************************************************************)
(* Software breakpoints (agent/tcf/services/breakpoints.c) on top of run   *)
(* control: one breakpoint set by the clients, its break instruction in    *)
(* each process, the evaluations that link and unlink the two, and the     *)
(* protocol that steps a thread over a planted instruction.                *)
(* Fields of the state record that belong to this module:                  *)
(*   enabled  the clients' breakpoint is enabled                           *)
(*   bi       per process, the BreakInstruction: alive (it exists), valid, *)
(*            refs (ref_cnt > 0), planted, stepping (stepping_over_bp)     *)
(*   posted   evaluations_posted          loc_posted  of them, those with  *)
(*                                        a location to evaluate           *)
(*   active   evaluations_active          loc_active  likewise             *)
(*   waiting  the clients cache_enter_cnt counts                           *)
(*   conds    per process, the threads whose condition is to be evaluated  *)
(*   ok       of them, those whose condition_ok is set                     *)
(*   replanting  generation_posted # generation_done: run control is locked*)
(* An event_replant_breakpoints event is the newest generation when no     *)
(* later one is in the queue.                                              *)
(***************************************************************************)
EXTENDS RunCtrl, SequencesExt

CONSTANTS Conditional,  \* the breakpoint has a condition to evaluate
          MaxSkips      \* the literal 100 that limits repeated steps

NoInstruction == [alive |-> FALSE, valid |-> TRUE, refs |-> FALSE,
                  planted |-> FALSE, stepping |-> 0]

\* A process exits with its last thread.
ProcessExited(s, p) == \A c \in Group(p) : ~Alive(s, c)

post_evaluation_request(s, p) ==
    IF p \in Range(s.posted) THEN s
    ELSE LET s1 == IF s.replanting THEN s ELSE run_ctrl_lock(s)
         IN  post_event([s1 EXCEPT !.posted = Append(@, p), !.replanting = TRUE],
                        "replant")

\* bp = NULL for a thread of p: nothing to do when there is no breakpoint.
post_location_evaluation_request(s, p) ==
    IF ~s.bi[p].refs /\ p \notin Range(s.posted) /\ ~s.enabled THEN s
    ELSE [post_evaluation_request(s, p) EXCEPT !.loc_posted = @ \cup {p}]

\* replant_breakpoint after the clients changed the breakpoint: a request for
\* every process, in some order, and one event for each that is new.
replant_breakpoint(s) ==
    LET living == {p \in Processes : ~ProcessExited(s, p)}
        new    == living \ Range(s.posted)
        s1     == IF s.replanting \/ new = {} THEN s ELSE run_ctrl_lock(s)
    IN  [s1 EXCEPT !.posted = @ \o SetToSeq(new), !.loc_posted = @ \cup living,
                   !.queue = @ \o [i \in 1..Cardinality(new) |-> "replant"],
                   !.replanting = @ \/ new # {}]

\* evaluate_breakpoint for a thread stopped by the instruction of its process.
evaluate_breakpoint(s, dead, c) ==
    LET p  == ProcessOf[c]
        already_posted == p \in Range(s.posted) \cup s.active
        s1 == [s EXCEPT !.conds[p] = @ \cup {c}]
    IN  IF ~(s.bi[p].planted /\ s.bi[p].refs) THEN s
        ELSE IF already_posted THEN s1
        ELSE IF ~s.enabled THEN s
        ELSE IF Conditional THEN post_evaluation_request(s1, p)
        ELSE suspend_debug_context(s, dead, c)

-----------------------------------------------------------------------------

plant_instruction(s, p) == [s EXCEPT !.bi[p].planted = TRUE]

remove_instruction(s, p) == [s EXCEPT !.bi[p].planted = FALSE]

\* flush_instructions for the instruction of one process.
flush_instruction(s, p) ==
    LET b == s.bi[p]
        refs == b.refs /\ (b.valid \/ ~ProcessExited(s, p))
        plant == ~b.valid /\ b.stepping = 0 /\ refs
    IN  IF refs \/ b.stepping > 0
          THEN [b EXCEPT !.valid = TRUE, !.refs = refs, !.planted = @ \/ plant]
        ELSE IF b.planted /\ ~is_all_stopped(s, p)
          THEN [b EXCEPT !.valid = TRUE, !.refs = FALSE]
        ELSE NoInstruction

flush_instructions(s) ==
    [s EXCEPT !.bi = [p \in Processes |-> flush_instruction(s, p)]]

\* done_all_evaluations: the threads whose condition held are intercepted.  (No
\* thread is continued: replanting holds the run control lock.)
done_all_evaluations(s, dead) ==
    LET hit == {c \in s.ok : /\ ProcessOf[c] \in s.active
                             /\ Alive(s, c) /\ ~s.ctx[c].exiting}
    IN  [s EXCEPT !.ctx = [c \in Threads |->
                             IF c \in hit THEN suspend_debug_context(s, dead, c).ctx[c]
                                          ELSE s.ctx[c]],
                  !.conds = [p \in Processes |-> IF p \in s.active THEN {} ELSE @[p]],
                  !.ok = {}, !.active = {}, !.loc_active = {}]

\* The tail of replant_breakpoints_cache_client, after the last client is done.
done_replanting(s, dead) ==
    LET s1 == done_all_evaluations(s, dead)
    IN  IF s1.posted # <<>> THEN post_event(s1, "replant")
        ELSE run_ctrl_unlock([flush_instructions(s1) EXCEPT !.replanting = FALSE])

\* clear_instruction_refs and evaluate_bp_location: the instruction of p afterwards.
evaluate_bp_location(s, p) ==
    LET b == s.bi[p] IN
    IF p \notin s.loc_active THEN b
    ELSE IF ProcessExited(s, p) THEN [b EXCEPT !.refs = FALSE, !.valid = ~b.refs]
    ELSE [b EXCEPT !.alive = b.alive \/ s.enabled, !.valid = ~(s.enabled \/ b.refs),
                   !.refs = s.enabled]

\* replant_breakpoints_cache_client for process p; the conditions of the threads
\* in true hold.  While a thread of p runs the client waits for a safe event.
replant_client(s, dead, p, true) ==
    LET s1 == [s EXCEPT !.bi[p] = evaluate_bp_location(s, p),
                        !.ok = (@ \ s.conds[p]) \cup (IF s.enabled THEN true ELSE {}),
                        !.waiting = RemoveFirst(@, p)]
    IN  IF ~is_all_stopped(s, p) THEN post_safe_event(s, p, "wait")
        ELSE IF s1.waiting = <<>> THEN done_replanting(s1, dead)
        ELSE s1

-----------------------------------------------------------------------------

\* skip_breakpoint (not yet single stepping): does c have to step over the
\* instruction it has stopped at?
must_skip(s, c) == /\ s.ctx[c].stopped_by_bp /\ ~s.ctx[c].stepping_over_bp
                   /\ ~s.ctx[c].exiting
                   /\ s.bi[ProcessOf[c]].alive

skip_breakpoint(s, c) ==
    post_safe_event(
        [Set(s, c, [stepping_over_bp |-> TRUE, skips |-> 1])
           EXCEPT !.bi[ProcessOf[c]].stepping = @ + 1], c, "skip")

\* The error exit of safe_skip_breakpoint and resume_error: the thread stays
\* stopped and is going to be intercepted; listeners hear that it changed.
resume_error(s, c) ==
    post_location_evaluation_request(
        Set(s, c, [stopped_by_bp |-> FALSE, stopped_by_exception |-> TRUE,
                   pending_intercept |-> TRUE]), ProcessOf[c])

\* safe_context_single_step of a live thread, or the error the step returned.
safe_context_single_step(s, dead, c) ==
    context_started(
        Set(s, c, [safe_single_step |-> TRUE, exiting |-> c \in dead]), dead, c)

safe_skip_breakpoint(s, dead, failing, c) ==
    LET s1 == post_safe_event(s, c, "restore")
        s2 == remove_instruction(s1, ProcessOf[c])
    IN  IF s.ctx[c].exited \/ s.ctx[c].exiting THEN s1
        ELSE IF c \in failing THEN resume_error(s2, c)
        ELSE safe_context_single_step(s2, dead, c)

\* A thread that did not get past the instruction steps again.
StepAgain(s, c) == /\ ~s.ctx[c].exiting /\ s.ctx[c].stopped
                   /\ ~s.ctx[c].stopped_by_exception
                   /\ s.ctx[c].at_bp /\ s.ctx[c].skips < MaxSkips

\* Variant: the instruction is left for the next replanting to plant.
safe_restore_breakpoint_NotPlanted(s, dead, failing, c) ==
    IF StepAgain(s, c)
      THEN safe_skip_breakpoint(Set(s, c, [skips |-> s.ctx[c].skips + 1]),
                                dead, failing, c)
      ELSE [Set(s, c, [stepping_over_bp |-> FALSE, skips |-> 0])
              EXCEPT !.bi[ProcessOf[c]].stepping = @ - 1]

safe_restore_breakpoint(s, dead, failing, c) ==
    LET p  == ProcessOf[c]
        s1 == [Set(s, c, [stepping_over_bp |-> FALSE, skips |-> 0])
                 EXCEPT !.bi[p].stepping = @ - 1]
        b  == s1.bi[p]
    IN  IF StepAgain(s, c)
          THEN safe_skip_breakpoint(Set(s, c, [skips |-> s.ctx[c].skips + 1]),
                                    dead, failing, c)
        ELSE IF b.stepping = 0 /\ b.valid /\ b.refs /\ ~ProcessExited(s, p)
          THEN plant_instruction(s1, p)
        ELSE s1
=============================================================================

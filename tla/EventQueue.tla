----------------------------- MODULE EventQueue -----------------------------
(***************************************************************************)
(* The event queue and the dispatch loop of agent/tcf/framework/events.c.  *)
(*                                                                         *)
(* One dispatch thread runs run_event_loop(); any other thread posts with  *)
(* post_from_bg_thread().  event_queue belongs to the dispatch thread      *)
(* alone; timer_queue, free_bg_queue and the cancel handshake are guarded  *)
(* by event_lock.  Every critical section of event_lock is one action, as  *)
(* is every stretch of dispatch-thread code that touches only what that    *)
(* thread owns.  The clock is read before event_lock is taken, so a post   *)
(* from the background is two actions.                                     *)
(***************************************************************************)
EXTENDS Integers, Sequences, FiniteSets

CONSTANTS
    Threads,        \* background threads that post events
    Callbacks,      \* the <<handler, arg>> pairs that are posted and cancelled
    ExitCb,         \* the pair <<exit_event_handler, NULL>>
    NoCb,           \* cancel_handler = NULL
    Pool,           \* the nodes of event_buf[EVENT_BUF_SIZE]
    Heap,           \* the nodes loc_alloc() can hand out (a bound)
    ExitNode,       \* the node that ini_events_queue() allocates for exit_event
    NoNode,         \* the null pointer
    Main,           \* the dispatch thread, as the poster of an event
    BatchLimit,     \* untimed events dispatched before the timers are looked at: 100
    Delays,         \* the delays posted with post_event_with_delay()
    MaxClock,       \* bound on the clock
    MaxPending      \* bound on the events that are pending or being posted

ASSUME ConstantsAssumption ==
    /\ Main \notin Threads
    /\ ExitCb \notin Callbacks /\ NoCb \notin Callbacks \cup {ExitCb}
    /\ Pool \cap Heap = {}
    /\ ExitNode \notin Pool \cup Heap
    /\ NoNode \notin Pool \cup Heap \cup {ExitNode}
    /\ BatchLimit \in Nat \ {0}
    /\ Delays \subseteq Nat \ {0}
    /\ MaxClock \in Nat \ {0}
    /\ MaxPending \in Nat

VARIABLES
    event_queue,    \* nodes ready to run, first to last
    event_last,     \* the last node of event_queue, or NoNode
    timer_queue,    \* nodes that wait for their runtime, or come from other threads
    node,           \* the contents of every node
    free_queue,     \* pool nodes the dispatch thread may take
    free_bg_queue,  \* pool nodes other threads may take
    exit_event,     \* ExitNode until exit_event_loop() has queued it
    cancel_handler, \* what cancel_event() waits for, or NoCb
    process_events, \* the loop runs while TRUE
    pc,             \* where the dispatch thread is
    running,        \* the node whose handler is running, or NoNode
    event_cnt,      \* untimed events dispatched since the timers were looked at
    deadline,       \* the timeout of the wait on event_cond
    now,            \* the clock
    bg,             \* what each background thread is posting
    before,         \* history: <<m, n>> when m was queued before n, both pending, no delay
    drain           \* history: untimed nodes pending when exit_event_loop() was called

vars == <<event_queue, event_last, timer_queue, node, free_queue, free_bg_queue, exit_event,
          cancel_handler, process_events, pc, running, event_cnt, deadline, now,
          bg, before, drain>>

-----------------------------------------------------------------------------

Nodes     == Pool \cup Heap \cup {ExitNode}
Handlers  == Callbacks \cup {ExitCb}
Posters   == Threads \cup {Main}
Forever   == MaxClock + 1       \* the deadline of an untimed wait
BgReserve == 2                  \* nodes the loop keeps in free_bg_queue

\* The contents of a node.  delay is the delay it was posted with; runtime is
\* zero for an event the dispatch thread posted without delay.
Event   == [cb : Handlers \cup {NoCb}, runtime : Nat, delay : Nat, by : Posters]
NoEvent == [cb |-> NoCb, runtime |-> 0, delay |-> 0, by |-> Main]

\* What a background thread holds between reading the clock and taking event_lock.
Idle    == [cb |-> NoCb, runtime |-> 0, delay |-> 0]
BgState == [cb : Callbacks \cup {NoCb}, runtime : Nat, delay : Nat]

Elems(q) == {q[i] : i \in 1..Len(q)}
Pending  == Elems(event_queue) \cup Elems(timer_queue)
InUse    == Pending \cup ({running} \ {NoNode})
FreeHeap == Heap \ InUse

Untimed(n) == node[n].delay = 0 /\ node[n].cb # ExitCb

-----------------------------------------------------------------------------
(***************************************************************************)
(* Queues and nodes                                                        *)
(***************************************************************************)

\* The place where the walk over timer_queue stops for a new runtime t: behind
\* every node that is due no later than t, in front of the first that is later.
InsertionPoint(q, t, k) ==
    /\ \A i \in 1..k : node[q[i]].runtime <= t
    /\ k < Len(q) => t < node[q[k + 1]].runtime

InsertAfter(q, k, n) == SubSeq(q, 1, k) \o <<n>> \o SubSeq(q, k + 1, Len(q))

DropAt(q, i) == SubSeq(q, 1, i - 1) \o SubSeq(q, i + 1, Len(q))

\* alloc_event_node / alloc_event_node_bg: the head of the free list, or the heap.
\* Nodes of a list are interchangeable, so the order of the list is left out.
CanAlloc(list) == list # {} \/ FreeHeap # {}
Alloc(list) == IF list # {} THEN CHOOSE n \in list : TRUE
                            ELSE CHOOSE n \in FreeHeap : TRUE

\* free_event_node: a pool node returns to free_queue, any other to the heap.
FreeNode(n, list) == IF n \in Pool THEN list \cup {n} ELSE list

\* The bound on new posts.
MayPost == Cardinality(Pending) + Cardinality({t \in Threads : bg[t] # Idle}) < MaxPending

\* The history of the order of posts without delay, kept until exit_event_loop().
Posted(n)  == before' = IF exit_event = NoNode THEN {}
                        ELSE before \cup {<<m, n>> : m \in {p \in Pending : Untimed(p)}}
Removed(n) == before' = {p \in before : p[1] # n /\ p[2] # n}

-----------------------------------------------------------------------------
(***************************************************************************)
(* What code on the dispatch thread may do: an initialiser before the loop *)
(* starts, a handler while it runs.  exit_event_handler does only its own. *)
(***************************************************************************)

OnDispatchThread ==
    \/ pc = "ini"
    \/ pc = "handler" /\ node[running].cb # ExitCb

\* post_event() on the dispatch thread (cancel_handler is NULL there).
AppendEvent(cb) ==
    /\ CanAlloc(free_queue)
    /\ LET n == Alloc(free_queue) IN
       /\ node' = [node EXCEPT ![n] = [cb |-> cb, runtime |-> 0, delay |-> 0, by |-> Main]]
       /\ free_queue' = free_queue \ {n}
       /\ event_queue' = Append(event_queue, n)
       /\ event_last' = n
       /\ Posted(n)

PostEvent(cb) ==
    /\ OnDispatchThread /\ MayPost
    /\ AppendEvent(cb)
    /\ UNCHANGED <<timer_queue, free_bg_queue, exit_event, cancel_handler, process_events,
                   pc, running, event_cnt, deadline, now, bg, drain>>

\* post_event_with_delay() on the dispatch thread: no signal, nobody waits.
PostEventWithDelay(cb, d) ==
    /\ OnDispatchThread /\ MayPost
    /\ now + d <= MaxClock
    /\ CanAlloc(free_queue)
    /\ LET n == Alloc(free_queue)
           t == now + d
       IN \E k \in 0..Len(timer_queue) :
          /\ InsertionPoint(timer_queue, t, k)
          /\ timer_queue' = InsertAfter(timer_queue, k, n)
          /\ node' = [node EXCEPT ![n] = [cb |-> cb, runtime |-> t, delay |-> d, by |-> Main]]
          /\ free_queue' = free_queue \ {n}
    /\ UNCHANGED <<event_queue, event_last, free_bg_queue, exit_event, cancel_handler, process_events,
                   pc, running, event_cnt, deadline, now, bg, before, drain>>

\* The first node of q that carries cb.
FirstMatch(q, cb, i) ==
    /\ node[q[i]].cb = cb
    /\ \A j \in 1..(i - 1) : node[q[j]].cb # cb

NoMatch(q, cb) == \A i \in 1..Len(q) : node[q[i]].cb # cb

ForgetNode(n) ==
    /\ node' = [node EXCEPT ![n] = NoEvent]
    /\ free_queue' = FreeNode(n, free_queue)
    /\ Removed(n)
    /\ drain' = drain \ {n}

\* cancel_event(): the event is in event_queue.
CancelQueued(cb) ==
    /\ OnDispatchThread
    /\ \E i \in 1..Len(event_queue) :
       /\ FirstMatch(event_queue, cb, i)
       /\ event_queue' = DropAt(event_queue, i)
       /\ event_last' = IF i < Len(event_queue) THEN event_last
                        ELSE IF i = 1 THEN NoNode ELSE event_queue[i - 1]
       /\ ForgetNode(event_queue[i])
    /\ UNCHANGED <<timer_queue, free_bg_queue, exit_event, cancel_handler, process_events,
                   pc, running, event_cnt, deadline, now, bg>>

\* cancel_event(): the event is in timer_queue.
CancelTimed(cb) ==
    /\ OnDispatchThread
    /\ NoMatch(event_queue, cb)
    /\ \E i \in 1..Len(timer_queue) :
       /\ FirstMatch(timer_queue, cb, i)
       /\ timer_queue' = DropAt(timer_queue, i)
       /\ ForgetNode(timer_queue[i])
    /\ UNCHANGED <<event_queue, event_last, free_bg_queue, exit_event, cancel_handler, process_events,
                   pc, running, event_cnt, deadline, now, bg>>

\* Variant: timer_queue is not searched before waiting.
CancelWait_NoTimerSearch(cb) ==
    /\ OnDispatchThread
    /\ NoMatch(event_queue, cb)
    /\ cancel_handler' = cb
    /\ pc' = "cancelwait"
    /\ UNCHANGED <<event_queue, event_last, timer_queue, node, free_queue, free_bg_queue, exit_event,
                   process_events, running, event_cnt, deadline, now, bg, before, drain>>

\* cancel_event(wait): the event is nowhere yet, block until it is posted.
\* (With wait = 0 the call returns 0 and changes nothing.)
CancelWait(cb) ==
    /\ OnDispatchThread
    /\ NoMatch(event_queue, cb)
    /\ NoMatch(timer_queue, cb)
    /\ cancel_handler' = cb
    /\ pc' = "cancelwait"
    /\ UNCHANGED <<event_queue, event_last, timer_queue, node, free_queue, free_bg_queue, exit_event,
                   process_events, running, event_cnt, deadline, now, bg, before, drain>>

\* The wait on cancel_cond ends once cancel_handler is NULL.
CancelReturn ==
    /\ pc = "cancelwait"
    /\ cancel_handler = NoCb
    /\ pc' = IF running = NoNode THEN "ini" ELSE "handler"
    /\ UNCHANGED <<event_queue, event_last, timer_queue, node, free_queue, free_bg_queue, exit_event,
                   cancel_handler, process_events, running, event_cnt, deadline, now, bg,
                   before, drain>>

CancelEventLoop ==
    /\ OnDispatchThread
    /\ process_events
    /\ process_events' = FALSE
    /\ UNCHANGED <<event_queue, event_last, timer_queue, node, free_queue, free_bg_queue, exit_event,
                   cancel_handler, pc, running, event_cnt, deadline, now, bg, before, drain>>

-----------------------------------------------------------------------------
(***************************************************************************)
(* Any thread                                                              *)
(***************************************************************************)

\* pthread_cond_signal(&event_cond): wakes the dispatch thread if it waits there.
Signal == IF pc = "wait" THEN pc' = "woken" /\ deadline' = Forever
                         ELSE UNCHANGED <<pc, deadline>>

\* exit_event_loop(): queue exit_event, once, in front of every timer.
ExitEventLoop ==
    /\ exit_event # NoNode
    /\ node' = [node EXCEPT ![exit_event] =
                  [cb |-> ExitCb, runtime |-> 0, delay |-> 0, by |-> Main]]
    /\ timer_queue' = <<exit_event>> \o timer_queue
    /\ exit_event' = NoNode
    /\ drain' = {n \in Pending : Untimed(n)}
    /\ before' = {}
    /\ Signal
    /\ UNCHANGED <<event_queue, event_last, free_queue, free_bg_queue, cancel_handler, process_events,
                   running, event_cnt, now, bg>>

\* post_from_bg_thread(), first half: the clock is read outside event_lock.
BgReadClock(t, cb, d) ==
    /\ bg[t] = Idle /\ MayPost
    /\ now + d <= MaxClock
    /\ bg' = [bg EXCEPT ![t] = [cb |-> cb, runtime |-> now + d, delay |-> d]]
    /\ UNCHANGED <<event_queue, event_last, timer_queue, node, free_queue, free_bg_queue, exit_event,
                   cancel_handler, process_events, pc, running, event_cnt, deadline, now,
                   before, drain>>

\* Variant: cancel_handler is not cleared.
BgPostCancelled_NotCleared(t) ==
    /\ bg[t] # Idle
    /\ cancel_handler = bg[t].cb
    /\ bg' = [bg EXCEPT ![t] = Idle]
    /\ UNCHANGED <<event_queue, event_last, timer_queue, node, free_queue, free_bg_queue, exit_event,
                   cancel_handler, process_events, pc, running, event_cnt, deadline, now,
                   before, drain>>

\* post_from_bg_thread(), under event_lock: cancel_event() waits for this event.
BgPostCancelled(t) ==
    /\ bg[t] # Idle
    /\ cancel_handler = bg[t].cb
    /\ cancel_handler' = NoCb
    /\ bg' = [bg EXCEPT ![t] = Idle]
    /\ UNCHANGED <<event_queue, event_last, timer_queue, node, free_queue, free_bg_queue, exit_event,
                   process_events, pc, running, event_cnt, deadline, now, before, drain>>

\* post_from_bg_thread(), under event_lock: insert, and signal a new first timer.
BgPost(t) ==
    /\ bg[t] # Idle
    /\ cancel_handler # bg[t].cb
    /\ CanAlloc(free_bg_queue)
    /\ LET n == Alloc(free_bg_queue)
           r == bg[t].runtime
       IN \E k \in 0..Len(timer_queue) :
          /\ InsertionPoint(timer_queue, r, k)
          /\ timer_queue' = InsertAfter(timer_queue, k, n)
          /\ node' = [node EXCEPT ![n] = [cb |-> bg[t].cb, runtime |-> r,
                                          delay |-> bg[t].delay, by |-> t]]
          /\ free_bg_queue' = free_bg_queue \ {n}
          /\ IF bg[t].delay = 0 THEN Posted(n) ELSE UNCHANGED before
          /\ IF k = 0 THEN Signal ELSE UNCHANGED <<pc, deadline>>
    /\ bg' = [bg EXCEPT ![t] = Idle]
    /\ UNCHANGED <<event_queue, event_last, free_queue, exit_event, cancel_handler, process_events,
                   running, event_cnt, now, drain>>

Tick ==
    /\ now < MaxClock
    /\ now' = now + 1
    /\ UNCHANGED <<event_queue, event_last, timer_queue, node, free_queue, free_bg_queue, exit_event,
                   cancel_handler, process_events, pc, running, event_cnt, deadline, bg,
                   before, drain>>

-----------------------------------------------------------------------------
(***************************************************************************)
(* run_event_loop()                                                        *)
(***************************************************************************)

RunEventLoop ==
    /\ pc = "ini"
    /\ process_events' = TRUE
    /\ event_cnt' = 0
    /\ pc' = "loop"
    /\ UNCHANGED <<event_queue, event_last, timer_queue, node, free_queue, free_bg_queue, exit_event,
                   cancel_handler, running, deadline, now, bg, before, drain>>

\* Variant: events that come from the timers are counted too.
Dispatch_CountTimed(q, last, cnt) ==
    /\ running' = Head(q)
    /\ event_queue' = Tail(q)
    /\ event_last' = IF Len(q) = 1 THEN NoNode ELSE last
    /\ event_cnt' = cnt + 1
    /\ Removed(Head(q))
    /\ drain' = drain \ {Head(q)}
    /\ pc' = "handler"
    /\ deadline' = Forever

\* Take the first event of q, which ends in last, and enter its handler; count it
\* if it is untimed.
Dispatch(q, last, cnt) ==
    /\ running' = Head(q)
    /\ event_queue' = Tail(q)
    /\ event_last' = IF Len(q) = 1 THEN NoNode ELSE last
    /\ event_cnt' = IF node[Head(q)].runtime = 0 THEN cnt + 1 ELSE cnt
    /\ Removed(Head(q))
    /\ drain' = drain \ {Head(q)}
    /\ pc' = "handler"
    /\ deadline' = Forever

\* Variant: the whole of timer_queue is moved.
Ready_All(k) == k = Len(timer_queue)

\* The timers that are due: the longest prefix with runtime <= now.
Ready(k) ==
    /\ \A i \in 1..k : node[timer_queue[i]].runtime <= now
    /\ k < Len(timer_queue) => now < node[timer_queue[k + 1]].runtime

\* Variant: event_last is not set when event_queue was empty.
MovedLast_NotSet(k) == event_last

\* event_last after the first k timers have moved in front of event_queue.
MovedLast(k) == IF k > 0 /\ event_queue = <<>> THEN timer_queue[k] ELSE event_last

\* The for (;;) loop under event_lock: move what is due to the front of
\* event_queue and dispatch, or wait on event_cond.
Scan ==
    \E k \in 0..Len(timer_queue) :
      /\ Ready(k)
      /\ \/ /\ k > 0 \/ event_queue # <<>>
            /\ timer_queue' = SubSeq(timer_queue, k + 1, Len(timer_queue))
            /\ Dispatch(SubSeq(timer_queue, 1, k) \o event_queue, MovedLast(k), 0)
         \/ /\ k = 0 /\ event_queue = <<>>
            /\ pc' = "wait"
            /\ event_cnt' = 0
            /\ deadline' = IF timer_queue = <<>> THEN Forever
                           ELSE node[Head(timer_queue)].runtime
            /\ UNCHANGED <<event_queue, event_last, timer_queue, running, before, drain>>

\* How many nodes the loop hands over so that other threads find BgReserve of them.
HandOver ==
    LET want == BgReserve - Cardinality(free_bg_queue)
        have == Cardinality(free_queue)
    IN IF want <= 0 THEN 0 ELSE IF want < have THEN want ELSE have

\* The loop looks at the timers: when it has nothing else to do, after BatchLimit
\* untimed events, or after one of them once the tick counter has moved 100 ms.
LoopScan ==
    /\ pc = "loop" /\ process_events
    /\ event_queue = <<>> \/ event_cnt >= 1
    /\ \E given \in SUBSET free_queue :
         /\ Cardinality(given) = HandOver
         /\ free_queue' = free_queue \ given
         /\ free_bg_queue' = free_bg_queue \cup given
    /\ Scan
    /\ UNCHANGED <<node, exit_event, cancel_handler, process_events, now, bg>>

\* Variant: no limit on the untimed events dispatched in a row.
LoopPop_NoLimit ==
    /\ pc = "loop" /\ process_events
    /\ event_queue # <<>>
    /\ Dispatch(event_queue, event_last, 1)
    /\ UNCHANGED <<timer_queue, node, free_queue, free_bg_queue, exit_event, cancel_handler,
                   process_events, now, bg>>

\* The loop dispatches from event_queue without taking event_lock.
LoopPop ==
    /\ pc = "loop" /\ process_events
    /\ event_queue # <<>> /\ event_cnt < BatchLimit
    /\ Dispatch(event_queue, event_last, event_cnt)
    /\ UNCHANGED <<timer_queue, node, free_queue, free_bg_queue, exit_event, cancel_handler,
                   process_events, now, bg>>

\* The wait on event_cond times out, or wakes up for no reason.
WaitTimeout ==
    /\ pc = "wait"
    /\ deadline <= now
    /\ pc' = "woken" /\ deadline' = Forever
    /\ UNCHANGED <<event_queue, event_last, timer_queue, node, free_queue, free_bg_queue, exit_event,
                   cancel_handler, process_events, running, event_cnt, now, bg, before, drain>>

WaitSpurious ==
    /\ pc = "wait"
    /\ pc' = "woken" /\ deadline' = Forever
    /\ UNCHANGED <<event_queue, event_last, timer_queue, node, free_queue, free_bg_queue, exit_event,
                   cancel_handler, process_events, running, event_cnt, now, bg, before, drain>>

\* Back from the wait, still inside the for (;;) loop.
Rescan ==
    /\ pc = "woken"
    /\ Scan
    /\ UNCHANGED <<node, free_queue, free_bg_queue, exit_event, cancel_handler,
                   process_events, now, bg>>

\* The handler returns and its node is freed.
ReleaseRunning(list) ==
    /\ free_queue' = FreeNode(running, list)
    /\ running' = NoNode
    /\ pc' = "loop"

HandlerReturn ==
    /\ pc = "handler" /\ node[running].cb # ExitCb
    /\ node' = [node EXCEPT ![running] = NoEvent]
    /\ ReleaseRunning(free_queue)
    /\ UNCHANGED <<event_queue, event_last, timer_queue, free_bg_queue, exit_event, cancel_handler,
                   process_events, event_cnt, deadline, now, bg, before, drain>>

\* Variant: the loop stops whatever is left in event_queue.
ExitHandlerStop_AtOnce ==
    /\ pc = "handler" /\ node[running].cb = ExitCb
    /\ process_events' = FALSE
    /\ node' = [node EXCEPT ![running] = NoEvent]
    /\ ReleaseRunning(free_queue)
    /\ UNCHANGED <<event_queue, event_last, timer_queue, free_bg_queue, exit_event, cancel_handler,
                   event_cnt, deadline, now, bg, before, drain>>

\* exit_event_handler() with nothing left in event_queue stops the loop.
ExitHandlerStop ==
    /\ pc = "handler" /\ node[running].cb = ExitCb
    /\ event_queue = <<>>
    /\ process_events' = FALSE
    /\ node' = [node EXCEPT ![running] = NoEvent]
    /\ ReleaseRunning(free_queue)
    /\ UNCHANGED <<event_queue, event_last, timer_queue, free_bg_queue, exit_event, cancel_handler,
                   event_cnt, deadline, now, bg, before, drain>>

\* exit_event_handler() queues itself again behind the events that are left.
ExitHandlerRepost ==
    /\ pc = "handler" /\ node[running].cb = ExitCb
    /\ event_queue # <<>>
    /\ CanAlloc(free_queue)
    /\ LET n == Alloc(free_queue) IN
       /\ node' = [node EXCEPT ![n] = [cb |-> ExitCb, runtime |-> 0, delay |-> 0, by |-> Main],
                               ![running] = NoEvent]
       /\ event_queue' = Append(event_queue, n)
       /\ event_last' = n
       /\ ReleaseRunning(free_queue \ {n})
    /\ UNCHANGED <<timer_queue, free_bg_queue, exit_event, cancel_handler, process_events,
                   event_cnt, deadline, now, bg, before, drain>>

LoopExit ==
    /\ pc = "loop" /\ ~process_events
    /\ pc' = "stopped"
    /\ UNCHANGED <<event_queue, event_last, timer_queue, node, free_queue, free_bg_queue, exit_event,
                   cancel_handler, process_events, running, event_cnt, deadline, now, bg,
                   before, drain>>

-----------------------------------------------------------------------------

\* The state after ini_events_queue().
Init ==
    /\ event_queue = <<>> /\ event_last = NoNode /\ timer_queue = <<>>
    /\ node = [n \in Nodes |-> NoEvent]
    /\ free_queue = Pool /\ free_bg_queue = {}
    /\ exit_event = ExitNode
    /\ cancel_handler = NoCb
    /\ process_events = FALSE
    /\ pc = "ini" /\ running = NoNode
    /\ event_cnt = 0 /\ deadline = Forever
    /\ now = 1
    /\ bg = [t \in Threads |-> Idle]
    /\ before = {} /\ drain = {}

\* What handlers and initialisers do.
UserCode ==
    \/ \E cb \in Callbacks :
         \/ PostEvent(cb)
         \/ CancelQueued(cb) \/ CancelTimed(cb) \/ CancelWait(cb)
         \/ \E d \in Delays : PostEventWithDelay(cb, d)
    \/ CancelEventLoop

\* The steps of the loop itself and of the pthread library.
LoopStep ==
    \/ RunEventLoop \/ LoopScan \/ LoopPop \/ LoopExit
    \/ WaitTimeout \/ Rescan
    \/ ExitHandlerStop \/ ExitHandlerRepost
    \/ CancelReturn

BgInsert(t) == BgPost(t) \/ BgPostCancelled(t)

Next ==
    \/ UserCode
    \/ LoopStep
    \/ HandlerReturn
    \/ WaitSpurious
    \/ ExitEventLoop
    \/ Tick
    \/ \E t \in Threads :
         \/ \E cb \in Callbacks, d \in Delays \cup {0} : BgReadClock(t, cb, d)
         \/ BgInsert(t)

\* The dispatch thread and every thread inside post_event() are scheduled, code on
\* the dispatch thread makes finitely many calls and returns, and time passes.
Fairness ==
    /\ WF_vars(LoopStep)
    /\ SF_vars(HandlerReturn \/ RunEventLoop)
    /\ WF_vars(Tick)
    /\ \A t \in Threads : WF_vars(BgInsert(t))

Spec     == Init /\ [][Next]_vars
FairSpec == Spec /\ Fairness

-----------------------------------------------------------------------------
(***************************************************************************)
(* Properties                                                              *)
(***************************************************************************)

Locations == {"ini", "loop", "wait", "woken", "handler", "cancelwait", "stopped"}

\* Every variable has its type.
TypeOK ==
    /\ event_queue \in Seq(Nodes) /\ timer_queue \in Seq(Nodes)
    /\ event_last \in Nodes \cup {NoNode}
    /\ node \in [Nodes -> Event]
    /\ free_queue \subseteq Pool /\ free_bg_queue \subseteq Pool
    /\ exit_event \in {ExitNode, NoNode}
    /\ cancel_handler \in Callbacks \cup {NoCb}
    /\ process_events \in BOOLEAN
    /\ pc \in Locations
    /\ running \in Nodes \cup {NoNode}
    /\ event_cnt \in Nat /\ deadline \in Nat /\ now \in Nat
    /\ bg \in [Threads -> BgState]
    /\ before \subseteq Nodes \X Nodes
    /\ drain \subseteq Nodes

Injective(q) == \A i, j \in 1..Len(q) : q[i] = q[j] => i = j

\* A node is in one place only: no node is linked twice or into two queues, none is
\* free while it is queued or while its handler runs, and no pool node is lost
\* (free_event_node, the hand-over between the free lists, cancel_event).
NodeOwnership ==
    /\ Injective(event_queue) /\ Injective(timer_queue)
    /\ Elems(event_queue) \cap Elems(timer_queue) = {}
    /\ running \notin Pending
    /\ free_queue \cap free_bg_queue = {}
    /\ (free_queue \cup free_bg_queue) \cap InUse = {}
    /\ exit_event \notin InUse
    /\ Pool \subseteq free_queue \cup free_bg_queue \cup InUse

\* event_last is the tail of event_queue, through appends, cancels and moves from
\* timer_queue: post_event() links the next node to it, and four assertions say so.
TailPointer ==
    event_last = IF event_queue = <<>> THEN NoNode ELSE event_queue[Len(event_queue)]

\* timer_queue is sorted by runtime, whoever inserts, in whatever order the threads
\* read the clock and took event_lock.
TimersSorted ==
    \A i, j \in 1..Len(timer_queue) :
        i < j => node[timer_queue[i]].runtime <= node[timer_queue[j]].runtime

\* The lists of nodes hold together, whoever posts, cancels and dispatches.
QueuesIntact == TypeOK /\ NodeOwnership /\ TailPointer /\ TimersSorted

\* While cancel_event() waits, the dispatch thread stays in that call and no event
\* that matches is pending: the one it waits for is still to be posted.
CancelHandshake ==
    cancel_handler # NoCb =>
        /\ pc = "cancelwait"
        /\ \A n \in Pending : node[n].cb # cancel_handler

Dispatched(n) == running' = n /\ running # n

\* No handler runs before its time.
NeverEarly ==
    [][\A n \in Nodes : Dispatched(n) => node[n].runtime <= now]_vars

\* Events that one thread posts with post_event() run in the order of the posts,
\* until exit_event_loop() is called (the exit event is counted as untimed although
\* it heads a batch of timers, so a second batch can overtake the first).
PerThreadOrder ==
    [][\A n \in Nodes : Dispatched(n) /\ exit_event # NoNode =>
         \A m \in Nodes : <<m, n>> \in before => node[m].by # node[n].by]_vars

\* exit_event_loop() lets the loop finish: when exit_event_handler() stops it, every
\* event posted without delay before the call has been dispatched or cancelled.
ExitDrains ==
    [][pc = "handler" /\ node[running].cb = ExitCb /\ ~process_events' => drain = {}]_vars

\* No pending event is starved: neither a timer by a stream of untimed events nor
\* the other way round, and no wake-up is lost.  Unless the loop stops, or waits in
\* cancel_event() for ever, every pending event is dispatched or cancelled.
EveryEventRuns ==
    \/ <>[](pc \in {"stopped", "cancelwait"})
    \/ \A n \in Nodes : n \in Pending ~> n \notin Pending

\* cancel_event() returns when a thread is posting the event it waits for.
CancelReturns ==
    \A t \in Threads :
        (pc = "cancelwait" /\ cancel_handler # NoCb /\ bg[t].cb = cancel_handler)
            ~> pc # "cancelwait"

=============================================================================

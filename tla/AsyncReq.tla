------------------------------ MODULE AsyncReq ------------------------------
(***************************************************************************)
(* The worker thread pool of agent/tcf/framework/asyncreq.c, together with *)
(* the shutdown manager it registers with (module Shutdown).               *)
(*                                                                         *)
(* A request is handed to an idle worker, or to a new one, runs there, and *)
(* comes back as an event that calls its done function on the dispatch     *)
(* thread.  Every step of the dispatch thread, of a worker and of a        *)
(* background poster is an action; wtlock is held between the two steps of *)
(* a worker that completes a request.  The events of one worker are        *)
(* dispatched in the order it posted them (EventQueue!PerThreadOrder), the *)
(* events of different threads in any order.  The system call a request    *)
(* stands for takes any time; AIO is not used.                             *)
(***************************************************************************)
EXTENDS Shutdown, FiniteSets

CONSTANTS
    Async,          \* the ShutdownInfo object async_shutdown
    Workers,        \* the WorkerThread objects (bounds the threads alive at once)
    NoWorker,
    Reqs,           \* the requests of the clients
    BgReqs,         \* those posted by threads other than the dispatch thread
    TimerReq,       \* timer_req
    ShutdownReq,    \* shutdown_req
    NoReq,
    MAX_WORKER_THREADS

ASSUME AsyncReqAssumption ==
    /\ Async \in Objs \ Renewable
    /\ NoWorker \notin Workers
    /\ IsFiniteSet(Workers)
    /\ BgReqs \subseteq Reqs
    /\ {TimerReq, ShutdownReq, NoReq} \cap Reqs = {}
    /\ TimerReq # ShutdownReq /\ TimerReq # NoReq /\ ShutdownReq # NoReq
    /\ MAX_WORKER_THREADS \in Nat

VARIABLES
    wstat,          \* where each worker is in worker_thread_handler()
    wreq,           \* WorkerThread.req
    wtlist,         \* the idle workers (wtlist_size is its length)
    wtlock,         \* the worker that holds the mutex between two steps, or NoWorker
    wtrunning_count,
    posted,         \* for each worker the done events it posted, not yet dispatched
    deferred,       \* the worker_thread_add_deferred events in the queue
    timer_event,    \* TRUE while the start_timer event is in the queue
    waitreq         \* the request cancel_event() waits for on the dispatch thread, or NoReq

poolvars == <<wstat, wreq, wtlist, wtlock, wtrunning_count, posted, deferred, timer_event, waitreq>>
arvars   == <<sdvars, poolvars>>

-----------------------------------------------------------------------------

Live == {w \in Workers : wstat[w] # "none"}

InEvents(r) == {w \in Workers : \E i \in 1..Len(posted[w]) : posted[w][i] = r}

InWorker(r) == {w \in Workers : wreq[w] = r}

\* A request its client may fill in and post.
Free(r) == r \notin deferred /\ InEvents(r) = {} /\ InWorker(r) = {}

\* An event handler, or a shutdown callback of another subsystem, runs.
InClient == waitreq = NoReq /\ (sdpc = "loop" \/ (sdpc = "callback" /\ cur # Async))

\* The event loop is about to dispatch an event.
InLoop == waitreq = NoReq /\ sdpc = "loop"

-----------------------------------------------------------------------------

\* worker_thread_add(): the first thread registers the pool with the shutdown manager.
WorkerThreadAdd(r) ==
    /\ \E w \in Workers :
        /\ wstat[w] = "none"
        /\ wstat' = [wstat EXCEPT ![w] = "run"]
        /\ wreq' = [wreq EXCEPT ![w] = r]
    /\ wtrunning_count' = wtrunning_count + 1
    /\ IF wtrunning_count = 0 THEN SetNormal(Async)
                              ELSE UNCHANGED <<state, shutdown_active>>
    /\ UNCHANGED wtlist

\* async_req_post() gives the request to the first idle worker and signals it.
HandOut(r) ==
    /\ wreq' = [wreq EXCEPT ![Head(wtlist)] = r]
    /\ wtlist' = Tail(wtlist)
    /\ UNCHANGED <<wstat, wtrunning_count, state, shutdown_active>>

\* async_req_post() on the dispatch thread.
Post(r) ==
    /\ wtlock = NoWorker
    /\ IF wtlist = <<>> THEN WorkerThreadAdd(r) ELSE HandOut(r)
    /\ UNCHANGED <<wtlock, posted, deferred, waitreq>>
    /\ UNCHANGED <<shutdown_complete_handler, notify_pending, notify_events, sdpc, cur, next>>

AsyncReqPost(r) ==
    /\ InClient
    /\ Free(r) /\ r \notin BgReqs
    /\ Post(r)
    /\ UNCHANGED timer_event

\* start_timer(), posted by ini_asyncreq().
StartTimer ==
    /\ InLoop
    /\ timer_event
    /\ timer_event' = FALSE
    /\ Post(TimerReq)

\* async_req_post() on another thread: a new worker needs the dispatch thread.
AsyncReqPostBg(r) ==
    /\ wtlock = NoWorker
    /\ Free(r) /\ r \in BgReqs
    /\ \/ /\ wtlist = <<>> /\ deferred' = deferred \cup {r}
          /\ UNCHANGED <<wreq, wtlist, wstat, wtrunning_count, state, shutdown_active>>
       \/ wtlist # <<>> /\ HandOut(r) /\ UNCHANGED deferred
    /\ UNCHANGED <<wtlock, posted, timer_event, waitreq>>
    /\ UNCHANGED <<shutdown_complete_handler, notify_pending, notify_events, sdpc, cur, next>>

WorkerThreadAddDeferred(r) ==
    /\ InLoop
    /\ r \in deferred /\ wtlock = NoWorker
    /\ deferred' = deferred \ {r}
    /\ WorkerThreadAdd(r)
    /\ UNCHANGED <<wtlock, posted, timer_event, waitreq>>
    /\ UNCHANGED <<shutdown_complete_handler, notify_pending, notify_events, sdpc, cur, next>>

-----------------------------------------------------------------------------
(***************************************************************************)
(* worker_thread_handler()                                                 *)
(***************************************************************************)

\* The request is complete: its event is posted with wtlock held, and reaches the queue
\* or the cancel_event() that waits for it.
WorkerPostDone(w) ==
    /\ wstat[w] = "run" /\ wreq[w] \in Reqs
    /\ wtlock = NoWorker
    /\ wtlock' = w
    /\ wreq' = [wreq EXCEPT ![w] = NoReq]
    /\ IF waitreq = wreq[w]
         THEN waitreq' = NoReq /\ UNCHANGED posted
         ELSE posted' = [posted EXCEPT ![w] = Append(@, wreq[w])] /\ UNCHANGED waitreq
    /\ wstat' = [wstat EXCEPT ![w] = "parking"]
    /\ UNCHANGED <<wtlist, wtrunning_count, deferred, timer_event, sdvars>>

\* Variant: a shutdown on its way is not looked at.
WorkerPark_NoShutdown(w) ==
    /\ wstat[w] = "parking" /\ wtlock = w
    /\ wtlock' = NoWorker
    /\ IF Len(wtlist) >= MAX_WORKER_THREADS
         THEN wstat' = [wstat EXCEPT ![w] = "leaving"] /\ UNCHANGED wtlist
         ELSE wstat' = [wstat EXCEPT ![w] = "idle"] /\ wtlist' = Append(wtlist, w)
    /\ UNCHANGED <<wreq, wtrunning_count, posted, deferred, timer_event, waitreq, sdvars>>

\* Variant: the mutex is not released by a worker that leaves.
WorkerPark_KeepsLock(w) ==
    /\ wstat[w] = "parking" /\ wtlock = w
    /\ IF Len(wtlist) >= MAX_WORKER_THREADS \/ state[Async] = "PENDING"
         THEN wstat' = [wstat EXCEPT ![w] = "leaving"] /\ UNCHANGED <<wtlist, wtlock>>
         ELSE wstat' = [wstat EXCEPT ![w] = "idle"] /\ wtlist' = Append(wtlist, w) /\ wtlock' = NoWorker
    /\ UNCHANGED <<wreq, wtrunning_count, posted, deferred, timer_event, waitreq, sdvars>>

\* The worker becomes idle, or leaves: too many are idle or the pool is shutting down.
WorkerPark(w) ==
    /\ wstat[w] = "parking" /\ wtlock = w
    /\ wtlock' = NoWorker
    /\ IF Len(wtlist) >= MAX_WORKER_THREADS \/ state[Async] = "PENDING"
         THEN wstat' = [wstat EXCEPT ![w] = "leaving"] /\ UNCHANGED wtlist
         ELSE wstat' = [wstat EXCEPT ![w] = "idle"] /\ wtlist' = Append(wtlist, w)
    /\ UNCHANGED <<wreq, wtrunning_count, posted, deferred, timer_event, waitreq, sdvars>>

\* pthread_cond_wait() returns and wt->req is set (otherwise the worker waits again).
WorkerWake(w) ==
    /\ wstat[w] = "idle" /\ wreq[w] # NoReq
    /\ wtlock = NoWorker
    /\ wstat' = [wstat EXCEPT ![w] = IF wreq[w] = ShutdownReq THEN "leaving" ELSE "run"]
    /\ UNCHANGED <<wreq, wtlist, wtlock, wtrunning_count, posted, deferred, timer_event, waitreq, sdvars>>

\* The timer request ends only when it sees the shutdown, which it reads without wtlock;
\* a tick that does not see it changes nothing modelled here.
TimerTick(w) ==
    /\ wstat[w] = "run" /\ wreq[w] = TimerReq
    /\ state[Async] = "PENDING"
    /\ wstat' = [wstat EXCEPT ![w] = "leaving"]
    /\ UNCHANGED <<wreq, wtlist, wtlock, wtrunning_count, posted, deferred, timer_event, waitreq, sdvars>>

\* The thread ends, its last act is to post worker_thread_exit.
WorkerLeave(w) ==
    /\ wstat[w] = "leaving"
    /\ wstat' = [wstat EXCEPT ![w] = "exited"]
    /\ UNCHANGED <<wreq, wtlist, wtlock, wtrunning_count, posted, deferred, timer_event, waitreq, sdvars>>

-----------------------------------------------------------------------------
(***************************************************************************)
(* The dispatch thread                                                     *)
(***************************************************************************)

\* Variant: worker_thread_exit is dispatched although done events of the worker are not.
WorkerThreadExit_Early(w) ==
    /\ InLoop
    /\ wstat[w] = "exited"
    /\ wtlock = NoWorker
    /\ wstat' = [wstat EXCEPT ![w] = "none"]
    /\ wreq' = [wreq EXCEPT ![w] = NoReq]
    /\ wtrunning_count' = wtrunning_count - 1
    /\ IF wtrunning_count = 1
         THEN SetStopped(Async)
         ELSE UNCHANGED <<state, shutdown_active, notify_pending, notify_events>>
    /\ UNCHANGED <<wtlist, wtlock, posted, deferred, timer_event, waitreq>>
    /\ UNCHANGED <<shutdown_complete_handler, sdpc, cur, next>>

\* Variant: the pool forgets to report that it has stopped.
WorkerThreadExit_Silent(w) ==
    /\ InLoop
    /\ wstat[w] = "exited" /\ posted[w] = <<>>
    /\ wtlock = NoWorker
    /\ wstat' = [wstat EXCEPT ![w] = "none"]
    /\ wreq' = [wreq EXCEPT ![w] = NoReq]
    /\ wtrunning_count' = wtrunning_count - 1
    /\ UNCHANGED <<state, shutdown_active, notify_pending, notify_events>>
    /\ UNCHANGED <<wtlist, wtlock, posted, deferred, timer_event, waitreq>>
    /\ UNCHANGED <<shutdown_complete_handler, sdpc, cur, next>>

\* worker_thread_exit(): the last thread reports to the shutdown manager.
WorkerThreadExit(w) ==
    /\ InLoop
    /\ wstat[w] = "exited" /\ posted[w] = <<>>
    /\ wtlock = NoWorker
    /\ wstat' = [wstat EXCEPT ![w] = "none"]
    /\ wreq' = [wreq EXCEPT ![w] = NoReq]
    /\ wtrunning_count' = wtrunning_count - 1
    /\ IF wtrunning_count = 1
         THEN SetStopped(Async)
         ELSE UNCHANGED <<state, shutdown_active, notify_pending, notify_events>>
    /\ UNCHANGED <<wtlist, wtlock, posted, deferred, timer_event, waitreq>>
    /\ UNCHANGED <<shutdown_complete_handler, sdpc, cur, next>>

\* Variant: cancel_event() waits although the event is in the queue.
CancelDone_AlwaysWait(r) ==
    /\ InClient
    /\ ~Free(r) /\ r \notin BgReqs
    /\ waitreq' = r
    /\ UNCHANGED <<wstat, wreq, wtlist, wtlock, wtrunning_count, posted, deferred, timer_event, sdvars>>

\* req->done(req): the request is its client's again.
DoneHandler(w) ==
    /\ InLoop
    /\ posted[w] # <<>>
    /\ posted' = [posted EXCEPT ![w] = Tail(@)]
    /\ UNCHANGED <<wstat, wreq, wtlist, wtlock, wtrunning_count, deferred, timer_event, waitreq, sdvars>>

\* cancel_event(req->done, req, 1) for a request that is outstanding: its event is taken
\* out of the queue, or the dispatch thread waits until a worker posts it.
CancelDone(r) ==
    /\ InClient
    /\ ~Free(r) /\ r \notin BgReqs
    /\ IF InEvents(r) # {}
         THEN /\ posted' = [w \in Workers |-> Unlink(posted[w], r)]
              /\ UNCHANGED waitreq
         ELSE waitreq' = r /\ UNCHANGED posted
    /\ UNCHANGED <<wstat, wreq, wtlist, wtlock, wtrunning_count, deferred, timer_event, sdvars>>

\* Variant: a pool with no busy worker reports at once that it has stopped.
TriggerAsyncShutdown_StopsNow ==
    /\ sdpc = "callback" /\ cur = Async
    /\ wtlock = NoWorker
    /\ wreq' = [w \in Workers |-> IF \E i \in 1..Len(wtlist) : wtlist[i] = w
                                    THEN ShutdownReq ELSE wreq[w]]
    /\ wtlist' = <<>>
    /\ SetStopped(Async)
    /\ sdpc' = "notify" /\ cur' = NoObj
    /\ UNCHANGED <<shutdown_complete_handler, next>>
    /\ UNCHANGED <<wstat, wtlock, wtrunning_count, posted, deferred, timer_event, waitreq>>

\* trigger_async_shutdown(): every idle worker is told to leave.
TriggerAsyncShutdown ==
    /\ sdpc = "callback" /\ cur = Async
    /\ wtlock = NoWorker
    /\ wreq' = [w \in Workers |-> IF \E i \in 1..Len(wtlist) : wtlist[i] = w
                                    THEN ShutdownReq ELSE wreq[w]]
    /\ wtlist' = <<>>
    /\ CallbackReturn
    /\ UNCHANGED <<wstat, wtlock, wtrunning_count, posted, deferred, timer_event, waitreq>>

\* notify_all() calls the pool back, or does one of its other steps.  The start_timer
\* event was posted by the dispatch thread before any notify_all event.
PoolNotifyStep ==
    \/ TriggerAsyncShutdown
    \/ /\ waitreq = NoReq
       /\ \/ NotifyAll /\ ~timer_event
          \/ NotifyOne
          \/ CallbackReturn /\ cur # Async
          \/ NotifyDone
       /\ UNCHANGED poolvars

\* The other subsystems and the initiator of the shutdown.
OtherStop(o) == o # Async /\ waitreq = NoReq /\ Stop(o) /\ UNCHANGED poolvars

OtherRegister(o) == o # Async /\ InClient /\ Register(o) /\ UNCHANGED poolvars

Start == waitreq = NoReq /\ ShutdownStart /\ UNCHANGED poolvars

-----------------------------------------------------------------------------

ArInit ==
    /\ SdInit
    /\ wstat = [w \in Workers |-> "none"]
    /\ wreq = [w \in Workers |-> NoReq]
    /\ wtlist = <<>>
    /\ wtlock = NoWorker
    /\ wtrunning_count = 0
    /\ posted = [w \in Workers |-> <<>>]
    /\ deferred = {}
    /\ timer_event = TRUE
    /\ waitreq = NoReq

WorkerStep(w) ==
    \/ WorkerPostDone(w) \/ WorkerPark(w) \/ WorkerWake(w)
    \/ TimerTick(w) \/ WorkerLeave(w)

DispatchStep(w) == WorkerThreadExit(w) \/ DoneHandler(w)

ArNext ==
    \/ Start \/ StartTimer \/ PoolNotifyStep
    \/ \E o \in Objs : OtherRegister(o) \/ OtherStop(o)
    \/ \E r \in Reqs : \/ AsyncReqPost(r) \/ AsyncReqPostBg(r)
                       \/ WorkerThreadAddDeferred(r) \/ CancelDone(r)
    \/ \E w \in Workers : WorkerStep(w) \/ DispatchStep(w)

\* Threads run, system calls return, wtlock is not kept from a thread for ever, and the
\* loop dispatches every event in the end (EventQueue!EveryEventRuns); a subsystem that
\* has been notified stops.
ArFairness ==
    /\ SF_arvars(StartTimer)
    /\ SF_arvars(PoolNotifyStep)
    /\ \A o \in Objs \ {Async} : SF_arvars(state[o] = "PENDING" /\ OtherStop(o))
    /\ \A r \in BgReqs : SF_arvars(WorkerThreadAddDeferred(r))
    /\ \A w \in Workers : SF_arvars(WorkerStep(w)) /\ SF_arvars(DispatchStep(w))

ArSpec     == ArInit /\ [][ArNext]_arvars
ArFairSpec == ArSpec /\ ArFairness

-----------------------------------------------------------------------------
(***************************************************************************)
(* Properties                                                              *)
(***************************************************************************)

\* Every variable has its type.
ArTypeOK ==
    /\ wstat \in [Workers -> {"none", "run", "parking", "idle", "leaving", "exited"}]
    /\ wreq \in [Workers -> Reqs \cup {NoReq, TimerReq, ShutdownReq}]
    /\ wtlist \in Seq(Workers)
    /\ wtlock \in Workers \cup {NoWorker}
    /\ wtrunning_count \in Nat
    /\ posted \in [Workers -> Seq(Reqs)]
    /\ deferred \subseteq Reqs
    /\ timer_event \in BOOLEAN
    /\ waitreq \in Reqs \cup {NoReq}

\* A request is with one worker, in one event or deferred once, and never in two of them.
OnePlace(r) ==
    /\ \A v, w \in InWorker(r) : v = w
    /\ \A v, w \in Workers : \A i \in 1..Len(posted[v]), j \in 1..Len(posted[w]) :
          posted[v][i] = r /\ posted[w][j] = r => v = w /\ i = j
    /\ InWorker(r) = {} \/ InEvents(r) = {}
    /\ r \in deferred => InWorker(r) = {} /\ InEvents(r) = {}

\* A request is in one place at most, so its done function is called once per post; no
\* thread ends with a request it was given; and the dispatch thread waits only for a
\* request some worker still has.
ReqConservation ==
    /\ \A r \in Reqs : OnePlace(r)
    /\ \A w \in Workers : wstat[w] \in {"none", "leaving", "exited"} => wreq[w] \notin Reqs
    /\ waitreq # NoReq => InWorker(waitreq) # {}

\* wtlist holds exactly the idle workers that were given nothing, once each, and no more
\* of them than MAX_WORKER_THREADS: the assertions wt->req == NULL hold.
IdlePool ==
    /\ \A w \in Workers :
        (\E i \in 1..Len(wtlist) : wtlist[i] = w) <=> wstat[w] = "idle" /\ wreq[w] = NoReq
    /\ \A i, j \in 1..Len(wtlist) : wtlist[i] = wtlist[j] => i = j
    /\ Len(wtlist) <= MAX_WORKER_THREADS

\* wtrunning_count counts the threads whose worker_thread_exit has not run, and the pool
\* is registered with the shutdown manager exactly while there are any.
PoolCount ==
    /\ wtrunning_count = Cardinality(Live)
    /\ state[Async] = "STOPPED" <=> wtrunning_count = 0

\* Once the pool has been called back, no worker idles until it has stopped: a worker
\* that parks while the callback is on its way is not missed.
NoIdleLeft == state[Async] = "PENDING" /\ cur # Async => wtlist = <<>>

\* The pool's lists and counts are exact, in every interleaving with the shutdown.
PoolExact == ArTypeOK /\ IdlePool /\ PoolCount /\ NoIdleLeft

\* When the shutdown has cancelled the loop every thread has ended, and every request was
\* answered but those that a background thread handed over too late.
ShutdownDrains ==
    /\ StopsClean
    /\ sdpc = "stopped" => Live = {} /\ \A r \in Reqs : Free(r) \/ r \in deferred

\* The pool uses the shutdown manager as module Shutdown allows.
UsesShutdown == SdSpec

\* Every request posted on the dispatch thread is answered, whatever other threads post.
RequestsComplete == \A r \in Reqs \ BgReqs : ~Free(r) ~> Free(r)

\* No stopped subsystem is started and no request posted any more.
Quiet ==
    [][/\ \A o \in Objs \ {Async} : state[o] = "STOPPED" => state'[o] = "STOPPED"
       /\ \A r \in Reqs : Free(r) => Free(r)']_arvars

\* A shutdown ends every thread and the loop, although the pool restarts when a request
\* is posted after its last thread has gone, if clients do not go on for ever.
PoolShutdownCompletes == <>Quiet => (shutdown_complete_handler ~> sdpc = "stopped")

=============================================================================

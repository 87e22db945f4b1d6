-------------------------------- MODULE Cache --------------------------------
(***************************************************************************)
(* The data cache transactions of agent/tcf/framework/cache.c.             *)
(*                                                                         *)
(* A cache client is run; when data it needs is not there it waits on a    *)
(* cache and ends with an exception, and it is run again from the start    *)
(* when that cache is notified.  Everything runs on the dispatch thread.   *)
(* Calls nest: cache_notify() runs clients from inside a handler, and a    *)
(* client may itself cause a cache_notify() after cache_exit() (run        *)
(* control's listeners do).  stack holds one frame per active              *)
(* run_cache_client().  What a client does between two calls of this       *)
(* module is not modelled: it may miss, catch the miss and go on, call     *)
(* cache_exit(), or end with any exception, at any time.                   *)
(***************************************************************************)
EXTENDS Integers, Sequences, FiniteSets

CONSTANTS
    Caches,         \* the AbstractCache objects
    Clients,        \* the cache client transactions (function and arguments)
    NoClient,
    Channels,
    NoChannel,
    HasArgs,        \* the clients with arguments (args is not NULL)
    Nests,          \* the clients whose code calls cache_notify() after cache_exit()
    IdMod,          \* transaction ids are unsigned: 2^32
    MaxMiss         \* bound on the misses a client catches in one run

ASSUME CacheAssumption ==
    /\ NoClient \notin Clients /\ NoChannel \notin Channels
    /\ HasArgs \subseteq Clients /\ Nests \subseteq Clients
    /\ IdMod \in Nat \ {0, 1}
    /\ MaxMiss \in Nat \ {0}

VARIABLES
    current_client,     \* the WaitingCacheClient that runs, or NoEntry
    client_exited,
    cache_miss_cnt,
    id_cnt,
    wait_list,          \* for each cache wait_list_buf[0..wait_list_cnt-1]
    wait_list_buf,      \* the static buffer cache_notify() runs clients from
    later,              \* the buffers of the cache_notify_event events in the queue
    locks,              \* for each channel the locks taken with channel_lock_msg
    heap,               \* the clients whose arguments are held in a copy
    stack               \* the active calls of run_cache_client(), innermost last

cavars == <<current_client, client_exited, cache_miss_cnt, id_cnt, wait_list, wait_list_buf,
            later, locks, heap, stack>>

-----------------------------------------------------------------------------

\* WaitingCacheClient; args_copy is kept as copy.
Entry   == [client : Clients, id : 0..IdMod - 1, channel : Channels \cup {NoChannel}, copy : BOOLEAN]
NoEntry == [client |-> NoClient, id |-> 0, channel |-> NoChannel, copy |-> FALSE]

\* A frame: who called run_cache_client(), for which client; the loop index and count of
\* cache_notify() or the buffer of cache_notify_event(); whether the client has called
\* cache_exit() in this run.
Frame == [kind : {"enter", "notify", "later"}, client : Clients, i : Nat, cnt : Nat,
          buf : Seq(Entry), exited : BOOLEAN]

Top == stack[Len(stack)]
Popped == SubSeq(stack, 1, Len(stack) - 1)

\* The entry with index i of the loop that frame f stands for.
LoopEntry(f, i) == IF f.kind = "later" THEN f.buf[i] ELSE wait_list_buf[i]

\* Where an entry can be: in a wait list, in a posted buffer, in a loop.
InLists == UNION {{<<"wait", c, i>> : i \in 1..Len(wait_list[c])} : c \in Caches}
InLater == UNION {{<<"later", j, i>> : i \in 1..Len(later[j])} : j \in 1..Len(later)}
InLoops == UNION {{<<"loop", k, i>> : i \in stack[k].i..stack[k].cnt} : k \in 1..Len(stack)}
Places  == InLists \cup InLater \cup InLoops

At(p) ==
    IF p[1] = "wait" THEN wait_list[p[2]][p[3]]
    ELSE IF p[1] = "later" THEN later[p[2]][p[3]]
    ELSE LoopEntry(stack[p[2]], p[3])

\* The entries whose client is still to be run: not the one a loop has reached.
Waiting(cl) ==
    {p \in Places : /\ At(p).client = cl
                    /\ p \in InLoops => p[3] > stack[p[2]].i}

Outstanding(cl) == Waiting(cl) # {} \/ \E k \in 1..Len(stack) : stack[k].client = cl

-----------------------------------------------------------------------------

\* Lock or unlock the channel of a client.
Lock(ch, n) ==
    IF ch = NoChannel THEN UNCHANGED locks ELSE locks' = [locks EXCEPT ![ch] = @ + n]

\* run_cache_client() starts: the frame on top is for entry e.
StartRun(e) ==
    /\ current_client' = e
    /\ cache_miss_cnt' = 0
    /\ client_exited' = FALSE

\* The id cache_enter() takes when id_cnt is n.
NextId(n) == IF n = 0 THEN 1 ELSE n

\* cache_enter()
CacheEnter(cl, ch) ==
    /\ stack = <<>>
    /\ ~Outstanding(cl)
    /\ id_cnt' = (NextId(id_cnt) + 1) % IdMod
    /\ StartRun([client |-> cl, id |-> NextId(id_cnt), channel |-> ch, copy |-> FALSE])
    /\ stack' = <<[kind |-> "enter", client |-> cl, i |-> 1, cnt |-> 0, buf |-> <<>>, exited |-> FALSE]>>
    /\ UNCHANGED <<wait_list, wait_list_buf, later, locks, heap>>

\* cache_exit() with no miss so far (with a miss it throws, which is ClientEnds).
CacheExit ==
    /\ stack # <<>> /\ ~Top.exited
    /\ current_client # NoEntry
    /\ cache_miss_cnt = 0
    /\ client_exited' = TRUE
    /\ stack' = [stack EXCEPT ![Len(stack)].exited = TRUE]
    /\ UNCHANGED <<current_client, cache_miss_cnt, id_cnt, wait_list, wait_list_buf, later, locks, heap>>

\* The client e when its arguments, if it has any, are held in a copy.
Kept(e) == [e EXCEPT !.copy = e.client \in HasArgs]

\* Variant: a client that holds a lock from an earlier miss does not take another.
CacheWait_LockOnce(c) ==
    /\ stack # <<>> /\ ~client_exited
    /\ cache_miss_cnt < MaxMiss
    /\ IF current_client # NoEntry /\ cache_miss_cnt = 0
         THEN LET e == Kept(current_client) IN
                /\ current_client' = e
                /\ heap' = heap \cup ({e.client} \cap HasArgs)
                /\ wait_list' = [wait_list EXCEPT ![c] = Append(@, e)]
                /\ IF current_client.copy THEN UNCHANGED locks ELSE Lock(e.channel, 1)
         ELSE UNCHANGED <<current_client, heap, wait_list, locks>>
    /\ cache_miss_cnt' = cache_miss_cnt + 1
    /\ UNCHANGED <<client_exited, id_cnt, wait_list_buf, later, stack>>

\* Variant: a client that is run again is not queued again.
CacheWait_OnlyOnce(c) ==
    /\ stack # <<>> /\ ~client_exited
    /\ cache_miss_cnt < MaxMiss
    /\ IF current_client # NoEntry /\ cache_miss_cnt = 0 /\ ~current_client.copy
         THEN LET e == Kept(current_client) IN
                /\ current_client' = e
                /\ heap' = heap \cup ({e.client} \cap HasArgs)
                /\ wait_list' = [wait_list EXCEPT ![c] = Append(@, e)]
                /\ Lock(e.channel, 1)
         ELSE UNCHANGED <<current_client, heap, wait_list, locks>>
    /\ cache_miss_cnt' = cache_miss_cnt + 1
    /\ UNCHANGED <<client_exited, id_cnt, wait_list_buf, later, stack>>

\* cache_wait(): the first miss of a run queues the client, keeps a copy of its arguments
\* and locks its channel; the exception may be caught in the client.
CacheWait(c) ==
    /\ stack # <<>> /\ ~client_exited
    /\ cache_miss_cnt < MaxMiss
    /\ IF current_client # NoEntry /\ cache_miss_cnt = 0
         THEN LET e == Kept(current_client) IN
                /\ current_client' = e
                /\ heap' = heap \cup ({e.client} \cap HasArgs)
                /\ wait_list' = [wait_list EXCEPT ![c] = Append(@, e)]
                /\ Lock(e.channel, 1)
         ELSE UNCHANGED <<current_client, heap, wait_list, locks>>
    /\ cache_miss_cnt' = cache_miss_cnt + 1
    /\ UNCHANGED <<client_exited, id_cnt, wait_list_buf, later, stack>>

\* run_cache_client() frees the copied arguments of a client that does not wait.
FreeArgs ==
    heap' = IF cache_miss_cnt = 0 /\ current_client.copy THEN heap \ {current_client.client} ELSE heap

\* Variant: the loop ends when a client waits again.
ClientEnds_StopOnMiss ==
    /\ stack # <<>>
    /\ FreeArgs
    /\ Lock(IF Top.kind = "enter" THEN NoChannel ELSE LoopEntry(Top, Top.i).channel, -1)
    /\ IF Top.kind # "enter" /\ Top.i < Top.cnt /\ cache_miss_cnt = 0
         THEN LET e == LoopEntry(Top, Top.i + 1) IN
                /\ StartRun(e)
                /\ stack' = Append(Popped, [Top EXCEPT !.i = @ + 1, !.client = e.client, !.exited = FALSE])
         ELSE StartRun(NoEntry) /\ stack' = Popped
    /\ UNCHANGED <<id_cnt, wait_list, wait_list_buf, later>>

\* The client returns or throws: run_cache_client() ends, the loop it is called from
\* unlocks the channel of its entry and goes on.
ClientEnds ==
    /\ stack # <<>>
    /\ FreeArgs
    /\ Lock(IF Top.kind = "enter" THEN NoChannel ELSE LoopEntry(Top, Top.i).channel, -1)
    /\ IF Top.kind # "enter" /\ Top.i < Top.cnt
         THEN LET e == LoopEntry(Top, Top.i + 1) IN
                /\ StartRun(e)
                /\ stack' = Append(Popped, [Top EXCEPT !.i = @ + 1, !.client = e.client, !.exited = FALSE])
         ELSE StartRun(NoEntry) /\ stack' = Popped
    /\ UNCHANGED <<id_cnt, wait_list, wait_list_buf, later>>

\* The static buffer after memcpy(): what is beyond the copied entries stays.
Overwrite(old, new) ==
    [i \in 1..(IF Len(old) > Len(new) THEN Len(old) ELSE Len(new)) |->
        IF i <= Len(new) THEN new[i] ELSE old[i]]

\* cache_notify(), from a handler or from a client after cache_exit().
CacheNotify(c) ==
    /\ stack # <<>> => Top.exited /\ Top.client \in Nests
    /\ wait_list[c] # <<>>
    /\ wait_list' = [wait_list EXCEPT ![c] = <<>>]
    /\ wait_list_buf' = Overwrite(wait_list_buf, wait_list[c])
    /\ StartRun(wait_list[c][1])
    /\ stack' = Append(stack, [kind |-> "notify", client |-> wait_list[c][1].client, i |-> 1,
                               cnt |-> Len(wait_list[c]), buf |-> <<>>, exited |-> FALSE])
    /\ UNCHANGED <<id_cnt, later, locks, heap>>

\* cache_notify_later(), called when a reply has filled the cache.
CacheNotifyLater(c) ==
    /\ stack = <<>>
    /\ wait_list[c] # <<>>
    /\ wait_list' = [wait_list EXCEPT ![c] = <<>>]
    /\ later' = Append(later, wait_list[c])
    /\ UNCHANGED <<current_client, client_exited, cache_miss_cnt, id_cnt, wait_list_buf, locks, heap, stack>>

\* The event cache_notify_event() is dispatched.
CacheNotifyEvent ==
    /\ stack = <<>>
    /\ later # <<>>
    /\ later' = Tail(later)
    /\ LET buf == Head(later) IN
         /\ StartRun(buf[1])
         /\ stack' = <<[kind |-> "later", client |-> buf[1].client, i |-> 1, cnt |-> Len(buf),
                        buf |-> buf, exited |-> FALSE]>>
    /\ UNCHANGED <<id_cnt, wait_list, wait_list_buf, locks, heap>>

-----------------------------------------------------------------------------

CaInit ==
    /\ current_client = NoEntry
    /\ client_exited = FALSE
    /\ cache_miss_cnt = 0
    /\ id_cnt = 0
    /\ wait_list = [c \in Caches |-> <<>>]
    /\ wait_list_buf = <<>>
    /\ later = <<>>
    /\ locks = [ch \in Channels |-> 0]
    /\ heap = {}
    /\ stack = <<>>

CaNext ==
    \/ \E cl \in Clients, ch \in Channels \cup {NoChannel} : CacheEnter(cl, ch)
    \/ CacheExit \/ ClientEnds \/ CacheNotifyEvent
    \/ \E c \in Caches : CacheWait(c) \/ CacheNotify(c) \/ CacheNotifyLater(c)

\* A client ends, events are dispatched, and every cache that is waited for is filled.
CaFairness ==
    /\ WF_cavars(ClientEnds)
    /\ SF_cavars(CacheNotifyEvent)
    /\ \A c \in Caches : SF_cavars(CacheNotify(c) \/ CacheNotifyLater(c))

CaSpec     == CaInit /\ [][CaNext]_cavars
CaFairSpec == CaSpec /\ CaFairness

-----------------------------------------------------------------------------
(***************************************************************************)
(* Properties                                                              *)
(***************************************************************************)

\* Every variable has its type.
CaTypeOK ==
    /\ current_client \in Entry \cup {NoEntry}
    /\ client_exited \in BOOLEAN
    /\ cache_miss_cnt \in 0..MaxMiss
    /\ id_cnt \in 0..IdMod - 1
    /\ wait_list \in [Caches -> Seq(Entry)]
    /\ wait_list_buf \in Seq(Entry)
    /\ later \in Seq(Seq(Entry))
    /\ locks \in [Channels -> Nat]
    /\ heap \subseteq Clients
    /\ stack \in Seq(Frame)

\* A channel is locked once for every entry that waits or is being run from a loop, and
\* not otherwise: it is not freed under a waiting client and not kept for ever.
LocksHeld ==
    \A ch \in Channels : locks[ch] = Cardinality({p \in Places : At(p).channel = ch})

\* A client waits in one place at most, and exactly the clients with arguments that wait, or
\* were queued before and run now, own a copy of their arguments: no copy is used after it was
\* freed, freed twice or leaked.
ArgsOwned ==
    /\ \A cl \in Clients : Cardinality(Waiting(cl)) <= 1
    /\ heap = {cl \in HasArgs : Waiting(cl) # {} \/ (current_client.client = cl /\ current_client.copy)}

\* What waiting clients hold, they hold exactly as long as they wait.
WaitersExact == CaTypeOK /\ LocksHeld /\ ArgsOwned

\* A transaction ends only in a run of its client that missed nothing.
NoLostClient ==
    [][\A cl \in Clients : Outstanding(cl) /\ ~Outstanding(cl)' =>
            current_client.client = cl /\ cache_miss_cnt = 0]_cavars

\* A client that waits for a cache is run again.
ClientRunsAgain == \A cl \in Clients : Waiting(cl) # {} ~> current_client.client = cl

\* The assertions of run_cache_client(): a client that has called cache_exit() returns
\* with client_exited set and no miss counted.
ExitKept == stack # <<>> /\ Top.exited => client_exited /\ cache_miss_cnt = 0

=============================================================================

----------------------------- MODULE ChannelTCP -----------------------------
(***************************************************************************)
(* One end of a TCP channel: agent/tcf/framework/channel_tcp.c with the    *)
(* input buffer of inputbuf.c and the output queue of outputbuf.c.         *)
(*                                                                         *)
(* The dispatch thread runs one event at a time, to its end: the message   *)
(* handler (which reads the input, and may block for more of it), the      *)
(* completions of reads and writes, and lazy flushes.  A worker thread     *)
(* fills the buffer concurrently.  The channel is reference counted and    *)
(* deletes itself.                                                         *)
(***************************************************************************)
EXTENDS InputBuf, Sequences

CONSTANTS
    Inputs,         \* the byte streams that the peer may send before its end of file
    MaxUsers,       \* bound on the locks that services hold at a time
    MaxWrites,      \* bound on the messages written before and after each close
    MaxObufs        \* bound on the buffers in the output queue

ASSUME ChannelAssumption == MaxUsers \in Nat /\ MaxWrites \in Nat /\ MaxObufs \in Nat \ {0}

VARIABLES
    input,          \* what the peer sends
    rcvd,           \* how much of it is received
    state,          \* Channel.state: "Open" or "Disconnected"
    ib,             \* the InputBuf
    rd_req,         \* the read request: its status, position in the buffer and length
    lock_cnt,
    users,          \* the locks of services among lock_cnt
    pc,             \* the dispatch thread: "loop", "handler", or "wait" (in tcp_wait_read);
                    \* "deleted" once the channel is
    consumed,       \* bytes of input that message handlers have read
    obuf,           \* the output buffer is not empty
    out_flush_cnt,  \* tcp_flush_event events in the event queue
    out_eom_cnt,
    out_queue,      \* buffers in the output queue; the first one is being written
    out_errno,      \* a write has failed
    shut,           \* shutdown(SHUT_WR) has been called
    writes          \* messages written so far

invars == <<input, rcvd, ib, rd_req, consumed>>
outvars == <<obuf, out_flush_cnt, out_eom_cnt, out_queue, out_errno, shut, writes>>
chvars == <<input, rcvd, state, ib, rd_req, lock_cnt, users, pc, consumed, obuf,
            out_flush_cnt, out_eom_cnt, out_queue, out_errno, shut, writes>>

-----------------------------------------------------------------------------
(* Reading. *)

NoRead == [status |-> "none", pos |-> 0, len |-> 0]

\* tcp_post_read(): nothing if a read is pending.
PostRead(r, pos, len) ==
    IF r.status # "none" THEN r ELSE [status |-> "pending", pos |-> pos, len |-> len]

\* ibuf_trigger_read()
TriggerRead(b, r) == IF FreeSize(b) > 0 THEN PostRead(r, b.inp, FreeSize(b)) ELSE r

\* A worker thread completes the read: it gets some bytes, or none at the end of file.  (An
\* error is taken for the end of file: Inputs has streams that stop in a message.)
WorkerRead ==
    /\ rd_req.status = "pending"
    /\ \E n \in 0..rd_req.len :
         /\ n <= Len(input) - rcvd
         /\ (n = 0) => (rcvd = Len(input))
         /\ ib' = [ib EXCEPT !.buf = [i \in DOMAIN @ |->
                        IF i >= rd_req.pos /\ i < rd_req.pos + n
                          THEN rcvd + i - rd_req.pos + 1 ELSE @[i]]]
         /\ rcvd' = rcvd + n
         /\ rd_req' = [rd_req EXCEPT !.status = "done", !.len = n]
    /\ UNCHANGED <<input, state, lock_cnt, users, pc, consumed, outvars>>

\* tcp_unlock(): the last one deletes the channel.
Unlocked(n, next) ==
    /\ lock_cnt' = n
    /\ pc' = IF n = 0 THEN "deleted" ELSE next

\* tcp_channel_read_done().  The reference that the connection holds is dropped when a
\* read of the closed channel meets the end of file.
ReadDone(next) ==
    /\ rd_req.status = "done"
    /\ IF state = "Open"
         THEN \E b \in {ReadInto(ib, input, rd_req.len)} :
              /\ ib' = b
              /\ rd_req' = IF rd_req.len = 0 THEN NoRead ELSE TriggerRead(b, NoRead)
              /\ UNCHANGED lock_cnt /\ pc' = next
       ELSE IF rd_req.len > 0
         THEN /\ rd_req' = PostRead(NoRead, 0, ib.size)
              /\ UNCHANGED <<ib, lock_cnt>> /\ pc' = next
         ELSE /\ rd_req' = NoRead
              /\ Unlocked(lock_cnt - 1, next)
              /\ UNCHANGED ib
    /\ UNCHANGED <<input, rcvd, state, users, consumed, outvars>>

\* The event is dispatched, or tcp_wait_read() takes it out of the queue.
ReadEvent == pc = "loop" /\ ReadDone("loop")
WaitRead == pc = "wait" /\ ReadDone("handler")

-----------------------------------------------------------------------------
(* Writing. *)

\* write_stream(MARKER_EOM): a lazy flush is posted, two at most.
FlushPosted == IF out_flush_cnt < 2 THEN out_flush_cnt + 1 ELSE out_flush_cnt
FlushLock == IF out_flush_cnt = 0 THEN 1 ELSE 0

\* tcp_flush_with_flags() with data in the buffer on an open channel: the buffer is queued,
\* or appended to the last of several; the first one in the queue is posted and locks.
Queued == IF out_errno THEN out_queue
          ELSE IF out_queue >= MaxObufs THEN out_queue ELSE out_queue + 1
QueueLock == IF ~out_errno /\ out_queue = 0 THEN 1 ELSE 0

\* A service writes a message; the buffer may fill up and be flushed on the way.
WriteMessage ==
    /\ pc = "loop" /\ writes < MaxWrites
    /\ state = "Open" \/ users > 0
    /\ writes' = writes + 1
    /\ out_flush_cnt' = FlushPosted
    /\ \/ /\ obuf' = TRUE
          /\ out_eom_cnt' = out_eom_cnt + 1
          /\ lock_cnt' = lock_cnt + FlushLock
          /\ UNCHANGED out_queue
       \/ /\ obuf' = TRUE
          /\ out_eom_cnt' = 1
          /\ out_queue' = IF state = "Open" THEN Queued ELSE out_queue
          /\ lock_cnt' = lock_cnt + FlushLock + (IF state = "Open" THEN QueueLock ELSE 0)
    /\ UNCHANGED <<invars, state, users, pc, out_errno, shut>>

\* Variant: the lock of the flush events is dropped by each of them.
FlushEvent_UnlockEach ==
    /\ pc = "loop" /\ out_flush_cnt > 0
    /\ out_flush_cnt' = out_flush_cnt - 1
    /\ obuf' = FALSE /\ out_eom_cnt' = 0
    /\ out_queue' = IF obuf /\ state = "Open" THEN Queued ELSE out_queue
    /\ Unlocked(lock_cnt + (IF obuf /\ state = "Open" THEN QueueLock ELSE 0) - 1, "loop")
    /\ UNCHANGED <<invars, state, users, out_errno, shut, writes>>

\* tcp_flush_event(): the last one flushes and unlocks.
FlushEvent ==
    /\ pc = "loop" /\ out_flush_cnt > 0
    /\ out_flush_cnt' = out_flush_cnt - 1
    /\ LET flush == obuf /\ (out_flush_cnt = 1 \/ out_eom_cnt > 3)
           locked == lock_cnt + (IF flush /\ state = "Open" THEN QueueLock ELSE 0)
       IN  /\ obuf' = (obuf /\ ~flush)
           /\ out_eom_cnt' = IF flush THEN 0 ELSE out_eom_cnt
           /\ out_queue' = IF flush /\ state = "Open" THEN Queued ELSE out_queue
           /\ Unlocked(locked - (IF out_flush_cnt = 1 THEN 1 ELSE 0), "loop")
    /\ UNCHANGED <<invars, state, users, out_errno, shut, writes>>

\* Variant: the socket is shut down only by a close that finds the queue empty.
WriteDone_NotShut(left, error) ==
    /\ out_queue' = left
    /\ out_errno' = (out_errno \/ error)
    /\ Unlocked(lock_cnt + (IF left > 0 THEN 1 ELSE 0) - 1, "loop")
    /\ UNCHANGED <<invars, state, users, obuf, out_flush_cnt, out_eom_cnt, shut, writes>>

\* done_write_request() and output_queue_done(): left buffers remain in the queue, and the
\* first of them is posted with a lock of its own.
WriteDone(left, error) ==
    /\ out_queue' = left
    /\ out_errno' = (out_errno \/ error)
    /\ shut' = (shut \/ (left = 0 /\ state = "Disconnected"))
    /\ Unlocked(lock_cnt + (IF left > 0 THEN 1 ELSE 0) - 1, "loop")
    /\ UNCHANGED <<invars, state, users, obuf, out_flush_cnt, out_eom_cnt, writes>>

\* The first buffer is written.  (A part of it written leads back to the same state.)
WriteSucceeded == pc = "loop" /\ out_queue > 0 /\ WriteDone(out_queue - 1, FALSE)

\* The write fails: the queue is cleared.
WriteFailed == pc = "loop" /\ out_queue > 0 /\ WriteDone(0, TRUE)

-----------------------------------------------------------------------------
(* Closing. *)

\* A handle_channel_msg event that is pending is cancelled.
Quiet(b) == IF b.handling_msg = "Triggered" THEN [b EXCEPT !.handling_msg = "Idle"] ELSE b

\* send_eof_and_close() on an open channel.
SendEofAndClose(b) ==
    /\ ib' = Quiet(Flush(b))
    /\ out_flush_cnt' = FlushPosted
    /\ obuf' = FALSE /\ out_eom_cnt' = 0
    /\ out_queue' = Queued
    /\ lock_cnt' = lock_cnt + FlushLock + QueueLock
    /\ shut' = (shut \/ Queued = 0)
    /\ state' = "Disconnected"
    /\ rd_req' = PostRead(rd_req, 0, b.size)
    /\ UNCHANGED <<input, rcvd, consumed, users, out_errno, writes>>

\* channel_close() by a service or by the shutdown of the process.
Close == pc = "loop" /\ state = "Open" /\ SendEofAndClose(ib) /\ UNCHANGED pc

-----------------------------------------------------------------------------
(* Handling messages. *)

\* handle_channel_msg() and ibuf_start_message()
HandleMessage ==
    /\ pc = "loop" /\ ib.handling_msg = "Triggered"
    /\ IF ib.eof
         THEN SendEofAndClose([ib EXCEPT !.handling_msg = "Idle"]) /\ UNCHANGED pc
         ELSE /\ ib' = [ib EXCEPT !.handling_msg = "Active"]
              /\ pc' = "handler"
              /\ UNCHANGED <<input, rcvd, rd_req, consumed, state, lock_cnt, users, outvars>>

\* The handler reads, or looks at, the next character.  It returns with the end of the
\* message.  At the end of the stream it raises an exception, or it returns as
\* skip_until_EOM() does.
HandlerRead(peeking) ==
    /\ pc = "handler" /\ ~NoData(ib)
    /\ \E r \in {Read(ib, input, peeking)} :
       LET b == r[2]
           n == (Out(b) + b.size - Out(ib)) % b.size
       IN
       /\ consumed' = consumed + n
       /\ ib' = b
       /\ rd_req' = IF r[1] = "turn" \/ ib.cur < ib.end THEN rd_req ELSE TriggerRead(b, rd_req)
       /\ pc' = IF r[1] \in {"EOM", "EOS"} /\ ~peeking THEN "loop" ELSE "handler"
    /\ UNCHANGED <<input, rcvd, state, lock_cnt, users, outvars>>

\* ibuf_get_more() without data: the end of a truncated message, which ends the handler, or a
\* wait for more.  cur and end both stand for the local variable out (see InputBuf.tla): the code
\* leaves inp->end behind until the next byte sets it.
HandlerStarved ==
    /\ pc = "handler" /\ NoData(ib)
    /\ LET b == [ib EXCEPT !.cur = Out(ib), !.end = Out(ib)] IN
       /\ ib' = b
       /\ IF ib.eof THEN pc' = "loop" /\ UNCHANGED rd_req
          ELSE pc' = "wait" /\ rd_req' = TriggerRead(b, rd_req)
    /\ UNCHANGED <<input, rcvd, consumed, state, lock_cnt, users, outvars>>

\* An exception in the handler closes the channel.
HandlerRaises ==
    /\ pc = "handler"
    /\ SendEofAndClose(ib)
    /\ pc' = "loop"

\* channel_lock() and channel_unlock() by a service.
Lock ==
    /\ pc = "loop" /\ users < MaxUsers
    /\ state = "Open" \/ users > 0
    /\ users' = users + 1 /\ lock_cnt' = lock_cnt + 1
    /\ UNCHANGED <<invars, state, pc, outvars>>

Unlock ==
    /\ pc = "loop" /\ users > 0
    /\ users' = users - 1
    /\ Unlocked(lock_cnt - 1, "loop")
    /\ UNCHANGED <<invars, state, outvars>>

\* create_channel() and start_channel()
ChInit ==
    /\ input \in Inputs
    /\ rcvd = 0
    /\ state = "Open"
    /\ ib = NewBuf
    /\ rd_req = TriggerRead(NewBuf, NoRead)
    /\ lock_cnt = 1 /\ users = 0
    /\ pc = "loop"
    /\ consumed = 0
    /\ obuf = FALSE /\ out_flush_cnt = 0 /\ out_eom_cnt = 0
    /\ out_queue = 0 /\ out_errno = FALSE
    /\ shut = FALSE
    /\ writes = 0

ChNext ==
    \/ WorkerRead \/ ReadEvent \/ WaitRead
    \/ WriteMessage \/ FlushEvent \/ WriteSucceeded \/ WriteFailed
    \/ Close \/ HandleMessage \/ HandlerStarved \/ HandlerRaises
    \/ \E peeking \in BOOLEAN : HandlerRead(peeking)
    \/ Lock \/ Unlock

ChSpec == ChInit /\ [][ChNext]_chvars

\* The dispatch thread runs every event and handlers go on reading; the worker threads
\* complete reads and writes; services release their locks.
ChFairSpec ==
    /\ ChSpec
    /\ WF_chvars(WorkerRead) /\ WF_chvars(ReadEvent) /\ WF_chvars(WaitRead)
    /\ WF_chvars(FlushEvent) /\ WF_chvars(WriteSucceeded)
    /\ WF_chvars(HandleMessage) /\ WF_chvars(HandlerStarved) /\ WF_chvars(HandlerRead(FALSE))
    /\ WF_chvars(Unlock)

-----------------------------------------------------------------------------
(* Properties. *)

\* While the channel is open the ring holds exactly the received bytes that no handler has
\* read, in order, however it wraps around and grows, and a pending read never touches them
\* (inputbuf.c: ibuf_free_size, ibuf_read_done, ibuf_get_more).
StreamIntact ==
    state = "Open" /\ rd_req.status # "done" =>
        /\ Unread(ib) = [i \in 1..(rcvd - consumed) |-> consumed + i]
        /\ rd_req.status = "pending" =>
             /\ rd_req.pos = ib.inp
             /\ Len(Unread(ib)) + rd_req.len < ib.size

\* The assertions of inputbuf.c and handle_channel_msg(): a handler runs out of data only
\* in a message that is longer than the buffer or cut short by the end of the stream, and an
\* event for a message is in the queue only if there is a message.
MessagesCounted ==
    /\ pc = "handler" /\ ib.handling_msg = "Active" /\ NoData(ib) =>
         ib.eof \/ (ib.long_msg /\ ib.message_count = 1)
    /\ ib.handling_msg = "Triggered" => ib.message_count > 0 /\ state = "Open"
    /\ pc = "loop" /\ state = "Open" /\ ib.handling_msg = "Idle" => ib.message_count = 0

\* Every reference is counted once, and the channel is deleted when nothing refers to it:
\* no read or write request, no event and no service (delete_channel).
LocksBalance ==
    LET held == users + (IF out_flush_cnt > 0 THEN 1 ELSE 0) + (IF out_queue > 0 THEN 1 ELSE 0)
    IN  /\ lock_cnt - held \in {0, 1}
        /\ state = "Open" => lock_cnt = held + 1
        /\ pc # "deleted" /\ rd_req.status # "none" => lock_cnt = held + 1
        /\ pc = "deleted" => /\ held = 0 /\ rd_req.status = "none"
                             /\ ib.handling_msg # "Triggered"

\* An end of file or end of stream that does not cut a long message short is handled: the
\* peer is told, and the channel is deleted (handle_channel_msg, send_eof_and_close,
\* tcp_channel_read_done).
EofDeletes ==
    /\ (ib.eof /\ ~ib.long_msg) ~> (pc = "deleted")
    /\ (state = "Disconnected") ~> (shut /\ pc = "deleted")

\* assert(ibuf->message_count == 1) in ibuf_read_done(), when the end of a message is read
\* that was longer than the buffer.
LongMessageAlone == ib.assert

=============================================================================

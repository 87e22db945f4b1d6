------------------------------ MODULE Streams ------------------------------
(***************************************************************************)
(* One virtual stream, agent/tcf/services/streamsservice.c, between a      *)
(* process, agent/tcf/services/processes.c, and the channels connected to  *)
(* it: the output of the process (VS_ENABLE_REMOTE_READ) or its input      *)
(* (VS_ENABLE_REMOTE_WRITE).                                               *)
(*                                                                         *)
(* Everything runs on the dispatch thread: commands of the channels,       *)
(* completions of the reads and writes of the pipe, and the events of the  *)
(* stream, which are dispatched in the order they were posted.  The ring   *)
(* holds the identity of bytes: a byte of a process is its number, a byte  *)
(* of a channel is a pair of channel and number.                           *)
(***************************************************************************)
EXTENDS Naturals, Sequences, SequencesExt, FiniteSetsExt

CONSTANTS
    Channels,
    Accesses,       \* the kinds of streams: "read", "write" or both
    SBufSize,       \* the data that the ring holds
    PBufSize,       \* the size of the buffer of the process
    MaxBytes,       \* bounds on the bytes of the process and of each channel
    MaxRequests,    \* bound on the pending requests of a channel
    MaxConnects     \* bound on the times that a channel connects

ASSUME StreamsAssumption ==
    /\ IsFiniteSet(Channels) /\ Accesses \subseteq {"read", "write"}
    /\ SBufSize \in Nat \ {0} /\ PBufSize \in Nat \ {0}
    /\ MaxBytes \in [Channels \cup {"process"} -> Nat]
    /\ MaxRequests \in Nat /\ MaxConnects \in Nat

VARIABLES
    access,         \* VirtualStream.access
    vs,             \* the VirtualStream with its StreamClients
    events,         \* the events of the stream in the event queue
    owner,          \* the ProcessInput or ProcessOutput
    sent,           \* bytes written by the process or by each channel
    taken,          \* bytes of each channel that were given to the process
    connects        \* times that a channel has connected

vars == <<access, vs, events, owner, sent, taken, connects>>

BufLen == SBufSize + 1

\* The element of a singleton.  (TLC evaluates it once, where it would expand an argument
\* at each use.)
The(S) == CHOOSE x \in S : TRUE

Min2(i, j) == IF i < j THEN i ELSE j

-----------------------------------------------------------------------------
(* The ring and its readers. *)

Used(s) == (s.inp + BufLen - s.out) % BufLen
Room(s) == (s.out + BufLen - s.inp - 1) % BufLen

\* post_event() of notify_data_available and notify_space_available, unless one is posted.
Notify(s, e) == IF e \in s.posted THEN s
                ELSE [s EXCEPT !.posted = @ \cup {e}, !.queue = Append(@, e)]

\* Variant: the slowest reader is not waited for.
Advance_Fastest(s) ==
    LET len == Used(s)
        positions == {s.cl[c].pos : c \in ToSet(s.clients)}
        step == IF positions = {} THEN len
                ELSE IF Max(positions) > s.pos - len THEN Max(positions) - (s.pos - len) ELSE 0
    IN  IF step = 0 THEN s ELSE Notify([s EXCEPT !.out = (@ + step) % BufLen], "space")

\* advance_stream_buffer(): what every client has read is dropped.
Advance(s) ==
    LET len == Used(s)
        positions == {s.cl[c].pos : c \in ToSet(s.clients)}
        step == IF positions = {} THEN len
                ELSE IF Min(positions) > s.pos - len THEN Min(positions) - (s.pos - len) ELSE 0
    IN  IF step = 0 THEN s ELSE Notify([s EXCEPT !.out = (@ + step) % BufLen], "space")

\* send_read_reply() to the client cl.
ReadReply(s, cl, size) ==
    LET behind == s.pos - cl.pos
        lost == IF Used(s) < behind THEN behind - Used(s) ELSE 0
        len == Min2(Used(s), behind)
        pos == (s.inp + BufLen - len) % BufLen
        n == Min2(len, size)
    IN  [cl EXCEPT !.pos = @ + lost + n,
                   !.got = @ \o [i \in 1..n |-> s.buf[(pos + i - 1) % BufLen]]]

\* The first read request of a client is answered if there is something to read.
AnswerRead(s, cl) ==
    IF cl.pos < s.pos \/ s.eos_inp
      THEN [ReadReply(s, cl, Head(cl.reads)) EXCEPT !.reads = Tail(@)] ELSE cl

AnswerReads(s, cl) ==
    LET after[i \in 0..Len(cl.reads)] ==
            IF i = 0 THEN cl ELSE The({AnswerRead(s, x) : x \in {after[i - 1]}})
    IN  after[Len(cl.reads)]

\* virtual_stream_add_data(): as much of data as there is room for.
AddData(s, data, eos) ==
    LET n == IF s.eos_inp THEN 0 ELSE Min2(Len(data), Room(s))
        s1 == IF s.eos_inp THEN s
              ELSE [s EXCEPT !.buf = [i \in DOMAIN @ |->
                                LET k == (i + BufLen - s.inp) % BufLen
                                IN  IF k < n THEN data[k + 1] ELSE @[i]],
                             !.inp = (@ + n) % BufLen, !.pos = @ + n,
                             !.eos_inp = eos /\ n = Len(data)]
        answered(x) == [x EXCEPT !.cl = [c \in Channels |-> AnswerReads(x, @[c])]]
    IN  IF access = "write" THEN The({Notify(x, "data") : x \in {s1}})
        ELSE IF n = 0 /\ s1.eos_inp = s.eos_inp THEN s
        ELSE The({Advance(y) : y \in {answered(x) : x \in {s1}}})

\* The first write request of client c goes on.  An error answers all of them.
ResumeWrite(s, c) ==
    IF s.cl[c].writes = <<>> THEN s
    ELSE LET r == Head(s.cl[c].writes)
             rest == Tail(s.cl[c].writes)
             left(done) == IF s.eos_inp THEN <<>>
                           ELSE IF done = Len(r.data) THEN rest
                           ELSE <<[r EXCEPT !.data = SubSeq(@, done + 1, Len(@))]>> \o rest
         IN  The({[a EXCEPT !.cl[c].writes = left(a.pos - s.pos)] :
                     a \in {AddData(s, r.data, r.eos)}})

\* Variant: the pending write requests wait for a command.
GetData_NotResumed(s, size) ==
    LET len == Min2(Used(s), size)
        eos == Used(s) <= size /\ s.eos_inp
        s1 == [s EXCEPT !.eos_out = @ \/ eos]
    IN  <<[i \in 1..len |-> s.buf[(s.out + i - 1) % BufLen]], eos,
          IF len > 0 THEN Notify([s1 EXCEPT !.out = (@ + len) % BufLen], "space") ELSE s1>>

\* virtual_stream_get_data() of an input stream: the data, the end of the stream, and the
\* stream after.  The pending write requests use the room there was before.
GetData(s, size) ==
    LET len == Min2(Used(s), size)
        eos == Used(s) <= size /\ s.eos_inp
        after[i \in 0..Len(s.clients)] ==
            IF i = 0 THEN [s EXCEPT !.eos_out = @ \/ eos]
            ELSE The({ResumeWrite(x, s.clients[i]) : x \in {after[i - 1]}})
    IN  <<[i \in 1..len |-> s.buf[(s.out + i - 1) % BufLen]], eos,
          The({IF len > 0 THEN Notify([x EXCEPT !.out = (@ + len) % BufLen], "space") ELSE x :
                  x \in {after[Len(s.clients)]}})>>

-----------------------------------------------------------------------------
(* Clients and the end of the stream. *)

NoClient == [pos |-> 0, reads |-> <<>>, writes |-> <<>>, got |-> <<>>]

\* create_client(): it starts with the oldest data in the ring.
CreateClient(s, c) ==
    LET pos == s.pos - Used(s) IN
    [s EXCEPT !.clients = <<c>> \o @, !.ref_cnt = @ + 1,
              !.cl[c] = [NoClient EXCEPT !.pos = pos, !.got = <<pos>>]]

\* Variant: the event that deletes the stream is posted with the clients connected.
Release_NotCounted(s) == [s EXCEPT !.ref_cnt = @ - 1, !.queue = Append(@, "delete")]

\* The reference of a client or of the owner is dropped.
Release(s) ==
    IF s.ref_cnt > 1 THEN [s EXCEPT !.ref_cnt = @ - 1]
    ELSE [s EXCEPT !.ref_cnt = 0, !.queue = Append(@, "delete")]

\* delete_client(): the pending requests are answered, as cancelled.
DeleteClient(s, c) ==
    LET s1 == Release([s EXCEPT !.clients = RemoveFirst(@, c), !.cl[c] = NoClient])
    IN  IF s1.ref_cnt > 0 /\ access = "read" THEN Advance(s1) ELSE s1

\* virtual_stream_delete()
Delete(s) == Release([s EXCEPT !.deleted = TRUE])

Connected(c) == c \in ToSet(vs.clients)

\* The events that were posted while the stream was changed to s join the queue.  (A slot of
\* the ring that is free is 0.)
SetStream(s, others) ==
    \E x \in {s} :
        /\ vs' = [x EXCEPT !.queue = <<>>,
                           !.buf = [i \in DOMAIN @ |->
                                      IF (i + BufLen - x.out) % BufLen < Used(x) THEN @[i] ELSE 0]]
        /\ events' = others \o x.queue

-----------------------------------------------------------------------------
(* The process at the other end. *)

\* process_input_streams_callback(): the state of the stream and of the owner after it.
InputCallback(s, o) ==
    IF o.req_posted THEN <<s, o>>
    ELSE IF o.buf = <<>> /\ ~o.eos
      THEN The({<<g[3], [o EXCEPT !.buf = g[1], !.eos = g[2], !.req_posted = (g[1] # <<>>)]>> :
                   g \in {GetData(s, PBufSize)}})
      ELSE <<s, [o EXCEPT !.req_posted = (o.buf # <<>>)]>>

\* process_output_streams_callback(): the stream is deleted with the ProcessOutput when the
\* end of the output finds it empty.
OutputCallback(s, o) ==
    IF o.req_posted THEN <<s, o>>
    ELSE LET more == o.buf # <<>> \/ o.eos # o.eof
             a == The({IF more THEN AddData(s, o.buf, o.eof) ELSE s})
             left == SubSeq(o.buf, a.pos - s.pos + 1, Len(o.buf))
             p == [o EXCEPT !.buf = left, !.eos = @ \/ (left = <<>> /\ o.eof)]
         IN  IF left # <<>> THEN <<a, p>>
             ELSE IF ~o.eof THEN <<a, [p EXCEPT !.req_posted = TRUE, !.delayed = TRUE]>>
             ELSE IF Used(a) = 0 THEN <<Delete(a), [p EXCEPT !.freed = TRUE]>>
             ELSE <<a, p>>

Callback(s, o) == IF access = "read" THEN OutputCallback(s, o) ELSE InputCallback(s, o)

\* How many of the bytes in data are from channel c.
Bytes(data, c) ==
    LET upto[i \in 0..Len(data)] ==
            IF i = 0 THEN 0 ELSE upto[i - 1] + (IF data[i][1] = c THEN 1 ELSE 0)
    IN  upto

Called(s, o, others) ==
    \E r \in {Callback(x, y) : x \in {s}, y \in {o}} :
        /\ SetStream(r[1], others)
        /\ owner' = r[2]
        /\ taken' = [c \in Channels |-> taken[c] +
                        IF access = "write" /\ o.buf = <<>> /\ ~o.req_posted
                          THEN Bytes(r[2].buf, c)[Len(r[2].buf)] ELSE 0]

\* The first event of the stream is dispatched: notify_data_available(),
\* notify_space_available() or delete_stream().
StreamEvent ==
    /\ events # <<>>
    /\ LET e == Head(events)
           s == [vs EXCEPT !.posted = @ \ {e}]
       IN  \/ e = "delete" /\ SetStream([vs EXCEPT !.freed = TRUE], Tail(events))
              /\ UNCHANGED <<owner, taken>>
           \/ /\ e # "delete"
              /\ IF vs.deleted \/ (e = "data" /\ vs.eos_out) \/ (e = "space" /\ vs.eos_inp)
                   THEN SetStream(s, Tail(events)) /\ UNCHANGED <<owner, taken>>
                   ELSE Called(s, owner, Tail(events))
    /\ UNCHANGED <<access, sent, connects>>

\* read_process_output_done(): the process has written n bytes, or closed its output.
ReadOutputDone ==
    /\ access = "read" /\ owner.req_posted /\ ~owner.delayed
    /\ \E n \in 0..Min2(PBufSize, MaxBytes["process"] - sent["process"]) :
         /\ sent' = [sent EXCEPT !["process"] = @ + n]
         /\ Called(vs, [owner EXCEPT !.req_posted = FALSE, !.eof = (n = 0),
                                     !.buf = [i \in 1..n |-> sent["process"] + i]], events)
    /\ UNCHANGED <<access, connects>>

\* post_out_read_req()
PostOutReadReq ==
    /\ access = "read" /\ owner.delayed
    /\ owner' = [owner EXCEPT !.delayed = FALSE]
    /\ UNCHANGED <<access, vs, events, sent, taken, connects>>

\* write_process_input_done(): n bytes are written, or an error drops the buffer.
WriteInputDone ==
    /\ access = "write" /\ owner.req_posted
    /\ IF owner.exited
         THEN /\ owner' = [owner EXCEPT !.req_posted = FALSE, !.freed = TRUE]
              /\ SetStream(Delete(vs), events)
              /\ UNCHANGED taken
         ELSE \E n \in 1..Len(owner.buf) :
                \E left \in {SubSeq(owner.buf, n + 1, Len(owner.buf)), <<>>} :
                  Called(vs, [owner EXCEPT !.req_posted = FALSE, !.buf = left], events)
    /\ UNCHANGED <<access, sent, connects>>

\* process_exited(): the input stream is deleted unless a write is pending.
ProcessExited ==
    /\ access = "write" /\ ~owner.exited
    /\ IF owner.req_posted
         THEN owner' = [owner EXCEPT !.exited = TRUE] /\ UNCHANGED <<vs, events>>
         ELSE /\ owner' = [owner EXCEPT !.exited = TRUE, !.freed = TRUE]
              /\ SetStream(Delete(vs), events)
    /\ UNCHANGED <<access, sent, taken, connects>>

-----------------------------------------------------------------------------
(* The commands of the channels. *)

\* command_connect()
Connect(c) ==
    /\ ~Connected(c) /\ ~vs.deleted /\ connects < MaxConnects
    /\ SetStream(CreateClient(vs, c), events)
    /\ connects' = connects + 1
    /\ UNCHANGED <<access, owner, sent, taken>>

\* The bytes of the write requests up to each of them.
Waiting(writes) ==
    LET upto[i \in 0..Len(writes)] ==
            IF i = 0 THEN 0 ELSE upto[i - 1] + Len(writes[i].data)
    IN  upto

\* The bytes of write requests that are cancelled were not sent.
Unsent(c) ==
    IF access = "read" THEN sent
    ELSE [sent EXCEPT ![c] = @ - Waiting(vs.cl[c].writes)[Len(vs.cl[c].writes)]]

\* command_disconnect(), or channel_close_listener() when the channel closes.
Disconnect(c) ==
    /\ Connected(c)
    /\ SetStream(DeleteClient(vs, c), events)
    /\ sent' = Unsent(c)
    /\ UNCHANGED <<access, owner, taken, connects>>

\* command_read()
Read(c, size) ==
    /\ access = "read" /\ Connected(c) /\ Len(vs.cl[c].reads) < MaxRequests
    /\ IF vs.cl[c].pos = vs.pos /\ ~vs.eos_inp
         THEN SetStream([vs EXCEPT !.cl[c].reads = Append(@, size)], events)
         ELSE SetStream(Advance([vs EXCEPT !.cl[c] = ReadReply(vs, @, size)]), events)
    /\ UNCHANGED <<access, owner, sent, taken, connects>>

\* Variant: a write does not wait for the pending ones.
WriteData_Overtakes(c, data, eos) ==
    LET a == AddData(vs, data, eos)
        left == SubSeq(data, a.pos - vs.pos + 1, Len(data))
    IN  SetStream(IF left = <<>> THEN a
                  ELSE [a EXCEPT !.cl[c].writes = Append(@, [data |-> left, eos |-> FALSE])], events)

\* virtual_stream_write() and virtual_stream_eos() without an error: what does not fit waits
\* behind the pending requests.
WriteData(c, data, eos) ==
    IF vs.cl[c].writes # <<>>
      THEN SetStream([vs EXCEPT !.cl[c].writes = Append(@, [data |-> data, eos |-> eos])], events)
      ELSE LET a == AddData(vs, data, eos)
               left == SubSeq(data, a.pos - vs.pos + 1, Len(data))
           IN  SetStream(IF left = <<>> THEN a
                         ELSE [a EXCEPT !.cl[c].writes = <<[data |-> left, eos |-> FALSE]>>], events)

\* command_write()
Write(c, n) ==
    /\ access = "write" /\ Connected(c) /\ Len(vs.cl[c].writes) < MaxRequests
    /\ sent[c] + n <= MaxBytes[c]
    /\ IF vs.cl[c].writes = <<>> /\ vs.eos_inp
         THEN SetStream(AddData(vs, <<>>, FALSE), events) /\ UNCHANGED sent
         ELSE /\ sent' = [sent EXCEPT ![c] = @ + n]
              /\ WriteData(c, [i \in 1..n |-> <<c, sent[c] + i>>], FALSE)
    /\ UNCHANGED <<access, owner, taken, connects>>

\* command_eos()
Eos(c) ==
    /\ access = "write" /\ Connected(c) /\ Len(vs.cl[c].writes) < MaxRequests
    /\ WriteData(c, <<>>, TRUE)
    /\ UNCHANGED <<access, owner, sent, taken, connects>>

-----------------------------------------------------------------------------

Empty == [pos |-> 0, inp |-> 0, out |-> 0, buf |-> [i \in 0..SBufSize |-> 0],
          eos_inp |-> FALSE, eos_out |-> FALSE, ref_cnt |-> 1, deleted |-> FALSE, freed |-> FALSE,
          posted |-> {}, queue |-> <<>>, clients |-> <<>>, cl |-> [c \in Channels |-> NoClient]]

\* virtual_stream_create(), with write_process_input() or read_process_output(): the
\* subscribers are connected.
StInit ==
    /\ access \in Accesses
    /\ \E subscribers \in SUBSET Channels :
         vs = [Empty EXCEPT !.clients = SetToSeq(subscribers),
                            !.ref_cnt = 1 + Cardinality(subscribers),
                            !.cl = [c \in Channels |->
                                      IF c \in subscribers THEN [NoClient EXCEPT !.got = <<0>>]
                                                           ELSE NoClient]]
    /\ events = <<>>
    /\ owner = [buf |-> <<>>, eos |-> FALSE, eof |-> FALSE, req_posted |-> (access = "read"),
                delayed |-> FALSE, exited |-> FALSE, freed |-> FALSE]
    /\ sent = [x \in Channels \cup {"process"} |-> 0]
    /\ taken = [c \in Channels |-> 0]
    /\ connects = 0

StNext ==
    \/ StreamEvent \/ ReadOutputDone \/ PostOutReadReq \/ WriteInputDone \/ ProcessExited
    \/ \E c \in Channels :
         \/ Connect(c) \/ Disconnect(c) \/ Eos(c)
         \/ \E n \in 1..PBufSize : Read(c, n) \/ Write(c, n)

StSpec == StInit /\ [][StNext]_vars

\* Events are dispatched, the reads and writes of the pipe complete, and a client that
\* is connected reads.
StFairSpec ==
    /\ StSpec
    /\ WF_vars(StreamEvent) /\ WF_vars(ReadOutputDone) /\ WF_vars(PostOutReadReq)
    /\ WF_vars(WriteInputDone)
    /\ \A c \in Channels : WF_vars(Read(c, 1))

-----------------------------------------------------------------------------
(* Properties. *)

\* Every client gets the output of the process from where it connected, each byte once and in
\* order, at the pace of the slowest of them (advance_stream_buffer, send_read_reply).
ReadersInOrder ==
    access = "read" =>
        \A c \in ToSet(vs.clients) :
            LET got == vs.cl[c].got IN
            /\ \A i \in DOMAIN got : got[i] = got[1] + i - 1
            /\ got[Len(got)] = vs.cl[c].pos

\* The process gets the bytes of a channel in the order they were written, and each once:
\* what is in the ring follows what was taken, and the pending requests follow it
\* (virtual_stream_write, virtual_stream_get_data).
WritersInOrder ==
    access = "write" =>
        \A c \in Channels :
            LET ring == [i \in 1..Used(vs) |-> vs.buf[(vs.out + i - 1) % BufLen]]
                writes == vs.cl[c].writes
                put == taken[c] + Bytes(ring, c)[Used(vs)]
            IN  /\ \A i \in 1..Used(vs) :
                      ring[i][1] = c => ring[i] = <<c, taken[c] + Bytes(ring, c)[i]>>
                /\ \A k \in DOMAIN writes : \A i \in DOMAIN writes[k].data :
                      writes[k].data[i] = <<c, put + Waiting(writes)[k - 1] + i>>
                /\ ~vs.eos_inp => sent[c] = put + Waiting(writes)[Len(writes)]

\* A read waits only while there is nothing to read, nothing refers to the stream when it is
\* freed, and it is freed after its owner has deleted it (the assertions of
\* virtual_stream_read, delete_client and delete_stream).
NothingLeft ==
    /\ \A c \in Channels : vs.cl[c].reads # <<>> => vs.cl[c].pos = vs.pos /\ ~vs.eos_inp
    /\ vs.ref_cnt = Len(vs.clients) + (IF vs.deleted THEN 0 ELSE 1)
    /\ vs.freed => vs.deleted /\ vs.clients = <<>> /\ events = <<>>
    /\ owner.freed => vs.deleted

\* Every read is answered, every write is answered unless the process exits, and the process
\* is not left with output that there is room for (the notifications of
\* advance_stream_buffer and virtual_stream_get_data).
RequestsAnswered ==
    /\ \A c \in Channels :
         /\ (vs.cl[c].reads # <<>>) ~> (vs.cl[c].reads = <<>>)
         /\ (vs.cl[c].writes # <<>>) ~> (vs.cl[c].writes = <<>> \/ owner.exited)
    /\ (access = "read" /\ owner.buf # <<>>) ~> (owner.buf = <<>>)

=============================================================================

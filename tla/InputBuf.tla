------------------------------ MODULE InputBuf ------------------------------
(***************************************************************************)
(* The input buffer of a channel, agent/tcf/framework/inputbuf.c: a ring   *)
(* of bytes that one parser fills and counts messages in                   *)
(* (ibuf_read_done) and another one reads messages from (ibuf_get_more).   *)
(*                                                                         *)
(* The operators are functions on a record that stands for struct          *)
(* InputBuf, with cur and end of its InputStream.  The ring holds          *)
(* positions in the byte stream instead of bytes, so that it is known      *)
(* where each one came from; input[i] is the byte at position i.           *)
(*                                                                         *)
(* The bytes are "x" (data), "E" (the escape), the escape codes "0" (a     *)
(* data byte that looks like an escape), "1" (end of message), "2" (end of *)
(* stream), "3" (binary data) and the sizes "s1", "s2" of binary data,     *)
(* which are one byte long.                                                *)
(***************************************************************************)
EXTENDS Naturals

CONSTANTS
    BufSize,        \* the size of the buffer at first
    MaxBufSize      \* the size up to which it grows

ASSUME InputBufAssumption ==
    /\ BufSize \in Nat /\ BufSize > 1
    /\ MaxBufSize \in Nat

\* ibuf_init()
NewBuf ==
    [size |-> BufSize, buf |-> [i \in 0..(BufSize - 1) |-> 0], cur |-> 0, end |-> 0, inp |-> 0,
     inp_esc |-> FALSE, inp_size_mode |-> FALSE, inp_data_size |-> 0,
     out_esc |-> FALSE, out_size_mode |-> FALSE, out_data_size |-> 0,
     eof |-> FALSE, long_msg |-> FALSE, message_count |-> 0, handling_msg |-> "Idle",
     assert |-> TRUE]

\* The element of a singleton.  (TLC evaluates it once, where it would expand an argument
\* at each use.)
The(S) == CHOOSE x \in S : TRUE

SizeOf(ch) == IF ch = "s1" THEN 1 ELSE 2

\* ibuf_new_message() and trigger_message(): the event handle_channel_msg is posted.
NewMessage(b) ==
    [b EXCEPT !.message_count = @ + 1,
              !.handling_msg = IF @ = "Idle" THEN "Triggered" ELSE @]

\* ibuf_eof()
Eof(b) == IF b.eof THEN b ELSE NewMessage([b EXCEPT !.eof = TRUE])

\* The side effect of ibuf_free_size(): cur never stays at the end of the buffer.
Wrap(b) == IF b.cur = b.size /\ ~b.eof THEN [b EXCEPT !.cur = 0, !.end = 0] ELSE b

\* ibuf_free_size(): the room for the next read, without wrapping around.
FreeSize(b) ==
    LET cur == IF b.cur = b.size THEN 0 ELSE b.cur IN
    IF b.eof THEN 0
    ELSE IF cur <= b.inp THEN (b.size - b.inp) - (IF cur = 0 THEN 1 ELSE 0)
    ELSE cur - b.inp - 1

\* Variant: the content of binary data is looked at.
ScanByte_BinAsText(b, ch) ==
    IF b.inp_esc
      THEN LET c == [b EXCEPT !.inp_esc = FALSE] IN
           IF ch = "1" THEN IF c.long_msg THEN [c EXCEPT !.long_msg = FALSE] ELSE NewMessage(c)
           ELSE IF ch = "0" \/ ch = "3" THEN c
           ELSE Eof(c)
      ELSE [b EXCEPT !.inp_esc = (ch = "E")]

\* The loop body of ibuf_read_done(): one more byte is preprocessed to count messages.
ScanByte(b, ch) ==
    IF b.inp_size_mode
      THEN [b EXCEPT !.inp_size_mode = FALSE, !.inp_data_size = SizeOf(ch)]
    ELSE IF b.inp_data_size > 0 THEN [b EXCEPT !.inp_data_size = @ - 1]
    ELSE IF b.inp_esc
      THEN LET c == [b EXCEPT !.inp_esc = FALSE] IN
           IF ch = "1"
             THEN IF c.long_msg
                    THEN [c EXCEPT !.long_msg = FALSE, !.assert = @ /\ c.message_count = 1]
                    ELSE NewMessage(c)
           ELSE IF ch = "0" THEN c
           ELSE IF ch = "3" THEN [c EXCEPT !.inp_size_mode = TRUE, !.inp_data_size = 0]
           ELSE Eof(c)
    ELSE [b EXCEPT !.inp_esc = (ch = "E")]

Scan(b, input, len) ==
    LET scanned[i \in 0..len] ==
            IF i = 0 THEN b
            ELSE The({ScanByte(c, input[b.buf[(b.inp + i - 1) % b.size]]) : c \in {scanned[i - 1]}})
    IN  [scanned[len] EXCEPT !.inp = (b.inp + len) % b.size]

\* Variant: the two parts of the ring are copied as they lie.
Grow_NotRotated(b) ==
    IF b.eof \/ FreeSize(b) > 0 \/ b.size >= MaxBufSize THEN b
    ELSE [b EXCEPT !.size = 2 * b.size, !.inp = b.size - 1, !.cur = 0, !.end = b.end - b.cur,
                   !.buf = [i \in 0..(2 * b.size - 1) |-> IF i < b.size THEN b.buf[i] ELSE 0]]

\* A full buffer is copied to one of twice the size, from cur on.
Grow(b) ==
    IF b.eof \/ FreeSize(b) > 0 \/ b.size >= MaxBufSize THEN b
    ELSE [b EXCEPT !.size = 2 * b.size, !.inp = b.size - 1, !.cur = 0, !.end = b.end - b.cur,
                   !.buf = [i \in 0..(2 * b.size - 1) |->
                               IF i < b.size THEN b.buf[(b.cur + i) % b.size] ELSE 0]]

\* ibuf_read_done(), up to the next read that it posts: when the buffer is full with an
\* incomplete message the message is handled anyway.
ReadInto(b, input, len) ==
    IF len = 0 THEN Eof(b)
    ELSE The({IF FreeSize(g) = 0 /\ g.message_count = 0
                THEN NewMessage([g EXCEPT !.long_msg = TRUE])
                ELSE g : g \in {Wrap(Grow(c)) : c \in {Wrap(Scan(b, input, len))}}})

\* ibuf_flush()
Flush(b) ==
    [b EXCEPT !.cur = b.inp, !.end = b.inp, !.message_count = 0,
              !.inp_size_mode = FALSE, !.inp_data_size = 0,
              !.out_size_mode = FALSE, !.out_data_size = 0]

-----------------------------------------------------------------------------
(* ibuf_get_more(): what each turn of its loop does.  Between two turns cur *)
(* and end both stand for the local variable out: the code assigns          *)
(* inp->end before it returns a byte, and until then its value decides      *)
(* nothing (growing the buffer only moves it along).                        *)

\* The position of the next byte to read.
Out(b) == IF b.cur = b.size THEN 0 ELSE b.cur

NoData(b) == b.cur >= b.end /\ Out(b) = b.inp

\* The end of the stretch of bytes from o on that does not wrap around.
Stretch(b, o) == IF o + 1 <= b.inp THEN b.inp ELSE b.size

\* The first escape, or the end of the stretch, after o.
RunEnd(b, input, o) ==
    LET max == Stretch(b, o) IN
    CHOOSE k \in (o + 1)..max :
        /\ k = max \/ input[b.buf[k]] = "E"
        /\ \A j \in (o + 1)..(k - 1) : input[b.buf[j]] # "E"

\* The end of a message is read: the next one is triggered.
EndOfMessage(b) ==
    [b EXCEPT !.message_count = @ - 1,
              !.handling_msg = IF b.message_count > 1 THEN "Triggered" ELSE "Idle"]

\* One turn, with data available at Out(b).  "turn" when the loop goes on; otherwise the
\* character that is returned: "data", "EOM" or "EOS".
Turn(b, input, peeking) ==
    LET o == Out(b)
        ch == input[b.buf[o]]
        step == IF peeking THEN 0 ELSE 1
        moved(c, n) == [c EXCEPT !.cur = o + n, !.end = o + n]
    IN
    IF b.out_size_mode
      THEN <<"turn", moved([b EXCEPT !.out_size_mode = FALSE, !.out_data_size = SizeOf(ch)], 1)>>
    ELSE IF b.out_data_size > 0
      THEN LET room == Stretch(b, o) - o
               n == IF room < b.out_data_size THEN room ELSE b.out_data_size
           IN  <<"data", [b EXCEPT !.out_data_size = @ - n, !.cur = o + step, !.end = o + n]>>
    ELSE IF b.out_esc /\ ch = "3"
      THEN <<"turn", moved([b EXCEPT !.out_size_mode = TRUE, !.out_data_size = 0,
                                     !.out_esc = FALSE], 1)>>
    ELSE IF b.out_esc
      THEN LET c == IF ch = "1" /\ ~peeking THEN EndOfMessage(b) ELSE b
               d == moved([c EXCEPT !.out_esc = peeking], step)
           IN  <<IF ch = "0" THEN "data" ELSE IF ch = "1" THEN "EOM" ELSE "EOS", d>>
    ELSE IF ch # "E"
      THEN <<"data", [b EXCEPT !.cur = o + step, !.end = RunEnd(b, input, o)]>>
    ELSE <<"turn", moved([b EXCEPT !.out_esc = TRUE], 1)>>

\* read_stream() and peek_stream(): the bytes before end need no ibuf_get_more().
Read(b, input, peeking) ==
    IF b.cur < b.end
      THEN <<"data", IF peeking THEN b ELSE [b EXCEPT !.cur = @ + 1]>>
      ELSE LET r == Turn(b, input, peeking)
           IN  <<r[1], IF r[1] = "turn" THEN r[2] ELSE Wrap(r[2])>>

-----------------------------------------------------------------------------

\* The positions in the stream of the bytes that are in the buffer and not read, in order.
Unread(b) ==
    LET o == Out(b)
        n == (b.inp + b.size - o) % b.size
    IN  [i \in 1..n |-> b.buf[(o + i - 1) % b.size]]

=============================================================================

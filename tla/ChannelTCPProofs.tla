-------------------------- MODULE ChannelTCPProofs --------------------------
(***************************************************************************)
(* Proofs about ChannelTCP and InputBuf, for any buffer sizes, any bytes   *)
(* that the peer sends and any number of services that hold a lock: the    *)
(* ring buffer loses and changes nothing, and the channel is deleted       *)
(* exactly when nothing refers to it; and about the two parsers of         *)
(* messages, which agree however the bytes are cut into reads.             *)
(***************************************************************************)
EXTENDS ChannelTCP, Integers, SequenceTheorems, WellFoundedInduction, TLAPS

-----------------------------------------------------------------------------
(***************************************************************************)
(* The invariants                                                          *)
(***************************************************************************)

\* b has the fields of struct InputBuf.
IsIb(b) == DOMAIN b = DOMAIN NewBuf /\ b = [f \in DOMAIN NewBuf |-> b[f]]

\* The number of bytes in the ring that are not read.
Used(b) == IF Out(b) <= b.inp THEN b.inp - Out(b) ELSE b.inp + b.size - Out(b)

\* The index k bytes after the next one to read.
Slot(b, k) == IF Out(b) + k < b.size THEN Out(b) + k ELSE Out(b) + k - b.size

\* The indices are in the ring, and the stretch from cur to end has unread bytes only and
\* does not wrap around.
RingOK(b) ==
    /\ IsIb(b)
    /\ b.size \in Nat /\ b.size > 1
    /\ DOMAIN b.buf = 0..(b.size - 1)
    /\ b.inp \in 0..(b.size - 1)
    /\ b.cur \in 0..b.size /\ b.end \in 0..b.size /\ b.cur <= b.end
    /\ b.cur < b.end => \/ b.cur < b.inp /\ b.end <= b.inp
                        \/ b.inp < b.cur
    /\ b.out_data_size \in Nat

\* A read that is pending or done has the free bytes from inp on.
ReadRoom(b, r) ==
    r.status # "none" => r.pos = b.inp /\ r.pos + r.len <= b.size /\ Used(b) + r.len < b.size

\* The bytes of a completed read are in the buffer, behind the unread ones.
Ahead(r) == IF r.status = "done" THEN r.len ELSE 0

\* While the channel is open: the unread bytes and the ones of a completed read are the
\* received bytes that are not consumed.
Content ==
    /\ RingOK(ib) /\ ReadRoom(ib, rd_req)
    /\ rcvd - consumed = Used(ib) + Ahead(rd_req)
    /\ \A k \in 0..(rcvd - consumed - 1) : ib.buf[Slot(ib, k)] = consumed + k + 1

ReadReq == [status : {"none", "pending", "done"}, pos : Nat, len : Nat]

ChTypeOK ==
    /\ rcvd \in Nat /\ consumed \in Nat
    /\ state \in {"Open", "Disconnected"}
    /\ IsIb(ib) /\ ib.size \in Nat
    /\ rd_req \in ReadReq
    /\ lock_cnt \in Nat /\ users \in Nat
    /\ pc \in {"loop", "handler", "wait", "deleted"}
    /\ obuf \in BOOLEAN /\ out_errno \in BOOLEAN
    /\ out_flush_cnt \in Nat /\ out_queue \in Nat

\* A handler runs only while the channel is open, and no message event outlives it.
Closing ==
    /\ pc \in {"handler", "wait"} => state = "Open"
    /\ state = "Disconnected" => ib.handling_msg # "Triggered"

ChInv ==
    /\ ChTypeOK /\ Closing /\ LocksBalance
    /\ state = "Open" => Content



-----------------------------------------------------------------------------
(***************************************************************************)
(* Induction on numbers, with a set for the predicate                      *)
(***************************************************************************)

LEMMA LeastElement ==
    ASSUME NEW S, S \subseteq Nat, S # {}
    PROVE  \E n \in S : \A m \in S : n <= m
  <1> DEFINE R == OpToRel(<, Nat)
  <1>1. IsWellFoundedOn(R, Nat)
    BY NatLessThanWellFounded, Zenon
  <1>2. \A m, n \in Nat : m < n => <<m, n>> \in R
    BY DEF OpToRel
  <1> HIDE DEF R
  <1>3. PICK n \in S : \A m \in S : <<m, n>> \notin R
    BY <1>1, WFMin
  <1>4. \A m \in S : ~(m < n)
    BY <1>2, <1>3
  <1> QED BY <1>4

LEMMA SetInduction ==
    ASSUME NEW S, 0 \in S, \A n \in Nat : n \in S => n + 1 \in S
    PROVE  \A n \in Nat : n \in S
  <1> SUFFICES ASSUME Nat \ S # {} PROVE FALSE
    OBVIOUS
  <1>1. PICK n \in Nat \ S : \A m \in Nat \ S : n <= m
    BY LeastElement
  <1>2. n # 0 /\ n - 1 \in Nat
    BY <1>1
  <1>3. n - 1 \in S
    BY <1>1, <1>2
  <1>4. (n - 1) + 1 \in S
    BY <1>2, <1>3
  <1> QED BY <1>1, <1>4

-----------------------------------------------------------------------------
(***************************************************************************)
(* The operators of InputBuf, field by field                               *)
(***************************************************************************)

\* c is b, but for the state of the parsers and the messages.
SameRing(b, c) ==
    /\ IsIb(c)
    /\ c.size = b.size /\ c.buf = b.buf /\ c.inp = b.inp /\ c.cur = b.cur /\ c.end = b.end
    /\ c.out_data_size = b.out_data_size

LEMMA IbFields ==
    DOMAIN NewBuf = {"size", "buf", "cur", "end", "inp", "inp_esc", "inp_size_mode", "inp_data_size",
                     "out_esc", "out_size_mode", "out_data_size", "eof", "long_msg", "message_count",
                     "handling_msg", "assert"}
  BY DEF NewBuf

LEMMA TheOne == ASSUME NEW x PROVE The({x}) = x
  BY DEF The

LEMMA NewMessageRing ==
    ASSUME NEW b, IsIb(b)
    PROVE  SameRing(b, NewMessage(b))
  BY IbFields DEF IsIb, SameRing, NewMessage

LEMMA EofRing ==
    ASSUME NEW b, IsIb(b)
    PROVE  SameRing(b, Eof(b))
  <1> DEFINE c == [b EXCEPT !.eof = TRUE]
  <1>1. SameRing(b, c)
    BY IbFields DEF IsIb, SameRing
  <1>2. SameRing(c, NewMessage(c))
    BY <1>1, NewMessageRing DEF SameRing
  <1>3. SameRing(b, NewMessage(c))
    BY <1>1, <1>2 DEF SameRing
  <1> QED BY <1>3 DEF Eof, SameRing

LEMMA ScanByteRing ==
    ASSUME NEW b, IsIb(b), NEW ch
    PROVE  SameRing(b, ScanByte(b, ch))
  <1> DEFINE c == [b EXCEPT !.inp_esc = FALSE]
  <1>1. SameRing(b, c)
    BY IbFields DEF IsIb, SameRing
  <1>2. SameRing(b, NewMessage(c)) /\ SameRing(b, Eof(c))
    BY <1>1, NewMessageRing, EofRing DEF SameRing
  <1>3. /\ SameRing(b, [b EXCEPT !.inp_size_mode = FALSE, !.inp_data_size = SizeOf(ch)])
        /\ SameRing(b, [b EXCEPT !.inp_data_size = @ - 1])
        /\ SameRing(b, [b EXCEPT !.inp_esc = (ch = "E")])
    BY IbFields DEF IsIb, SameRing
  <1>4. /\ SameRing(c, [c EXCEPT !.long_msg = FALSE, !.assert = @ /\ c.message_count = 1])
        /\ SameRing(c, [c EXCEPT !.inp_size_mode = TRUE, !.inp_data_size = 0])
    <2>1. IsIb(c)
      BY <1>1 DEF SameRing
    <2> HIDE DEF c
    <2> QED BY <2>1, IbFields DEF IsIb, SameRing
  <1>5. /\ SameRing(b, [c EXCEPT !.long_msg = FALSE, !.assert = @ /\ c.message_count = 1])
        /\ SameRing(b, [c EXCEPT !.inp_size_mode = TRUE, !.inp_data_size = 0])
    BY <1>1, <1>4 DEF SameRing
  <1> HIDE DEF c
  <1> QED BY <1>1, <1>2, <1>3, <1>5 DEF ScanByte, c

\* The loop of ibuf_read_done() is defined for every number of bytes, and it touches no
\* byte of the ring.
ScanStep(b, bytes, i, c) == ScanByte(c, bytes[b.buf[(b.inp + i - 1) % b.size]])

IsScan(b, bytes, n, f) == f = [i \in 0..n |-> IF i = 0 THEN b ELSE ScanStep(b, bytes, i, f[i - 1])]

LEMMA ScanExists ==
    ASSUME NEW b, NEW bytes, NEW len \in Nat
    PROVE  \E f : IsScan(b, bytes, len, f)
  <1> DEFINE S == {n \in Nat : \E f : IsScan(b, bytes, n, f)}
  <1>1. 0 \in S
    <2> DEFINE f == [i \in 0..0 |-> b]
    <2>1. \A i \in 0..0 : i = 0
      OBVIOUS
    <2>2. IsScan(b, bytes, 0, f)
      BY <2>1 DEF IsScan
    <2> QED BY <2>2
  <1>2. ASSUME NEW n \in Nat, n \in S PROVE n + 1 \in S
    <2>1. PICK f : IsScan(b, bytes, n, f)
      BY <1>2
    <2> DEFINE g == [i \in 0..(n + 1) |-> IF i = n + 1 THEN ScanStep(b, bytes, n + 1, f[n]) ELSE f[i]]
    <2>2. \A i \in 0..n : g[i] = f[i] /\ i # n + 1 /\ i \in 0..(n + 1)
      OBVIOUS
    <2>3. \A i \in 0..n : f[i] = IF i = 0 THEN b ELSE ScanStep(b, bytes, i, f[i - 1])
      BY <2>1 DEF IsScan
    <2>4. ASSUME NEW i \in 0..(n + 1)
          PROVE  g[i] = IF i = 0 THEN b ELSE ScanStep(b, bytes, i, g[i - 1])
      <3>1. CASE i = n + 1
        <4>1. i # 0 /\ i - 1 = n /\ n \in 0..n
          BY <3>1
        <4>2. g[n] = f[n] /\ g[i] = ScanStep(b, bytes, n + 1, f[n])
          BY <2>2, <3>1, <4>1
        <4> HIDE DEF g
        <4> QED BY <3>1, <4>1, <4>2
      <3>2. CASE i # n + 1
        <4>1. i \in 0..n /\ (i # 0 => i - 1 \in 0..n)
          BY <3>2
        <4>2. g[i] = f[i] /\ (i # 0 => g[i - 1] = f[i - 1])
          BY <2>2, <4>1
        <4> HIDE DEF g
        <4> QED BY <2>3, <4>1, <4>2
      <3> QED BY <3>1, <3>2
    <2>5. g = [i \in 0..(n + 1) |-> IF i = 0 THEN b ELSE ScanStep(b, bytes, i, g[i - 1])]
      <3>1. g = [i \in 0..(n + 1) |-> g[i]]
        OBVIOUS
      <3> HIDE DEF g
      <3> QED BY <2>4, <3>1
    <2>6. IsScan(b, bytes, n + 1, g)
      BY <2>5 DEF IsScan
    <2> QED BY <2>6
  <1> HIDE DEF S
  <1>3. len \in S
    BY <1>1, <1>2, SetInduction
  <1> QED BY <1>3 DEF S

LEMMA ScanLoop ==
    ASSUME NEW b, NEW bytes, NEW len \in Nat
    PROVE  \E f : /\ Scan(b, bytes, len) = [f[len] EXCEPT !.inp = (b.inp + len) % b.size]
                  /\ \A i \in 0..len : f[i] = IF i = 0 THEN b ELSE ScanStep(b, bytes, i, f[i - 1])
  <1>1. PICK f : f = CHOOSE g : g = [i \in 0..len |->
                    IF i = 0 THEN b
                    ELSE The({ScanByte(c, bytes[b.buf[(b.inp + i - 1) % b.size]]) : c \in {g[i - 1]}})]
    OBVIOUS
  <1>2. Scan(b, bytes, len) = [f[len] EXCEPT !.inp = (b.inp + len) % b.size]
    BY <1>1 DEF Scan
  <1>3. \A g : IsScan(b, bytes, len, g) <=>
               g = [i \in 0..len |->
                    IF i = 0 THEN b
                    ELSE The({ScanByte(c, bytes[b.buf[(b.inp + i - 1) % b.size]]) : c \in {g[i - 1]}})]
    <2>1. \A g, i : The({ScanByte(c, bytes[b.buf[(b.inp + i - 1) % b.size]]) : c \in {g[i - 1]}})
                    = ScanStep(b, bytes, i, g[i - 1])
      BY DEF The, ScanStep
    <2> QED BY <2>1 DEF IsScan
  <1>4. IsScan(b, bytes, len, f)
    <2>1. \E g : g = [i \in 0..len |->
                    IF i = 0 THEN b
                    ELSE The({ScanByte(c, bytes[b.buf[(b.inp + i - 1) % b.size]]) : c \in {g[i - 1]}})]
      BY <1>3, ScanExists
    <2>2. f = [i \in 0..len |->
                    IF i = 0 THEN b
                    ELSE The({ScanByte(c, bytes[b.buf[(b.inp + i - 1) % b.size]]) : c \in {f[i - 1]}})]
      BY <1>1, <2>1
    <2> QED BY <1>3, <2>2
  <1>5. \A i \in 0..len : f[i] = IF i = 0 THEN b ELSE ScanStep(b, bytes, i, f[i - 1])
    BY <1>4 DEF IsScan
  <1> QED BY <1>2, <1>5

LEMMA ScanRing ==
    ASSUME NEW b, IsIb(b), NEW bytes, NEW len \in Nat
    PROVE  /\ IsIb(Scan(b, bytes, len))
           /\ SameRing([b EXCEPT !.inp = (b.inp + len) % b.size], Scan(b, bytes, len))
  <1>0. PICK f : /\ Scan(b, bytes, len) = [f[len] EXCEPT !.inp = (b.inp + len) % b.size]
                 /\ \A i \in 0..len : f[i] = IF i = 0 THEN b ELSE ScanStep(b, bytes, i, f[i - 1])
    BY ScanLoop
  <1>2. Scan(b, bytes, len) = [f[len] EXCEPT !.inp = (b.inp + len) % b.size]
    BY <1>0
  <1>5. \A i \in 0..len : f[i] = IF i = 0 THEN b ELSE ScanStep(b, bytes, i, f[i - 1])
    BY <1>0
  <1> DEFINE S == {n \in Nat : n <= len => SameRing(b, f[n])}
  <1>6. 0 \in S
    <2>1. SameRing(b, b)
      BY DEF SameRing
    <2> QED BY <1>5, <2>1
  <1>7. ASSUME NEW n \in Nat, n \in S PROVE n + 1 \in S
    <2> SUFFICES ASSUME n + 1 <= len PROVE SameRing(b, f[n + 1])
      OBVIOUS
    <2>1. n + 1 \in 0..len /\ n <= len /\ n + 1 # 0 /\ (n + 1) - 1 = n
      OBVIOUS
    <2>2. f[n + 1] = ScanStep(b, bytes, n + 1, f[n])
      BY <1>5, <2>1
    <2>3. SameRing(b, f[n])
      BY <1>7, <2>1
    <2>4. SameRing(f[n], f[n + 1])
      BY <2>2, <2>3, ScanByteRing DEF ScanStep, SameRing
    <2> QED BY <2>3, <2>4 DEF SameRing
  <1> HIDE DEF S
  <1>8. len \in S
    BY <1>6, <1>7, SetInduction
  <1>9. SameRing(b, f[len])
    BY <1>8 DEF S
  <1>c. PICK c : c = f[len]
    OBVIOUS
  <1>10. SameRing(b, c) /\ IsIb(c)
    BY <1>9, <1>c DEF SameRing
  <1>m. PICK m : m = (b.inp + len) % b.size
    OBVIOUS
  <1>11. SameRing([b EXCEPT !.inp = m], [c EXCEPT !.inp = m])
    BY <1>10, IbFields DEF IsIb, SameRing
  <1> QED BY <1>2, <1>11, <1>c, <1>m DEF SameRing

\* The positions m + 1, m + 2, ... of the stream are in the ring, n of them from the next
\* byte to read on.
Stored(b, n, m) == \A k \in 0..(n - 1) : b.buf[Slot(b, k)] = m + k + 1

LEMMA ModRing ==
    ASSUME NEW s \in Nat, s > 0, NEW x \in Nat, x < s + s
    PROVE  x % s = IF x < s THEN x ELSE x - s
  <1>1. CASE x < s
    BY <1>1, Z3
  <1>2. CASE ~(x < s)
    <2>1. x % s = x - s
      BY <1>2, Z3
    <2> QED BY <1>2, <2>1
  <1> QED BY <1>1, <1>2

LEMMA RingNumbers ==
    ASSUME NEW b, RingOK(b)
    PROVE  /\ b.size \in Nat /\ b.size > 1 /\ b.inp \in Nat /\ b.inp < b.size
           /\ b.cur \in Nat /\ b.end \in Nat /\ b.cur <= b.end /\ b.end <= b.size
           /\ Out(b) \in Nat /\ Out(b) < b.size
           /\ Used(b) \in Nat /\ Used(b) < b.size
           /\ Used(b) = 0 <=> Out(b) = b.inp
  <1>1. /\ b.size \in Nat /\ b.size > 1 /\ b.inp \in Nat /\ b.inp < b.size
        /\ b.cur \in Nat /\ b.end \in Nat /\ b.cur <= b.end /\ b.end <= b.size
    BY DEF RingOK
  <1>2. Out(b) \in Nat /\ Out(b) < b.size
    BY <1>1 DEF Out
  <1> QED BY <1>1, <1>2 DEF Used

LEMMA SameRingFacts ==
    ASSUME NEW b, NEW c, RingOK(b), SameRing(b, c)
    PROVE  /\ RingOK(c) /\ Used(c) = Used(b) /\ Out(c) = Out(b)
           /\ \A n, m : Stored(b, n, m) => Stored(c, n, m)
  <1>1. Out(c) = Out(b)
    BY DEF SameRing, Out
  <1>2. RingOK(c)
    BY DEF SameRing, RingOK
  <1>3. Used(c) = Used(b)
    BY <1>1 DEF Used, SameRing
  <1>4. \A k : Slot(c, k) = Slot(b, k)
    BY <1>1 DEF Slot, SameRing
  <1>5. \A n, m : Stored(b, n, m) => Stored(c, n, m)
    BY <1>4 DEF Stored, SameRing
  <1> QED BY <1>1, <1>2, <1>3, <1>5

\* ibuf_free_size() moves cur from the end of the buffer to its start.
LEMMA WrapRing ==
    ASSUME NEW b, RingOK(b)
    PROVE  /\ RingOK(Wrap(b)) /\ Used(Wrap(b)) = Used(b) /\ Out(Wrap(b)) = Out(b)
           /\ Wrap(b).size = b.size /\ Wrap(b).inp = b.inp /\ Wrap(b).eof = b.eof
           /\ \A n, m : Stored(b, n, m) => Stored(Wrap(b), n, m)
           /\ Wrap(b).eof \/ Wrap(b).cur # b.size
  <1>1. CASE b.cur = b.size /\ ~b.eof
    <2>c. PICK c : c = [b EXCEPT !.cur = 0, !.end = 0]
      OBVIOUS
    <2>1. /\ IsIb(c) /\ c.size = b.size /\ c.buf = b.buf /\ c.inp = b.inp /\ c.cur = 0 /\ c.end = 0
          /\ c.out_data_size = b.out_data_size /\ c.eof = b.eof
      BY <2>c, IbFields DEF IsIb, RingOK
    <2>2. Wrap(b) = c
      BY <1>1, <2>c DEF Wrap
    <2>3. b.size > 1 /\ b.size \in Nat
      BY DEF RingOK
    <2>4. Out(c) = Out(b) /\ Out(c) = 0
      BY <1>1, <2>1, <2>3 DEF Out
    <2>5. RingOK(c)
      BY <2>1, <2>3 DEF RingOK
    <2>6. Used(c) = Used(b) /\ \A k : Slot(c, k) = Slot(b, k)
      BY <2>1, <2>4 DEF Used, Slot
    <2>7. \A n, m : Stored(b, n, m) => Stored(c, n, m)
      BY <2>1, <2>6 DEF Stored
    <2> QED BY <2>1, <2>2, <2>3, <2>4, <2>5, <2>6, <2>7
  <1>2. CASE ~(b.cur = b.size /\ ~b.eof)
    <2>1. Wrap(b) = b
      BY <1>2 DEF Wrap
    <2> QED BY <1>2, <2>1
  <1> QED BY <1>1, <1>2

\* What ibuf_free_size() says is free is free, and nothing else is but one byte.
LEMMA FreeSizeRing ==
    ASSUME NEW b, RingOK(b)
    PROVE  /\ FreeSize(b) \in Nat
           /\ FreeSize(b) > 0 => b.inp + FreeSize(b) <= b.size /\ Used(b) + FreeSize(b) < b.size
           /\ FreeSize(b) = 0 /\ ~b.eof => Used(b) = b.size - 1
  <1>1. FreeSize(b) = IF b.eof THEN 0
                      ELSE IF Out(b) <= b.inp THEN (b.size - b.inp) - (IF Out(b) = 0 THEN 1 ELSE 0)
                      ELSE Out(b) - b.inp - 1
    BY DEF FreeSize, Out
  <1>o. PICK o : o = Out(b)
    OBVIOUS
  <1>u. PICK u : u = Used(b)
    OBVIOUS
  <1>s. PICK s : s = b.size
    OBVIOUS
  <1>p. PICK p : p = b.inp
    OBVIOUS
  <1>2. s \in Nat /\ s > 1 /\ p \in Nat /\ p < s /\ o \in Nat /\ o < s
    BY <1>o, <1>s, <1>p, RingNumbers
  <1>3. u = IF o <= p THEN p - o ELSE p + s - o
    BY <1>o, <1>u, <1>s, <1>p DEF Used
  <1>4. CASE b.eof
    BY <1>1, <1>4
  <1>v. PICK v : v = FreeSize(b)
    OBVIOUS
  <1>5. ASSUME ~b.eof
        PROVE  v \in Nat /\ p + v <= s /\ u + v < s /\ (v = 0 => u = s - 1)
    <2>1. v = IF o <= p THEN (s - p) - (IF o = 0 THEN 1 ELSE 0) ELSE o - p - 1
      BY <1>1, <1>5, <1>o, <1>s, <1>p, <1>v, Zenon
    <2>2. CASE o <= p /\ o = 0
      <3>1. v = (s - p) - 1 /\ u = p
        BY <1>2, <1>3, <2>1, <2>2
      <3> QED BY <1>2, <3>1
    <2>3. CASE o <= p /\ o # 0
      <3>1. v = s - p /\ u = p - o
        BY <1>2, <1>3, <2>1, <2>3
      <3> QED BY <1>2, <2>3, <3>1
    <2>4. CASE ~(o <= p)
      <3>1. v = o - p - 1 /\ u = p + s - o
        BY <1>3, <2>1, <2>4
      <3> QED BY <1>2, <2>4, <3>1
    <2> QED BY <2>2, <2>3, <2>4
  <1>6. CASE ~b.eof
    BY <1>5, <1>6, <1>u, <1>s, <1>p, <1>v
  <1> QED BY <1>4, <1>6

\* The buffer is copied to a larger one: every unread byte is where it is looked for.
LEMMA GrowRing ==
    ASSUME NEW b, RingOK(b), b.eof \/ b.cur # b.size, NEW m, Stored(b, Used(b), m)
    PROVE  RingOK(Grow(b)) /\ Used(Grow(b)) = Used(b) /\ Stored(Grow(b), Used(b), m)
  <1>1. CASE b.eof \/ FreeSize(b) > 0 \/ b.size >= MaxBufSize
    <2>1. Grow(b) = b
      BY <1>1 DEF Grow
    <2> QED BY <2>1
  <1>2. CASE ~(b.eof \/ FreeSize(b) > 0 \/ b.size >= MaxBufSize)
    <2>s. PICK s : s = b.size
      OBVIOUS
    <2>o. PICK o : o = b.cur
      OBVIOUS
    <2>f. PICK f : f = [i \in 0..(2 * s - 1) |-> IF i < s THEN b.buf[(o + i) % s] ELSE 0]
      OBVIOUS
    <2>c. PICK c : c = [b EXCEPT !.size = 2 * s, !.inp = s - 1, !.cur = 0, !.end = b.end - o, !.buf = f]
      OBVIOUS
    <2>1. Grow(b) = c
      BY <1>2, <2>s, <2>o, <2>f, <2>c DEF Grow
    <2>2. /\ IsIb(c) /\ c.size = 2 * s /\ c.buf = f /\ c.inp = s - 1 /\ c.cur = 0 /\ c.end = b.end - o
          /\ c.out_data_size = b.out_data_size
      BY <2>c, IbFields DEF IsIb, RingOK
    <2>3. /\ s \in Nat /\ s > 1 /\ o \in Nat /\ o < s /\ Out(b) = o
          /\ b.inp \in Nat /\ b.inp < s /\ b.end \in Nat /\ o <= b.end /\ b.end <= s
      BY <1>2, <2>s, <2>o, RingNumbers DEF Out
    <2>4. Used(b) = s - 1
      BY <1>2, <2>s, FreeSizeRing
    <2>5. Out(c) = 0
      BY <2>2, <2>3 DEF Out
    <2>6. Used(c) = s - 1
      BY <2>2, <2>3, <2>5 DEF Used
    <2>7. b.end - o <= s - 1
      <3>1. CASE o = b.end
        BY <2>3, <3>1
      <3>2. CASE o < b.end
        <4>1. (o < b.inp /\ b.end <= b.inp) \/ b.inp < o
          BY <2>o, <3>2 DEF RingOK
        <4> QED BY <2>3, <4>1
      <3> QED BY <2>3, <3>1, <3>2
    <2>8. RingOK(c)
      <3>1. DOMAIN c.buf = 0..(c.size - 1)
        BY <2>2, <2>f
      <3>2. c.size \in Nat /\ c.size > 1 /\ c.inp \in 0..(c.size - 1)
        BY <2>2, <2>3
      <3>3. c.cur \in 0..c.size /\ c.end \in 0..c.size /\ c.cur <= c.end
        BY <2>2, <2>3, <2>7
      <3>4. c.cur < c.end => c.cur < c.inp /\ c.end <= c.inp
        BY <2>2, <2>3, <2>7
      <3>5. c.out_data_size \in Nat
        BY <2>2 DEF RingOK
      <3> QED BY <2>2, <3>1, <3>2, <3>3, <3>4, <3>5 DEF RingOK
    <2>9. ASSUME NEW k \in 0..((s - 1) - 1) PROVE c.buf[Slot(c, k)] = m + k + 1
      <3>1. k \in Nat /\ k < s /\ k \in 0..(2 * s - 1) /\ k \in 0..((s - 1) - 1)
        BY <2>3
      <3>2. Slot(c, k) = k
        BY <2>2, <2>3, <2>5, <3>1 DEF Slot
      <3>3. c.buf[k] = b.buf[(o + k) % s]
        BY <2>2, <2>f, <3>1
      <3>4. (o + k) % s = IF o + k < s THEN o + k ELSE o + k - s
        BY <2>3, <3>1, ModRing
      <3>5. (o + k) % s = Slot(b, k)
        BY <2>3, <2>s, <3>4 DEF Slot
      <3>6. b.buf[Slot(b, k)] = m + k + 1
        BY <2>4, <3>1 DEF Stored
      <3> QED BY <3>2, <3>3, <3>5, <3>6
    <2> QED BY <2>1, <2>4, <2>6, <2>8, <2>9 DEF Stored
  <1> QED BY <1>1, <1>2

\* Bytes are received: they follow the unread ones.
LEMMA ReceivedRing ==
    ASSUME NEW b, RingOK(b), NEW len \in Nat, len > 0, b.inp + len <= b.size, Used(b) + len < b.size,
           NEW c, SameRing([b EXCEPT !.inp = (b.inp + len) % b.size], c)
    PROVE  /\ RingOK(c) /\ Used(c) = Used(b) + len
           /\ \A n, m : Stored(b, n, m) => Stored(c, n, m)
  <1>s. PICK s : s = b.size
    OBVIOUS
  <1>o. PICK o : o = Out(b)
    OBVIOUS
  <1>p. PICK p : p = b.inp
    OBVIOUS
  <1>q. PICK q : q = (p + len) % s
    OBVIOUS
  <1>1. /\ s \in Nat /\ s > 1 /\ p \in Nat /\ p < s /\ o \in Nat /\ o < s
        /\ b.cur \in Nat /\ b.end \in Nat /\ b.cur <= b.end /\ b.end <= s
        /\ p + len <= s
    BY <1>s, <1>o, <1>p, RingNumbers
  <1>2. q = IF p + len < s THEN p + len ELSE 0
    <2>x. PICK x : x = p + len
      OBVIOUS
    <2>0. x \in Nat /\ x < s + s /\ s > 0
      BY <1>1, <2>x
    <2>1. q = IF x < s THEN x ELSE x - s
      BY <1>1, <1>q, <2>0, <2>x, ModRing
    <2> QED BY <1>1, <2>1, <2>x
  <1>3. q \in Nat /\ q < s
    BY <1>1, <1>2
  <1>4. /\ IsIb(c) /\ c.size = s /\ c.buf = b.buf /\ c.inp = q /\ c.cur = b.cur /\ c.end = b.end
        /\ c.out_data_size = b.out_data_size
    <2>d. PICK d : d = [b EXCEPT !.inp = q]
      OBVIOUS
    <2>1. /\ IsIb(d) /\ d.size = s /\ d.buf = b.buf /\ d.inp = q /\ d.cur = b.cur /\ d.end = b.end
          /\ d.out_data_size = b.out_data_size
      BY <1>s, <2>d, IbFields DEF IsIb, RingOK
    <2>2. SameRing(d, c)
      BY <1>s, <1>p, <1>q, <2>d
    <2> QED BY <2>1, <2>2 DEF SameRing
  <1>5. Out(c) = o
    BY <1>4, <1>s, <1>o DEF Out
  <1>6. o = IF b.cur = s THEN 0 ELSE b.cur
    BY <1>s, <1>o DEF Out
  <1>7. (o <= p /\ p - o + len < s) \/ (p < o /\ p + len < o)
    <2>1. Used(b) = IF o <= p THEN p - o ELSE p + s - o
      BY <1>s, <1>o, <1>p DEF Used
    <2> QED BY <1>1, <1>s, <2>1
  <1>8. Used(c) = Used(b) + len
    <2>1. Used(b) = IF o <= p THEN p - o ELSE p + s - o
      BY <1>s, <1>o, <1>p DEF Used
    <2>2. Used(c) = IF o <= q THEN q - o ELSE q + s - o
      BY <1>4, <1>5 DEF Used
    <2>3. CASE p + len < s
      BY <1>1, <1>2, <1>7, <2>1, <2>2, <2>3
    <2>4. CASE ~(p + len < s)
      <3>1. q = 0 /\ p + len = s /\ o <= p /\ o > 0
        BY <1>1, <1>2, <1>7, <2>4
      <3> QED BY <1>1, <2>1, <2>2, <3>1
    <2> QED BY <2>3, <2>4
  <1>9. RingOK(c)
    <2>1. ASSUME b.cur < b.end PROVE (b.cur < q /\ b.end <= q) \/ q < b.cur
      <3>1. (b.cur < p /\ b.end <= p) \/ p < b.cur
        BY <1>p, <2>1 DEF RingOK
      <3>2. o = b.cur
        BY <1>1, <1>6, <2>1
      <3> QED BY <1>1, <1>2, <1>7, <3>1, <3>2
    <2>2. DOMAIN c.buf = 0..(c.size - 1) /\ c.out_data_size \in Nat
      BY <1>4, <1>s DEF RingOK
    <2>3. /\ c.size \in Nat /\ c.size > 1 /\ c.inp \in 0..(c.size - 1)
          /\ c.cur \in 0..c.size /\ c.end \in 0..c.size /\ c.cur <= c.end
      BY <1>1, <1>3, <1>4
    <2> QED BY <1>4, <2>1, <2>2, <2>3 DEF RingOK
  <1>10. \A k : Slot(c, k) = Slot(b, k)
    BY <1>4, <1>5, <1>s, <1>o DEF Slot
  <1> QED BY <1>4, <1>8, <1>9, <1>10 DEF Stored

\* ibuf_read_done() keeps every byte, whether the buffer wraps around or grows.
LEMMA ReadIntoRing ==
    ASSUME NEW b, RingOK(b), NEW bytes, NEW len \in Nat, len > 0 => b.inp + len <= b.size,
           Used(b) + len < b.size, NEW m, Stored(b, Used(b) + len, m)
    PROVE  LET c == ReadInto(b, bytes, len)
           IN  RingOK(c) /\ Used(c) = Used(b) + len /\ Stored(c, Used(c), m)
  <1>1. CASE len = 0
    <2>1. SameRing(b, Eof(b)) /\ ReadInto(b, bytes, len) = Eof(b)
      BY <1>1, EofRing DEF ReadInto, RingOK
    <2>2. Used(b) + len = Used(b)
      BY <1>1, RingNumbers
    <2> QED BY <2>1, <2>2, SameRingFacts
  <1>2. CASE len # 0
    <2>c. PICK c : c = Scan(b, bytes, len)
      OBVIOUS
    <2>w. PICK w : w = Wrap(c)
      OBVIOUS
    <2>g. PICK g : g = Grow(w)
      OBVIOUS
    <2>h. PICK h : h = Wrap(g)
      OBVIOUS
    <2>u. PICK u : u = Used(b) + len
      OBVIOUS
    <2>1. RingOK(c) /\ Used(c) = u /\ Stored(c, u, m)
      <3>1. SameRing([b EXCEPT !.inp = (b.inp + len) % b.size], c)
        BY <2>c, ScanRing DEF RingOK
      <3> QED BY <1>2, <2>u, <3>1, ReceivedRing
    <2>2. RingOK(w) /\ Used(w) = u /\ Stored(w, u, m) /\ (w.eof \/ w.cur # w.size)
      BY <2>1, <2>w, WrapRing
    <2>3. RingOK(g) /\ Used(g) = u /\ Stored(g, u, m)
      BY <2>2, <2>g, GrowRing
    <2>4. RingOK(h) /\ Used(h) = u /\ Stored(h, u, m)
      BY <2>3, <2>h, WrapRing
    <2>5. ReadInto(b, bytes, len) = IF FreeSize(h) = 0 /\ h.message_count = 0
                                      THEN NewMessage([h EXCEPT !.long_msg = TRUE]) ELSE h
      <3>1. {IF FreeSize(x) = 0 /\ x.message_count = 0
                THEN NewMessage([x EXCEPT !.long_msg = TRUE])
                ELSE x : x \in {Wrap(Grow(y)) : y \in {Wrap(Scan(b, bytes, len))}}}
            = {IF FreeSize(h) = 0 /\ h.message_count = 0
                 THEN NewMessage([h EXCEPT !.long_msg = TRUE]) ELSE h}
        BY <2>c, <2>w, <2>g, <2>h, Zenon
      <3> QED BY <1>2, <3>1, TheOne, Zenon DEF ReadInto
    <2>6. SameRing(h, NewMessage([h EXCEPT !.long_msg = TRUE]))
      <3>d. PICK d : d = [h EXCEPT !.long_msg = TRUE]
        OBVIOUS
      <3>1. SameRing(h, d)
        BY <2>4, <3>d, IbFields DEF IsIb, SameRing, RingOK
      <3>2. SameRing(d, NewMessage(d))
        BY <3>1, NewMessageRing DEF SameRing
      <3> QED BY <3>1, <3>2, <3>d DEF SameRing
    <2> QED BY <2>4, <2>5, <2>6, <2>u, SameRingFacts
  <1> QED BY <1>1, <1>2

-----------------------------------------------------------------------------
(***************************************************************************)
(* Reading                                                                 *)
(***************************************************************************)

\* The search for an escape ends, and there is none before the place.
LEMMA RunEndInStretch ==
    ASSUME NEW b, RingOK(b), Out(b) # b.inp, NEW bytes
    PROVE  /\ RunEnd(b, bytes, Out(b)) \in (Out(b) + 1)..Stretch(b, Out(b))
           /\ \A j \in (Out(b) + 1)..(RunEnd(b, bytes, Out(b)) - 1) : bytes[b.buf[j]] # "E"
  <1>o. PICK o : o = Out(b)
    OBVIOUS
  <1>m. PICK max : max = Stretch(b, o)
    OBVIOUS
  <1>1. o \in Nat /\ max \in Nat /\ o + 1 <= max
    BY <1>o, <1>m, RingNumbers DEF Stretch
  <1> DEFINE S == {k \in (o + 1)..max : k = max \/ bytes[b.buf[k]] = "E"}
  <1>2. max \in S /\ S \subseteq Nat
    BY <1>1
  <1>3. PICK k \in S : \A j \in S : k <= j
    BY <1>2, LeastElement
  <1>4. \A j \in (o + 1)..(k - 1) : bytes[b.buf[j]] # "E"
    <2>1. ASSUME NEW j \in (o + 1)..(k - 1), bytes[b.buf[j]] = "E" PROVE FALSE
      <3>1. j \in (o + 1)..max /\ ~(k <= j)
        BY <1>1, <1>3
      <3>2. j \in S
        BY <2>1, <3>1
      <3> QED BY <1>3, <3>1, <3>2
    <2> QED BY <2>1
  <1>5. \E x \in (o + 1)..max : /\ x = max \/ bytes[b.buf[x]] = "E"
                                /\ \A j \in (o + 1)..(x - 1) : bytes[b.buf[j]] # "E"
    BY <1>3, <1>4
  <1> HIDE DEF S
  <1>6. RunEnd(b, bytes, o) = CHOOSE x \in (o + 1)..max :
                                /\ x = max \/ bytes[b.buf[x]] = "E"
                                /\ \A j \in (o + 1)..(x - 1) : bytes[b.buf[j]] # "E"
    BY <1>m DEF RunEnd
  <1>7. /\ RunEnd(b, bytes, o) \in (o + 1)..max
        /\ \A j \in (o + 1)..(RunEnd(b, bytes, o) - 1) : bytes[b.buf[j]] # "E"
    BY <1>5, <1>6
  <1> QED BY <1>7, <1>o, <1>m

\* What a turn of ibuf_get_more(), or a read of a byte before end, makes of b.
ReadStep(b, c) ==
    /\ IsIb(c)
    /\ c.size = b.size /\ c.buf = b.buf /\ c.inp = b.inp /\ c.eof = b.eof
    /\ c.out_data_size \in Nat
    /\ c.cur \in {Out(b), Out(b) + 1} /\ c.cur <= c.end /\ c.end \in Nat
    /\ c.cur = c.end \/ c.end <= Stretch(b, Out(b))

LEMMA TurnStep ==
    ASSUME NEW b, RingOK(b), Out(b) # b.inp, NEW bytes, NEW peeking \in BOOLEAN
    PROVE  ReadStep(b, Turn(b, bytes, peeking)[2])
  <1>o. PICK o : o = Out(b)
    OBVIOUS
  <1>h. PICK ch : ch = bytes[b.buf[o]]
    OBVIOUS
  <1>s. PICK step : step = IF peeking THEN 0 ELSE 1
    OBVIOUS
  <1>m. PICK max : max = Stretch(b, o)
    OBVIOUS
  <1>1. /\ o \in Nat /\ max \in Nat /\ o + 1 <= max /\ step \in {0, 1}
        /\ b.out_data_size \in Nat /\ IsIb(b)
    BY <1>o, <1>m, <1>s, RingNumbers DEF Stretch, RingOK
  <1>2. CASE b.out_size_mode
    <2>c. PICK c : c = [[b EXCEPT !.out_size_mode = FALSE, !.out_data_size = SizeOf(ch)]
                          EXCEPT !.cur = o + 1, !.end = o + 1]
      OBVIOUS
    <2>1. Turn(b, bytes, peeking) = <<"turn", c>>
      BY <1>2, <1>o, <1>h, <2>c DEF Turn
    <2>2. SizeOf(ch) \in Nat
      BY DEF SizeOf
    <2>3. /\ IsIb(c) /\ c.size = b.size /\ c.buf = b.buf /\ c.inp = b.inp /\ c.eof = b.eof
          /\ c.out_data_size = SizeOf(ch) /\ c.cur = o + 1 /\ c.end = o + 1
      BY <1>1, <2>c, IbFields DEF IsIb
    <2>4. ReadStep(b, c)
      BY <1>1, <1>o, <2>2, <2>3 DEF ReadStep
    <2> QED BY <2>1, <2>4
  <1>3. CASE ~b.out_size_mode /\ b.out_data_size > 0
    <2>n. PICK n : n = IF max - o < b.out_data_size THEN max - o ELSE b.out_data_size
      OBVIOUS
    <2>c. PICK c : c = [b EXCEPT !.out_data_size = @ - n, !.cur = o + step, !.end = o + n]
      OBVIOUS
    <2>1. Turn(b, bytes, peeking) = <<"data", c>>
      BY <1>3, <1>o, <1>m, <1>s, <2>n, <2>c DEF Turn
    <2>2. n \in Nat /\ n >= 1 /\ n <= max - o /\ n <= b.out_data_size
      BY <1>1, <1>3, <2>n
    <2>3. /\ IsIb(c) /\ c.size = b.size /\ c.buf = b.buf /\ c.inp = b.inp /\ c.eof = b.eof
          /\ c.out_data_size = b.out_data_size - n /\ c.cur = o + step /\ c.end = o + n
      BY <1>1, <2>c, IbFields DEF IsIb
    <2>4. /\ b.out_data_size - n \in Nat /\ o + step \in {o, o + 1} /\ o + step <= o + n
          /\ o + n \in Nat /\ o + n <= max
      BY <1>1, <2>2
    <2>5. ReadStep(b, c)
      BY <1>o, <1>m, <2>3, <2>4 DEF ReadStep
    <2> QED BY <2>1, <2>5
  <1>4. CASE ~b.out_size_mode /\ ~(b.out_data_size > 0) /\ b.out_esc /\ ch = "3"
    <2>c. PICK c : c = [[b EXCEPT !.out_size_mode = TRUE, !.out_data_size = 0, !.out_esc = FALSE]
                          EXCEPT !.cur = o + 1, !.end = o + 1]
      OBVIOUS
    <2>1. Turn(b, bytes, peeking) = <<"turn", c>>
      BY <1>4, <1>o, <1>h, <2>c DEF Turn
    <2>2. /\ IsIb(c) /\ c.size = b.size /\ c.buf = b.buf /\ c.inp = b.inp /\ c.eof = b.eof
          /\ c.out_data_size = 0 /\ c.cur = o + 1 /\ c.end = o + 1
      BY <1>1, <2>c, IbFields DEF IsIb
    <2>3. ReadStep(b, c)
      BY <1>1, <1>o, <2>2 DEF ReadStep
    <2> QED BY <2>1, <2>3
  <1>5. CASE ~b.out_size_mode /\ ~(b.out_data_size > 0) /\ b.out_esc /\ ch # "3"
    <2>d. PICK d : d = IF ch = "1" /\ ~peeking THEN EndOfMessage(b) ELSE b
      OBVIOUS
    <2>c. PICK c : c = [[d EXCEPT !.out_esc = peeking] EXCEPT !.cur = o + step, !.end = o + step]
      OBVIOUS
    <2>1. Turn(b, bytes, peeking)[2] = c
      <3>1. Turn(b, bytes, peeking) = <<IF ch = "0" THEN "data" ELSE IF ch = "1" THEN "EOM" ELSE "EOS", c>>
        BY <1>5, <1>o, <1>h, <1>s, <2>d, <2>c DEF Turn
      <3> QED BY <3>1
    <2>2. /\ IsIb(d) /\ d.size = b.size /\ d.buf = b.buf /\ d.inp = b.inp /\ d.eof = b.eof
          /\ d.out_data_size = b.out_data_size
      <3>1. CASE d = b
        BY <1>1, <3>1
      <3>2. CASE d = EndOfMessage(b)
        BY <1>1, <3>2, IbFields DEF EndOfMessage, IsIb
      <3> QED BY <2>d, <3>1, <3>2
    <2>3. o + step \in {o, o + 1} /\ o + step \in Nat
      BY <1>1
    <2>4. /\ IsIb(c) /\ c.size = b.size /\ c.buf = b.buf /\ c.inp = b.inp /\ c.eof = b.eof
          /\ c.out_data_size = b.out_data_size /\ c.cur = o + step /\ c.end = o + step
      BY <2>2, <2>c, IbFields DEF IsIb
    <2>5. ReadStep(b, c)
      BY <1>1, <1>o, <2>3, <2>4 DEF ReadStep
    <2> QED BY <2>1, <2>5
  <1>6. CASE ~b.out_size_mode /\ ~(b.out_data_size > 0) /\ ~b.out_esc /\ ch # "E"
    <2>e. PICK e : e = RunEnd(b, bytes, o)
      OBVIOUS
    <2>c. PICK c : c = [b EXCEPT !.cur = o + step, !.end = e]
      OBVIOUS
    <2>1. Turn(b, bytes, peeking) = <<"data", c>>
      BY <1>6, <1>o, <1>h, <1>s, <2>e, <2>c DEF Turn
    <2>2. e \in (o + 1)..max
      BY <1>o, <1>m, <2>e, RunEndInStretch
    <2>3. o + step \in {o, o + 1} /\ o + step <= e /\ e \in Nat /\ e <= max
      BY <1>1, <2>2
    <2>4. /\ IsIb(c) /\ c.size = b.size /\ c.buf = b.buf /\ c.inp = b.inp /\ c.eof = b.eof
          /\ c.out_data_size = b.out_data_size /\ c.cur = o + step /\ c.end = e
      BY <1>1, <2>c, IbFields DEF IsIb
    <2>5. ReadStep(b, c)
      BY <1>1, <1>o, <1>m, <2>3, <2>4 DEF ReadStep
    <2> QED BY <2>1, <2>5
  <1>7. CASE ~b.out_size_mode /\ ~(b.out_data_size > 0) /\ ~b.out_esc /\ ch = "E"
    <2>c. PICK c : c = [[b EXCEPT !.out_esc = TRUE] EXCEPT !.cur = o + 1, !.end = o + 1]
      OBVIOUS
    <2>1. Turn(b, bytes, peeking) = <<"turn", c>>
      BY <1>7, <1>o, <1>h, <2>c DEF Turn
    <2>2. /\ IsIb(c) /\ c.size = b.size /\ c.buf = b.buf /\ c.inp = b.inp /\ c.eof = b.eof
          /\ c.out_data_size = b.out_data_size /\ c.cur = o + 1 /\ c.end = o + 1
      BY <1>1, <2>c, IbFields DEF IsIb
    <2>3. ReadStep(b, c)
      BY <1>1, <1>o, <2>2 DEF ReadStep
    <2> QED BY <2>1, <2>3
  <1> QED BY <1>2, <1>3, <1>4, <1>5, <1>6, <1>7

\* The ring after a step of the reader.
LEMMA ReadStepRing ==
    ASSUME NEW b, RingOK(b), Out(b) # b.inp, NEW c, ReadStep(b, c)
    PROVE  /\ RingOK(c) /\ c.size = b.size /\ c.buf = b.buf /\ c.inp = b.inp
           /\ \/ Out(c) = Out(b)
              \/ Out(c) = IF Out(b) + 1 < b.size THEN Out(b) + 1 ELSE 0
  <1>1. /\ b.size \in Nat /\ b.size > 1 /\ b.inp \in Nat /\ b.inp < b.size
        /\ Out(b) \in Nat /\ Out(b) < b.size
    BY RingNumbers
  <1>o. PICK o : o = Out(b)
    OBVIOUS
  <1>2. Stretch(b, o) = IF o < b.inp THEN b.inp ELSE b.size
    BY <1>1, <1>o DEF Stretch
  <1>3. /\ c.cur \in Nat /\ c.end \in Nat /\ c.cur <= c.end /\ (c.cur = o \/ c.cur = o + 1)
        /\ c.cur <= b.size /\ (c.cur = c.end \/ c.end <= Stretch(b, o))
    BY <1>1, <1>o DEF ReadStep
  <1>4. c.end <= b.size
    BY <1>1, <1>2, <1>3
  <1>5. c.cur < c.end => (c.cur < b.inp /\ c.end <= b.inp) \/ b.inp < c.cur
    <2>1. CASE o < b.inp
      BY <1>1, <1>2, <1>3, <1>o, <2>1
    <2>2. CASE ~(o < b.inp)
      BY <1>1, <1>2, <1>3, <1>o, <2>2
    <2> QED BY <2>1, <2>2
  <1>6. RingOK(c)
    <2>1. /\ c.size = b.size /\ c.buf = b.buf /\ c.inp = b.inp /\ IsIb(c)
          /\ c.out_data_size \in Nat /\ DOMAIN b.buf = 0..(b.size - 1)
      BY DEF ReadStep, RingOK
    <2>2. b.inp \in 0..(b.size - 1) /\ c.cur \in 0..b.size /\ c.end \in 0..b.size
      BY <1>1, <1>3, <1>4
    <2> QED BY <1>1, <1>3, <1>5, <2>1, <2>2 DEF RingOK
  <1>7. Out(c) = o \/ Out(c) = IF o + 1 < b.size THEN o + 1 ELSE 0
    <2>1. Out(c) = IF c.cur = b.size THEN 0 ELSE c.cur
      BY DEF Out, ReadStep
    <2> QED BY <1>1, <1>3, <1>o, <2>1
  <1> QED BY <1>6, <1>7, <1>o DEF ReadStep

\* read_stream() and peek_stream() take one unread byte, or none.
LEMMA ReadRing ==
    ASSUME NEW b, RingOK(b), ~NoData(b), NEW bytes, NEW peeking \in BOOLEAN,
           NEW c, c = Read(b, bytes, peeking)[2]
    PROVE  /\ RingOK(c) /\ c.size = b.size /\ c.buf = b.buf /\ c.inp = b.inp /\ Out(b) # b.inp
           /\ \/ Out(c) = Out(b)
              \/ Out(c) = IF Out(b) + 1 < b.size THEN Out(b) + 1 ELSE 0
  <1>1. b.cur \in Nat /\ b.end \in Nat /\ b.end <= b.size /\ b.size \in Nat /\ b.inp \in Nat /\ IsIb(b)
    BY RingNumbers DEF RingOK
  <1>2. CASE b.cur < b.end
    <2>1. Out(b) = b.cur /\ Out(b) # b.inp
      BY <1>1, <1>2 DEF Out, RingOK
    <2>2. Read(b, bytes, peeking) = <<"data", IF peeking THEN b ELSE [b EXCEPT !.cur = @ + 1]>>
      BY <1>2 DEF Read
    <2>3. ReadStep(b, b)
      <3>1. b.end <= Stretch(b, b.cur)
        BY <1>1, <1>2 DEF Stretch, RingOK
      <3> QED BY <1>1, <1>2, <2>1, <3>1 DEF ReadStep, RingOK
    <2>d. PICK d : d = [b EXCEPT !.cur = @ + 1]
      OBVIOUS
    <2>4. /\ IsIb(d) /\ d.size = b.size /\ d.buf = b.buf /\ d.inp = b.inp /\ d.eof = b.eof
          /\ d.out_data_size = b.out_data_size /\ d.cur = b.cur + 1 /\ d.end = b.end
      BY <1>1, <2>d, IbFields DEF IsIb
    <2>5. ReadStep(b, d)
      <3>1. b.cur + 1 <= b.end
        BY <1>1, <1>2
      <3> QED BY <2>1, <2>3, <2>4, <3>1, <1>1, <1>2 DEF ReadStep
    <2>6. c = b \/ c = d
      BY <2>2, <2>d
    <2> QED BY <2>1, <2>3, <2>5, <2>6, ReadStepRing
  <1>3. CASE ~(b.cur < b.end)
    <2>1. Out(b) # b.inp
      BY <1>1, <1>3 DEF NoData
    <2>t. PICK t : t = Turn(b, bytes, peeking)
      OBVIOUS
    <2>2. ReadStep(b, t[2])
      BY <2>1, <2>t, TurnStep
    <2>3. c = t[2] \/ c = Wrap(t[2])
      BY <1>3, <2>t DEF Read
    <2>4. /\ RingOK(t[2]) /\ t[2].size = b.size /\ t[2].buf = b.buf /\ t[2].inp = b.inp
          /\ \/ Out(t[2]) = Out(b)
             \/ Out(t[2]) = IF Out(b) + 1 < b.size THEN Out(b) + 1 ELSE 0
      BY <2>1, <2>2, ReadStepRing
    <2>5. CASE c = t[2]
      BY <2>1, <2>4, <2>5
    <2>6. CASE c = Wrap(t[2])
      <3>1. Wrap(t[2]).buf = t[2].buf
        BY <2>4, IbFields DEF Wrap, RingOK, IsIb
      <3> QED BY <2>1, <2>4, <2>6, <3>1, WrapRing
    <2> QED BY <2>3, <2>5, <2>6
  <1> QED BY <1>2, <1>3

\* One byte is taken out of the ring, or none: the rest follows.
LEMMA ConsumedRing ==
    ASSUME NEW b, RingOK(b), NEW c, RingOK(c), c.size = b.size, c.buf = b.buf, c.inp = b.inp,
           Out(b) # b.inp,
           Out(c) = Out(b) \/ Out(c) = IF Out(b) + 1 < b.size THEN Out(b) + 1 ELSE 0,
           NEW n, n = (Out(c) + c.size - Out(b)) % c.size,
           NEW l \in Int, NEW m \in Int, l < b.size, Stored(b, l, m)
    PROVE  /\ n \in {0, 1} /\ Used(c) = Used(b) - n
           /\ Stored(c, l - n, m + n)
  <1>s. PICK s : s = b.size
    OBVIOUS
  <1>o. PICK o : o = Out(b)
    OBVIOUS
  <1>p. PICK p : p = b.inp
    OBVIOUS
  <1>1. /\ s \in Nat /\ s > 1 /\ p \in Nat /\ p < s /\ o \in Nat /\ o < s /\ o # p
    BY <1>s, <1>o, <1>p, RingNumbers
  <1>2. Used(b) = IF o <= p THEN p - o ELSE p + s - o
    BY <1>s, <1>o, <1>p DEF Used
  <1>3. CASE Out(c) = o
    <2>1. n = 0
      <3>1. n = (o + s - o) % s
        BY <1>3, <1>s, <1>o
      <3>2. o + s - o = s
        BY <1>1
      <3>3. s % s = 0
        <4>1. s % s = IF s < s THEN s ELSE s - s
          BY <1>1, ModRing
        <4> QED BY <1>1, <4>1
      <3> QED BY <3>1, <3>2, <3>3
    <2>2. Used(c) = Used(b) /\ \A k : Slot(c, k) = Slot(b, k)
      BY <1>3, <1>o DEF Used, Slot
    <2>3. l - n = l /\ m + n = m /\ Used(b) - n = Used(b)
      BY <1>1, <1>2, <2>1
    <2>4. Stored(c, l, m)
      BY <2>2 DEF Stored
    <2> QED BY <2>1, <2>2, <2>3, <2>4
  <1>4. CASE Out(c) = IF o + 1 < s THEN o + 1 ELSE 0
    <2>q. PICK q : q = Out(c)
      OBVIOUS
    <2>1. q = (IF o + 1 < s THEN o + 1 ELSE 0) /\ q \in Nat /\ q < s
      BY <1>1, <1>4, <2>q
    <2>2. n = 1
      <3>x. PICK x : x = q + s - o
        OBVIOUS
      <3>1. n = x % s
        BY <1>s, <1>o, <2>q, <3>x
      <3>2. x = s + 1 \/ x = 1
        BY <1>1, <2>1, <3>x
      <3>3. x \in Nat /\ x < s + s
        BY <1>1, <3>2
      <3>4. x % s = IF x < s THEN x ELSE x - s
        BY <1>1, <3>3, ModRing
      <3> QED BY <1>1, <3>1, <3>2, <3>4
    <2>3. Used(c) = Used(b) - 1
      <3>1. Used(c) = IF q <= p THEN p - q ELSE p + s - q
        BY <1>s, <1>p, <2>q DEF Used
      <3>2. CASE o + 1 < s
        BY <1>1, <1>2, <2>1, <3>1, <3>2
      <3>3. CASE ~(o + 1 < s)
        <4>1. o = s - 1 /\ q = 0
          BY <1>1, <2>1, <3>3
        <4> QED BY <1>1, <1>2, <3>1, <4>1
      <3> QED BY <3>2, <3>3
    <2>4. ASSUME NEW k \in 0..((l - 1) - 1)
          PROVE  c.buf[Slot(c, k)] = (m + 1) + k + 1
      <3>1. k \in Nat /\ k + 1 \in 0..(l - 1) /\ k + 1 < s
        BY <1>1, <1>s
      <3>2. Slot(c, k) = IF q + k < s THEN q + k ELSE q + k - s
        BY <1>s, <2>q DEF Slot
      <3>3. Slot(b, k + 1) = IF o + (k + 1) < s THEN o + (k + 1) ELSE o + (k + 1) - s
        BY <1>s, <1>o DEF Slot
      <3>4. Slot(c, k) = Slot(b, k + 1)
        <4>1. CASE o + 1 < s
          <5>1. q + k = o + (k + 1)
            BY <1>1, <2>1, <3>1, <4>1
          <5>x. PICK x : x = o + (k + 1)
            OBVIOUS
          <5>2. Slot(b, k + 1) = IF x < s THEN x ELSE x - s
            BY <1>1, <3>1, <3>3, <5>x
          <5>3. Slot(c, k) = IF x < s THEN x ELSE x - s
            BY <1>1, <2>1, <3>1, <3>2, <5>1, <5>x
          <5> QED BY <5>2, <5>3
        <4>2. CASE ~(o + 1 < s)
          <5>1. o = s - 1 /\ q = 0
            BY <1>1, <2>1, <4>2
          <5> QED BY <1>1, <3>1, <3>2, <3>3, <5>1
        <4> QED BY <4>1, <4>2
      <3>5. b.buf[Slot(b, k + 1)] = m + (k + 1) + 1
        BY <3>1 DEF Stored
      <3>6. m + (k + 1) + 1 = (m + 1) + k + 1
        BY <3>1
      <3> QED BY <3>4, <3>5, <3>6
    <2>5. Stored(c, l - 1, m + 1)
      BY <2>4 DEF Stored
    <2> QED BY <2>2, <2>3, <2>5
  <1> QED BY <1>3, <1>4, <1>s, <1>o

-----------------------------------------------------------------------------
(***************************************************************************)
(* Steps: the buffer                                                       *)
(***************************************************************************)

LEMMA ContentStored ==
    /\ Content <=> /\ RingOK(ib) /\ ReadRoom(ib, rd_req)
                   /\ rcvd - consumed = Used(ib) + Ahead(rd_req)
                   /\ Stored(ib, rcvd - consumed, consumed)
    /\ Content' <=> /\ RingOK(ib') /\ ReadRoom(ib', rd_req')
                    /\ rcvd' - consumed' = Used(ib') + Ahead(rd_req')
                    /\ Stored(ib', rcvd' - consumed', consumed')
  BY DEF Content, Stored

LEMMA ContentSame ==
    ASSUME Content, UNCHANGED <<ib, rd_req, rcvd, consumed>>
    PROVE  Content'
  BY ContentStored

\* ibuf_trigger_read(): there is room for the read that is posted.
LEMMA TriggerReadRoom ==
    ASSUME NEW b, RingOK(b), NEW r \in ReadReq, ReadRoom(b, r)
    PROVE  /\ TriggerRead(b, r) \in ReadReq /\ ReadRoom(b, TriggerRead(b, r))
           /\ Ahead(TriggerRead(b, r)) = Ahead(r)
  <1>1. CASE FreeSize(b) > 0 /\ r.status = "none"
    <2>t. PICK t : t = [status |-> "pending", pos |-> b.inp, len |-> FreeSize(b)]
      OBVIOUS
    <2>1. TriggerRead(b, r) = t
      BY <1>1, <2>t DEF TriggerRead, PostRead
    <2>2. FreeSize(b) \in Nat /\ b.inp \in Nat
      BY FreeSizeRing, RingNumbers
    <2>3. t \in ReadReq /\ t.status = "pending" /\ t.pos = b.inp /\ t.len = FreeSize(b)
      BY <2>2, <2>t DEF ReadReq
    <2>4. ReadRoom(b, t)
      BY <1>1, <2>3, FreeSizeRing DEF ReadRoom
    <2> QED BY <1>1, <2>1, <2>3, <2>4 DEF Ahead
  <1>2. CASE ~(FreeSize(b) > 0 /\ r.status = "none")
    <2>1. TriggerRead(b, r) = r
      BY <1>2 DEF TriggerRead, PostRead
    <2> QED BY <2>1
  <1> QED BY <1>1, <1>2

LEMMA NoReadType ==
    /\ NoRead \in ReadReq /\ NoRead.status = "none" /\ Ahead(NoRead) = 0
    /\ \A b : ReadRoom(b, NoRead)
  BY DEF NoRead, ReadReq, Ahead, ReadRoom

\* A worker writes behind the unread bytes.
LEMMA WorkerReadContent ==
    ASSUME ChTypeOK, Content, WorkerRead
    PROVE  Content'
  <1>1. PICK n \in 0..rd_req.len :
           /\ ib' = [ib EXCEPT !.buf = [i \in DOMAIN @ |->
                        IF i >= rd_req.pos /\ i < rd_req.pos + n
                          THEN rcvd + i - rd_req.pos + 1 ELSE @[i]]]
           /\ rcvd' = rcvd + n
           /\ rd_req' = [rd_req EXCEPT !.status = "done", !.len = n]
    BY DEF WorkerRead
  <1>2. rd_req.status = "pending" /\ consumed' = consumed
    BY DEF WorkerRead
  <1>s. PICK s : s = ib.size
    OBVIOUS
  <1>o. PICK o : o = Out(ib)
    OBVIOUS
  <1>p. PICK p : p = ib.inp
    OBVIOUS
  <1>u. PICK u : u = Used(ib)
    OBVIOUS
  <1>f. PICK f : f = [i \in 0..(s - 1) |-> IF i >= p /\ i < p + n THEN rcvd + i - p + 1 ELSE ib.buf[i]]
    OBVIOUS
  <1>3. /\ RingOK(ib) /\ ReadRoom(ib, rd_req) /\ rcvd - consumed = u
        /\ Stored(ib, rcvd - consumed, consumed) /\ IsIb(ib)
    <2>1. Used(ib) \in Nat /\ Ahead(rd_req) = 0
      BY <1>2, ContentStored, RingNumbers DEF Ahead
    <2> QED BY <1>u, <2>1, ContentStored DEF RingOK
  <1>4. /\ rd_req \in ReadReq /\ rcvd \in Nat /\ consumed \in Nat /\ rd_req.len \in Nat
        /\ rd_req.pos = p /\ p + rd_req.len <= s /\ u + rd_req.len < s /\ n \in Nat /\ n <= rd_req.len
    BY <1>2, <1>3, <1>s, <1>p, <1>u DEF ChTypeOK, ReadReq, ReadRoom
  <1>5. s \in Nat /\ s > 1 /\ p \in Nat /\ p < s /\ o \in Nat /\ o < s /\ DOMAIN ib.buf = 0..(s - 1)
    BY <1>3, <1>s, <1>o, <1>p, RingNumbers DEF RingOK
  <1>6. u = IF o <= p THEN p - o ELSE p + s - o
    BY <1>s, <1>o, <1>p, <1>u DEF Used
  <1>7. ib' = [ib EXCEPT !.buf = f]
    BY <1>1, <1>3, <1>4, <1>5, <1>f, IbFields DEF IsIb
  <1>8. /\ IsIb(ib') /\ ib'.size = s /\ ib'.buf = f /\ ib'.inp = p /\ ib'.cur = ib.cur /\ ib'.end = ib.end
        /\ ib'.out_data_size = ib.out_data_size
    BY <1>3, <1>7, <1>s, <1>p, IbFields DEF IsIb
  <1>9. RingOK(ib')
    BY <1>3, <1>8, <1>f, <1>s, <1>p DEF RingOK
  <1>10. Out(ib') = o
    BY <1>8, <1>s, <1>o DEF Out
  <1>11. Used(ib') = u
    BY <1>6, <1>8, <1>10 DEF Used
  <1>12. rd_req' \in ReadReq /\ rd_req'.status = "done" /\ rd_req'.pos = p /\ rd_req'.len = n
    BY <1>1, <1>4 DEF ReadReq
  <1>13. ReadRoom(ib', rd_req') /\ rcvd' - consumed' = Used(ib') + Ahead(rd_req') /\ rcvd' - consumed' = u + n
    <2>1. u \in Nat
      BY <1>5, <1>6
    <2>2. ReadRoom(ib', rd_req')
      BY <1>4, <1>5, <1>8, <1>11, <1>12, <2>1 DEF ReadRoom
    <2>3. rcvd' - consumed' = u + n
      BY <1>1, <1>2, <1>3, <1>4, <2>1
    <2>4. Ahead(rd_req') = n
      BY <1>12 DEF Ahead
    <2> QED BY <1>11, <2>2, <2>3, <2>4
  <1>l. PICK l : l = u + n
    OBVIOUS
  <1>14. ASSUME NEW k \in 0..(l - 1)
         PROVE  ib'.buf[Slot(ib', k)] = consumed' + k + 1
    <2>v. PICK v : v = IF o + k < s THEN o + k ELSE o + k - s
      OBVIOUS
    <2>1. Slot(ib', k) = v /\ Slot(ib, k) = v
      BY <1>8, <1>10, <1>s, <1>o, <2>v DEF Slot
    <2>2. k \in Nat /\ k < u + n /\ u \in Nat
      BY <1>4, <1>5, <1>6, <1>l
    <2>3. v \in 0..(s - 1)
      BY <1>4, <1>5, <1>6, <2>2, <2>v
    <2>4. CASE k < u
      <3>1. ~(v >= p /\ v < p + n)
        <4>1. CASE o <= p
          <5>1. v = o + k /\ v < p
            BY <1>5, <1>6, <2>2, <2>4, <2>v, <4>1
          <5> QED BY <1>5, <5>1
        <4>2. CASE ~(o <= p)
          <5>1. p + n < o
            BY <1>4, <1>5, <1>6, <4>2
          <5>2. CASE o + k < s
            BY <1>4, <1>5, <2>2, <2>v, <5>1, <5>2
          <5>3. CASE ~(o + k < s)
            <6>1. v = o + k - s /\ v < p
              BY <1>5, <1>6, <2>2, <2>4, <2>v, <4>2, <5>3
            <6> QED BY <1>5, <2>3, <6>1
          <5> QED BY <5>2, <5>3
        <4> QED BY <4>1, <4>2
      <3>2. ib'.buf[v] = ib.buf[v]
        BY <1>8, <1>f, <2>3, <3>1
      <3>3. k \in 0..((rcvd - consumed) - 1)
        BY <1>3, <2>2, <2>4
      <3>4. ib.buf[v] = consumed + k + 1
        BY <1>3, <2>1, <3>3 DEF Stored
      <3> QED BY <1>2, <2>1, <3>2, <3>4
    <2>5. CASE ~(k < u)
      <3>1. v = p + (k - u) /\ v >= p /\ v < p + n
        BY <1>4, <1>5, <1>6, <2>2, <2>5, <2>v
      <3>2. ib'.buf[v] = rcvd + v - p + 1
        BY <1>8, <1>f, <2>3, <3>1
      <3>3. rcvd + v - p + 1 = consumed + k + 1
        BY <1>3, <1>4, <1>5, <2>2, <3>1
      <3> QED BY <1>2, <2>1, <3>2, <3>3
    <2> QED BY <2>4, <2>5
  <1>15. Stored(ib', rcvd' - consumed', consumed')
    <2>1. Stored(ib', l, consumed')
      BY <1>14, Zenon DEF Stored
    <2> QED BY <1>13, <1>l, <2>1
  <1> QED BY <1>9, <1>13, <1>15, ContentStored

\* tcp_channel_read_done() on the open channel.
LEMMA ReadDoneContent ==
    ASSUME ChTypeOK, Content, NEW next, ReadDone(next), state = "Open"
    PROVE  Content' /\ IsIb(ib') /\ ib'.size \in Nat /\ rd_req' \in ReadReq
  <1>b. PICK b : b = ReadInto(ib, input, rd_req.len)
    OBVIOUS
  <1>1. /\ rd_req.status = "done" /\ ib' = b
        /\ rd_req' = (IF rd_req.len = 0 THEN NoRead ELSE TriggerRead(b, NoRead))
        /\ UNCHANGED <<rcvd, consumed>>
    BY <1>b DEF ReadDone
  <1>l. PICK l : l = rd_req.len
    OBVIOUS
  <1>2. rd_req \in ReadReq /\ l \in Nat /\ rcvd \in Nat /\ consumed \in Nat
    BY <1>l DEF ChTypeOK, ReadReq
  <1>3. /\ RingOK(ib) /\ ib.inp + l <= ib.size /\ Used(ib) + l < ib.size
        /\ rcvd - consumed = Used(ib) + l /\ Stored(ib, Used(ib) + l, consumed)
    BY <1>1, <1>l, ContentStored DEF ReadRoom, Ahead
  <1>4. RingOK(b) /\ Used(b) = Used(ib) + l /\ Stored(b, Used(b), consumed)
    BY <1>2, <1>3, <1>b, <1>l, ReadIntoRing
  <1>5. rd_req' \in ReadReq /\ ReadRoom(b, rd_req') /\ Ahead(rd_req') = 0
    BY <1>1, <1>4, NoReadType, TriggerReadRoom
  <1>6. Used(b) + 0 = Used(b)
    BY <1>4, RingNumbers
  <1>7. Content'
    BY <1>1, <1>3, <1>4, <1>5, <1>6, ContentStored
  <1> QED BY <1>1, <1>4, <1>5, <1>7 DEF RingOK

\* A handler reads a character.
LEMMA HandlerReadContent ==
    ASSUME ChTypeOK, Content, NEW peeking \in BOOLEAN, HandlerRead(peeking)
    PROVE  /\ Content' /\ IsIb(ib') /\ ib'.size \in Nat /\ rd_req' \in ReadReq /\ consumed' \in Nat
           /\ pc' \in {"loop", "handler"}
           /\ UNCHANGED <<input, rcvd, state, lock_cnt, users, outvars>>
  <1>r. PICK r : r = Read(ib, input, peeking)
    OBVIOUS
  <1>b. PICK b : b = r[2]
    OBVIOUS
  <1>n. PICK n : n = (Out(b) + b.size - Out(ib)) % b.size
    OBVIOUS
  <1>1. /\ ~NoData(ib) /\ ib' = b /\ consumed' = consumed + n
        /\ rd_req' = rd_req \/ rd_req' = TriggerRead(b, rd_req)
        /\ pc' \in {"loop", "handler"}
        /\ UNCHANGED <<input, rcvd, state, lock_cnt, users, outvars>>
    BY <1>r, <1>b, <1>n DEF HandlerRead
  <1>2. /\ RingOK(ib) /\ ReadRoom(ib, rd_req) /\ rcvd - consumed = Used(ib) + Ahead(rd_req)
        /\ Stored(ib, rcvd - consumed, consumed)
    BY ContentStored
  <1>3. /\ RingOK(b) /\ b.size = ib.size /\ b.buf = ib.buf /\ b.inp = ib.inp /\ Out(ib) # ib.inp
        /\ \/ Out(b) = Out(ib)
           \/ Out(b) = IF Out(ib) + 1 < ib.size THEN Out(ib) + 1 ELSE 0
    BY <1>1, <1>2, <1>r, <1>b, ReadRing
  <1>l. PICK l : l = rcvd - consumed
    OBVIOUS
  <1>4. /\ rcvd \in Nat /\ consumed \in Nat /\ rd_req \in ReadReq /\ rd_req.len \in Nat
        /\ l \in Int /\ Ahead(rd_req) \in Nat
    BY <1>l DEF ChTypeOK, ReadReq, Ahead
  <1>5. Used(ib) \in Nat /\ Used(ib) < ib.size /\ l = Used(ib) + Ahead(rd_req) /\ l < ib.size /\ ib.size \in Nat
    <2>1. Used(ib) \in Nat /\ Used(ib) < ib.size /\ ib.size \in Nat
      BY <1>2, RingNumbers
    <2> QED BY <1>2, <1>4, <1>l, <2>1 DEF ReadRoom, Ahead
  <1>6. n \in {0, 1} /\ Used(b) = Used(ib) - n /\ Stored(b, l - n, consumed + n)
    BY <1>2, <1>3, <1>4, <1>5, <1>n, <1>l, ConsumedRing
  <1>7. /\ Used(b) \in Nat
        /\ rcvd' - consumed' = l - n /\ l - n = Used(b) + Ahead(rd_req) /\ consumed' \in Nat
    BY <1>1, <1>3, <1>4, <1>5, <1>6, <1>l, RingNumbers
  <1>8. ReadRoom(b, rd_req)
    BY <1>2, <1>3, <1>4, <1>5, <1>6, <1>7 DEF ReadRoom
  <1>9. rd_req' \in ReadReq /\ ReadRoom(b, rd_req') /\ Ahead(rd_req') = Ahead(rd_req)
    BY <1>1, <1>3, <1>4, <1>8, TriggerReadRoom
  <1>10. Content'
    BY <1>1, <1>3, <1>6, <1>7, <1>9, ContentStored
  <1> QED BY <1>1, <1>3, <1>7, <1>9, <1>10 DEF RingOK

\* A handler runs out of data.
LEMMA HandlerStarvedContent ==
    ASSUME ChTypeOK, Content, HandlerStarved
    PROVE  /\ Content' /\ IsIb(ib') /\ ib'.size \in Nat /\ rd_req' \in ReadReq
           /\ pc' \in {"loop", "wait"}
           /\ UNCHANGED <<input, rcvd, consumed, state, lock_cnt, users, outvars>>
  <1>b. PICK b : b = [ib EXCEPT !.cur = Out(ib), !.end = Out(ib)]
    OBVIOUS
  <1>1. /\ ib' = b /\ (rd_req' = rd_req \/ rd_req' = TriggerRead(b, rd_req))
        /\ pc' \in {"loop", "wait"}
        /\ UNCHANGED <<input, rcvd, consumed, state, lock_cnt, users, outvars>>
    BY <1>b DEF HandlerStarved
  <1>2. /\ RingOK(ib) /\ ReadRoom(ib, rd_req) /\ rcvd - consumed = Used(ib) + Ahead(rd_req)
        /\ Stored(ib, rcvd - consumed, consumed) /\ rd_req \in ReadReq /\ IsIb(ib)
    BY ContentStored DEF ChTypeOK
  <1>3. /\ IsIb(b) /\ b.size = ib.size /\ b.buf = ib.buf /\ b.inp = ib.inp
        /\ b.cur = Out(ib) /\ b.end = Out(ib) /\ b.out_data_size = ib.out_data_size
    BY <1>2, <1>b, IbFields DEF IsIb
  <1>4. Out(ib) \in Nat /\ Out(ib) < ib.size /\ ib.size \in Nat
    BY <1>2, RingNumbers
  <1>5. Out(b) = Out(ib)
    BY <1>3, <1>4 DEF Out
  <1>6. RingOK(b)
    BY <1>2, <1>3, <1>4 DEF RingOK
  <1>7. Used(b) = Used(ib) /\ Stored(b, rcvd - consumed, consumed)
    BY <1>2, <1>3, <1>5 DEF Used, Stored, Slot
  <1>8. ReadRoom(b, rd_req)
    BY <1>2, <1>3, <1>7 DEF ReadRoom
  <1>9. rd_req' \in ReadReq /\ ReadRoom(b, rd_req') /\ Ahead(rd_req') = Ahead(rd_req)
    BY <1>1, <1>2, <1>6, <1>8, TriggerReadRoom
  <1>10. Content'
    BY <1>1, <1>2, <1>6, <1>7, <1>9, ContentStored
  <1> QED BY <1>1, <1>4, <1>3, <1>9, <1>10

-----------------------------------------------------------------------------
(***************************************************************************)
(* Steps: the locks                                                        *)
(***************************************************************************)

\* The references to the channel, without the one of the connection.
Held == users + (IF out_flush_cnt > 0 THEN 1 ELSE 0) + (IF out_queue > 0 THEN 1 ELSE 0)

Balance(l, h, st, r, p, hm) ==
    /\ l - h \in {0, 1}
    /\ st = "Open" => l = h + 1
    /\ p # "deleted" /\ r # "none" => l = h + 1
    /\ p = "deleted" => h = 0 /\ r = "none" /\ hm # "Triggered"

LEMMA BalanceForm ==
    /\ LocksBalance <=> Balance(lock_cnt, Held, state, rd_req.status, pc, ib.handling_msg)
    /\ LocksBalance' <=> Balance(lock_cnt', Held', state', rd_req'.status, pc', ib'.handling_msg)
  BY DEF LocksBalance, Balance, Held

\* tcp_unlock(): with the last reference, of the services, the events or the connection, the
\* channel goes.
LEMMA UnlockedBalance ==
    ASSUME NEW n \in Int, NEW h \in Nat, NEW next, Unlocked(n, next), next # "deleted",
           NEW r, n - h \in {0, 1}, NEW st, st = "Open" => n = h + 1, r # "none" => n = h + 1,
           NEW hm, st # "Open" => hm # "Triggered"
    PROVE  lock_cnt' = n /\ n \in Nat /\ Balance(n, h, st, r, pc', hm) /\ pc' \in {next, "deleted"}
           /\ (pc' = "deleted" => st # "Open")
  BY DEF Unlocked, Balance

\* The first message or buffer that is queued takes the reference.
LEMMA QueueBalance ==
    ASSUME ChTypeOK
    PROVE  /\ FlushPosted \in Nat /\ FlushPosted > 0 /\ FlushLock \in Nat
           /\ 1 = (IF out_flush_cnt > 0 THEN 1 ELSE 0) + FlushLock
           /\ Queued \in Nat /\ QueueLock \in Nat
           /\ (IF Queued > 0 THEN 1 ELSE 0) = (IF out_queue > 0 THEN 1 ELSE 0) + QueueLock
  BY ChannelAssumption DEF ChTypeOK, FlushPosted, FlushLock, Queued, QueueLock

LEMMA HeldType ==
    /\ ChTypeOK => Held \in Nat
    /\ ChTypeOK' => Held' \in Nat
  BY DEF ChTypeOK, Held

-----------------------------------------------------------------------------
(***************************************************************************)
(* Every step keeps the invariant                                          *)
(***************************************************************************)

LEMMA ChInitInv == ASSUME ChInit PROVE ChInv
  <1>1. /\ IsIb(NewBuf) /\ NewBuf.size = BufSize /\ NewBuf.inp = 0 /\ NewBuf.cur = 0 /\ NewBuf.end = 0
        /\ NewBuf.out_data_size = 0 /\ NewBuf.handling_msg = "Idle"
        /\ NewBuf.buf = [i \in 0..(BufSize - 1) |-> 0]
    BY DEF NewBuf, IsIb
  <1>2. BufSize \in Nat /\ BufSize > 1
    BY InputBufAssumption
  <1>b. PICK b : b = NewBuf
    OBVIOUS
  <1>3. RingOK(b)
    <2>1. DOMAIN b.buf = 0..(b.size - 1)
      BY <1>1, <1>b
    <2>2. /\ b.inp \in 0..(b.size - 1) /\ b.cur \in 0..b.size /\ b.end \in 0..b.size /\ b.cur <= b.end
          /\ ~(b.cur < b.end)
      BY <1>1, <1>2, <1>b
    <2> QED BY <1>1, <1>2, <1>b, <2>1, <2>2 DEF RingOK
  <1>4. Out(b) = 0 /\ Used(b) = 0
    <2>1. Out(b) = 0
      BY <1>1, <1>2, <1>b DEF Out
    <2> QED BY <1>1, <1>b, <2>1 DEF Used
  <1>5. /\ rd_req = TriggerRead(b, NoRead) /\ ib = b /\ rcvd = 0 /\ consumed = 0 /\ state = "Open"
        /\ lock_cnt = 1 /\ users = 0 /\ pc = "loop" /\ obuf = FALSE /\ out_flush_cnt = 0
        /\ out_queue = 0 /\ out_errno = FALSE
    BY <1>b DEF ChInit
  <1>6. rd_req \in ReadReq /\ ReadRoom(b, rd_req) /\ Ahead(rd_req) = 0
    BY <1>3, <1>5, NoReadType, TriggerReadRoom
  <1>7. Content
    <2>1. rcvd - consumed = 0 /\ rcvd - consumed = Used(ib) + Ahead(rd_req)
      BY <1>4, <1>5, <1>6
    <2>2. Stored(ib, rcvd - consumed, consumed)
      <3>1. \A k : k \notin 0..(0 - 1)
        OBVIOUS
      <3> QED BY <2>1, <3>1 DEF Stored
    <2> QED BY <1>3, <1>5, <1>6, <2>1, <2>2, ContentStored
  <1>8. ChTypeOK
    BY <1>1, <1>2, <1>5, <1>6, <1>b DEF ChTypeOK
  <1>9. LocksBalance /\ Closing
    BY <1>5 DEF LocksBalance, Closing
  <1> QED BY <1>7, <1>8, <1>9 DEF ChInv

LEMMA WorkerReadInv == ASSUME ChInv, WorkerRead PROVE ChInv'
  <1>1. /\ rd_req.status = "pending"
        /\ UNCHANGED <<input, state, lock_cnt, users, pc, consumed, outvars>>
    BY DEF WorkerRead
  <1>2. PICK n \in 0..rd_req.len :
           /\ ib' = [ib EXCEPT !.buf = [i \in DOMAIN @ |->
                        IF i >= rd_req.pos /\ i < rd_req.pos + n
                          THEN rcvd + i - rd_req.pos + 1 ELSE @[i]]]
           /\ rcvd' = rcvd + n
           /\ rd_req' = [rd_req EXCEPT !.status = "done", !.len = n]
    BY DEF WorkerRead
  <1>3. IsIb(ib') /\ ib'.size = ib.size /\ ib'.handling_msg = ib.handling_msg
    <2>f. PICK f : f = [i \in DOMAIN ib.buf |-> IF i >= rd_req.pos /\ i < rd_req.pos + n
                          THEN rcvd + i - rd_req.pos + 1 ELSE ib.buf[i]]
      OBVIOUS
    <2>1. IsIb(ib)
      BY DEF ChInv, ChTypeOK
    <2>2. ib' = [ib EXCEPT !.buf = f]
      BY <1>2, <2>1, <2>f, IbFields DEF IsIb
    <2> QED BY <2>1, <2>2, IbFields DEF IsIb
  <1>4. rd_req \in ReadReq /\ n \in Nat
    BY DEF ChInv, ChTypeOK, ReadReq
  <1>5. rd_req' \in ReadReq /\ rd_req'.status = "done"
    BY <1>2, <1>4 DEF ReadReq
  <1>6. ChTypeOK'
    BY <1>1, <1>2, <1>3, <1>4, <1>5 DEF ChInv, ChTypeOK, outvars
  <1>7. Closing' /\ LocksBalance'
    BY <1>1, <1>3, <1>5 DEF ChInv, Closing, LocksBalance, outvars
  <1>8. state' = "Open" => Content'
    BY <1>1, WorkerReadContent DEF ChInv
  <1> QED BY <1>6, <1>7, <1>8 DEF ChInv

LEMMA ReadDoneInv ==
    ASSUME ChInv, NEW next, ReadDone(next), \/ pc = "loop" /\ next = "loop"
                                            \/ pc = "wait" /\ next = "handler"
    PROVE  ChInv'
  <1>1. rd_req.status = "done" /\ UNCHANGED <<input, rcvd, state, users, consumed, outvars>>
    BY DEF ReadDone
  <1>2. CASE state = "Open"
    <2>1. Content' /\ IsIb(ib') /\ ib'.size \in Nat /\ rd_req' \in ReadReq
      BY <1>2, ReadDoneContent DEF ChInv
    <2>2. lock_cnt' = lock_cnt /\ pc' = next
      BY <1>2 DEF ReadDone
    <2>3. ChTypeOK' /\ Closing'
      BY <1>1, <1>2, <2>1, <2>2 DEF ChInv, ChTypeOK, Closing, outvars
    <2>4. LocksBalance'
      BY <1>1, <1>2, <2>2 DEF ChInv, LocksBalance, outvars
    <2> QED BY <2>1, <2>3, <2>4 DEF ChInv
  <1>3. CASE state # "Open" /\ rd_req.len > 0
    <2>1. rd_req' = PostRead(NoRead, 0, ib.size) /\ UNCHANGED <<ib, lock_cnt>> /\ pc' = next
      BY <1>3 DEF ReadDone
    <2>2. rd_req' = [status |-> "pending", pos |-> 0, len |-> ib.size]
      BY <2>1 DEF PostRead, NoRead
    <2>3. rd_req' \in ReadReq /\ rd_req'.status = "pending"
      BY <2>2 DEF ChInv, ChTypeOK, ReadReq
    <2>4. ChTypeOK' /\ Closing' /\ LocksBalance'
      BY <1>1, <1>3, <2>1, <2>3 DEF ChInv, ChTypeOK, Closing, LocksBalance, outvars
    <2> QED BY <1>1, <1>3, <2>4 DEF ChInv
  <1>4. CASE state # "Open" /\ ~(rd_req.len > 0)
    <2>1. rd_req' = NoRead /\ Unlocked(lock_cnt - 1, next) /\ UNCHANGED ib
      BY <1>4 DEF ReadDone
    <2>2. Held' = Held /\ Held \in Nat /\ lock_cnt \in Nat
      BY <1>1, HeldType DEF ChInv, ChTypeOK, Held, outvars
    <2>3. lock_cnt = Held + 1 /\ pc = "loop" /\ next = "loop"
      BY <1>1, <1>4 DEF ChInv, LocksBalance, Held, Closing
    <2>4. lock_cnt - 1 \in Int /\ (lock_cnt - 1) - Held = 0
      BY <2>2, <2>3
    <2>5. ib.handling_msg # "Triggered"
      BY <1>4 DEF ChInv, ChTypeOK, Closing
    <2>6. /\ lock_cnt' \in Nat /\ pc' \in {"loop", "deleted"}
          /\ Balance(lock_cnt', Held, state, "none", pc', ib.handling_msg)
      BY <1>4, <2>1, <2>2, <2>3, <2>4, <2>5, UnlockedBalance
    <2>7. LocksBalance'
      BY <1>1, <2>1, <2>2, <2>6, BalanceForm, NoReadType
    <2>8. ChTypeOK' /\ Closing'
      BY <1>1, <2>1, <2>6, NoReadType DEF ChInv, ChTypeOK, Closing, outvars
    <2> QED BY <1>1, <1>4, <2>7, <2>8 DEF ChInv
  <1> QED BY <1>2, <1>3, <1>4

\* Steps that leave the input side alone.
LEMMA OutputInv ==
    ASSUME ChInv, UNCHANGED <<invars, state>>, NEW l \in Int, NEW h \in Nat, pc = "loop",
           Held' = h, Unlocked(l, "loop"),
           l - h = lock_cnt - Held,
           obuf' \in BOOLEAN, out_errno' \in BOOLEAN, out_flush_cnt' \in Nat, out_queue' \in Nat,
           users' \in Nat
    PROVE  ChInv'
  <1>1. lock_cnt \in Nat /\ Held \in Nat /\ UNCHANGED <<ib, rd_req, rcvd, consumed, state>>
    BY HeldType DEF ChInv, ChTypeOK, invars
  <1>2. /\ lock_cnt - Held \in {0, 1} /\ (state = "Open" => lock_cnt = Held + 1)
        /\ (rd_req.status # "none" => lock_cnt = Held + 1)
    BY DEF ChInv, LocksBalance, Held
  <1>3. l - h \in {0, 1} /\ (state = "Open" => l = h + 1) /\ (rd_req.status # "none" => l = h + 1)
    BY <1>1, <1>2
  <1>4. state # "Open" => ib.handling_msg # "Triggered"
    BY DEF ChInv, ChTypeOK, Closing
  <1>5. /\ lock_cnt' = l /\ l \in Nat /\ pc' \in {"loop", "deleted"}
        /\ Balance(l, h, state, rd_req.status, pc', ib.handling_msg)
    BY <1>3, <1>4, UnlockedBalance
  <1>6. LocksBalance'
    BY <1>1, <1>5, BalanceForm
  <1>7. ChTypeOK' /\ Closing'
    BY <1>1, <1>5 DEF ChInv, ChTypeOK, Closing
  <1>8. state' = "Open" => Content'
    BY <1>1, ContentSame DEF ChInv
  <1> QED BY <1>6, <1>7, <1>8 DEF ChInv

\* A step that only takes locks leaves the channel alone.
LEMMA Relocked ==
    ASSUME ChInv, NEW l \in Int, NEW h \in Nat, h > 0, l - h = lock_cnt - Held,
           lock_cnt' = l, pc' = "loop"
    PROVE  Unlocked(l, "loop")
  <1>1. lock_cnt \in Nat /\ Held \in Nat /\ lock_cnt - Held \in {0, 1}
    BY HeldType DEF ChInv, ChTypeOK, LocksBalance, Held
  <1>2. l # 0
    BY <1>1
  <1> QED BY <1>2 DEF Unlocked

LEMMA WriteMessageInv == ASSUME ChInv, WriteMessage PROVE ChInv'
  <1>q. PICK q : q = (IF state = "Open" THEN QueueLock ELSE 0)
    OBVIOUS
  <1>1. /\ pc = "loop" /\ pc' = "loop" /\ out_flush_cnt' = FlushPosted /\ obuf' = TRUE
        /\ UNCHANGED <<invars, state, users, out_errno>>
    BY DEF WriteMessage
  <1>2. \/ lock_cnt' = lock_cnt + FlushLock /\ out_queue' = out_queue
        \/ lock_cnt' = lock_cnt + FlushLock + q /\ out_queue' = IF state = "Open" THEN Queued ELSE out_queue
    BY <1>q DEF WriteMessage
  <1>3. ChTypeOK
    BY DEF ChInv
  <1>4. /\ FlushPosted \in Nat /\ FlushPosted > 0 /\ FlushLock \in Nat
        /\ 1 = (IF out_flush_cnt > 0 THEN 1 ELSE 0) + FlushLock
        /\ Queued \in Nat /\ QueueLock \in Nat
        /\ (IF Queued > 0 THEN 1 ELSE 0) = (IF out_queue > 0 THEN 1 ELSE 0) + QueueLock
    BY <1>3, QueueBalance
  <1>5. /\ users \in Nat /\ lock_cnt \in Nat /\ out_queue \in Nat /\ out_flush_cnt \in Nat
        /\ out_errno \in BOOLEAN /\ Held \in Nat
    BY <1>3, HeldType DEF ChTypeOK
  <1>6. Held' = users + 1 + (IF out_queue' > 0 THEN 1 ELSE 0)
    BY <1>1, <1>4 DEF Held
  <1>l. PICK l : l = lock_cnt'
    OBVIOUS
  <1>h. PICK h : h = Held'
    OBVIOUS
  <1>7. CASE out_queue' = out_queue /\ lock_cnt' = lock_cnt + FlushLock
    <2>1. h = Held + FlushLock
      BY <1>4, <1>5, <1>6, <1>7, <1>h DEF Held
    <2>2. l \in Int /\ h \in Nat /\ h > 0 /\ l - h = lock_cnt - Held
      BY <1>4, <1>5, <1>6, <1>7, <1>l, <1>h, <2>1
    <2>3. Unlocked(l, "loop")
      BY <1>1, <1>l, <2>2, Relocked
    <2> QED BY <1>1, <1>4, <1>5, <1>7, <1>h, <2>2, <2>3, OutputInv
  <1>8. CASE state = "Open" /\ out_queue' = Queued /\ lock_cnt' = lock_cnt + FlushLock + QueueLock
    <2>1. h = Held + FlushLock + QueueLock
      BY <1>4, <1>5, <1>6, <1>8, <1>h DEF Held
    <2>2. l \in Int /\ h \in Nat /\ h > 0 /\ l - h = lock_cnt - Held
      BY <1>4, <1>5, <1>6, <1>8, <1>l, <1>h, <2>1
    <2>3. Unlocked(l, "loop")
      BY <1>1, <1>l, <2>2, Relocked
    <2> QED BY <1>1, <1>4, <1>5, <1>8, <1>h, <2>2, <2>3, OutputInv
  <1> QED BY <1>2, <1>4, <1>5, <1>7, <1>8, <1>q

LEMMA FlushEventInv == ASSUME ChInv, FlushEvent PROVE ChInv'
  <1> DEFINE flush == obuf /\ (out_flush_cnt = 1 \/ out_eom_cnt > 3)
  <1>q. PICK q : q = (IF flush /\ state = "Open" THEN QueueLock ELSE 0)
    OBVIOUS
  <1>d. PICK d : d = (IF out_flush_cnt = 1 THEN 1 ELSE 0)
    OBVIOUS
  <1>1. /\ pc = "loop" /\ out_flush_cnt > 0 /\ out_flush_cnt' = out_flush_cnt - 1
        /\ obuf' = (obuf /\ ~flush) /\ UNCHANGED <<invars, state, users, out_errno>>
        /\ out_queue' = (IF flush /\ state = "Open" THEN Queued ELSE out_queue)
        /\ Unlocked((lock_cnt + q) - d, "loop")
    <2>1. /\ pc = "loop" /\ out_flush_cnt > 0 /\ out_flush_cnt' = out_flush_cnt - 1
          /\ UNCHANGED <<invars, state, users, out_errno>>
      BY DEF FlushEvent
    <2>2. obuf' = (obuf /\ ~flush)
      BY Zenon DEF FlushEvent
    <2>3. out_queue' = (IF flush /\ state = "Open" THEN Queued ELSE out_queue)
      BY Zenon DEF FlushEvent
    <2>4. Unlocked((lock_cnt + q) - d, "loop")
      <3>1. Unlocked((lock_cnt + (IF flush /\ state = "Open" THEN QueueLock ELSE 0))
                       - (IF out_flush_cnt = 1 THEN 1 ELSE 0), "loop")
        BY DEF FlushEvent
      <3> QED BY <1>q, <1>d, <3>1
    <2> QED BY <2>1, <2>2, <2>3, <2>4
  <1>b. obuf' \in BOOLEAN
    BY <1>1
  <1> HIDE DEF flush
  <1>3. ChTypeOK
    BY DEF ChInv
  <1>4. /\ Queued \in Nat /\ QueueLock \in Nat
        /\ (IF Queued > 0 THEN 1 ELSE 0) = (IF out_queue > 0 THEN 1 ELSE 0) + QueueLock
    BY <1>3, QueueBalance
  <1>5. /\ users \in Nat /\ lock_cnt \in Nat /\ out_queue \in Nat /\ out_flush_cnt \in Nat
        /\ out_errno \in BOOLEAN /\ Held \in Nat
    BY <1>3, HeldType DEF ChTypeOK
  <1>6. /\ out_queue' \in Nat /\ q \in Nat
        /\ (IF out_queue' > 0 THEN 1 ELSE 0) = (IF out_queue > 0 THEN 1 ELSE 0) + q
    BY <1>1, <1>4, <1>5, <1>q
  <1>7. /\ out_flush_cnt' \in Nat /\ d \in Nat
        /\ (IF out_flush_cnt' > 0 THEN 1 ELSE 0) = (IF out_flush_cnt > 0 THEN 1 ELSE 0) - d
    BY <1>1, <1>5, <1>d
  <1>h. PICK h : h = Held'
    OBVIOUS
  <1>l. PICK l : l = (lock_cnt + q) - d
    OBVIOUS
  <1>8. h = Held + q - d
    BY <1>1, <1>5, <1>6, <1>7, <1>h DEF Held
  <1>9. h \in Nat
    BY <1>1, <1>5, <1>6, <1>7, <1>h DEF Held
  <1>10. l \in Int /\ l - h = lock_cnt - Held
    BY <1>5, <1>6, <1>7, <1>8, <1>l
  <1>11. out_errno' \in BOOLEAN /\ users' \in Nat
    BY <1>1, <1>5
  <1> QED BY <1>1, <1>6, <1>7, <1>9, <1>10, <1>11, <1>b, <1>h, <1>l, OutputInv

LEMMA WriteDoneInv ==
    ASSUME ChInv, pc = "loop", out_queue > 0, NEW left \in Nat, NEW error \in BOOLEAN,
           WriteDone(left, error)
    PROVE  ChInv'
  <1>q. PICK q : q = IF left > 0 THEN 1 ELSE 0
    OBVIOUS
  <1>1. /\ out_queue' = left /\ out_errno' = (out_errno \/ error) /\ Unlocked(lock_cnt + q - 1, "loop")
        /\ UNCHANGED <<invars, state, users, obuf, out_flush_cnt>>
    BY <1>q DEF WriteDone
  <1>2. out_errno' \in BOOLEAN
    BY <1>1
  <1>3. /\ users \in Nat /\ lock_cnt \in Nat /\ out_queue \in Nat /\ out_flush_cnt \in Nat
        /\ obuf \in BOOLEAN /\ Held \in Nat
    BY HeldType DEF ChInv, ChTypeOK
  <1>h. PICK h : h = Held'
    OBVIOUS
  <1>l. PICK l : l = lock_cnt + q - 1
    OBVIOUS
  <1>4. h = Held + q - 1 /\ h \in Nat
    BY <1>1, <1>3, <1>h, <1>q DEF Held
  <1>5. l \in Int /\ l - h = lock_cnt - Held
    BY <1>3, <1>4, <1>l, <1>q
  <1>6. out_queue' \in Nat /\ users' \in Nat /\ out_flush_cnt' \in Nat /\ obuf' \in BOOLEAN
    BY <1>1, <1>3
  <1> QED BY <1>1, <1>2, <1>4, <1>5, <1>6, <1>h, <1>l, OutputInv

LEMMA LockInv == ASSUME ChInv, Lock PROVE ChInv'
  <1>1. /\ pc = "loop" /\ pc' = "loop" /\ users' = users + 1 /\ lock_cnt' = lock_cnt + 1
        /\ UNCHANGED <<invars, state, obuf, out_errno, out_flush_cnt, out_queue>>
    BY DEF Lock, outvars
  <1>3. /\ users \in Nat /\ lock_cnt \in Nat /\ out_queue \in Nat /\ out_flush_cnt \in Nat
        /\ obuf \in BOOLEAN /\ out_errno \in BOOLEAN /\ Held \in Nat
    BY HeldType DEF ChInv, ChTypeOK
  <1>h. PICK h : h = Held'
    OBVIOUS
  <1>l. PICK l : l = lock_cnt + 1
    OBVIOUS
  <1>4. h = Held + 1 /\ h \in Nat /\ h > 0
    BY <1>1, <1>3, <1>h DEF Held
  <1>5. l \in Int /\ l - h = lock_cnt - Held
    BY <1>3, <1>4, <1>l
  <1>6. Unlocked(l, "loop")
    BY <1>1, <1>4, <1>5, <1>l, Relocked
  <1>7. users' \in Nat
    BY <1>1, <1>3
  <1> QED BY <1>1, <1>3, <1>4, <1>5, <1>6, <1>7, <1>h, OutputInv

LEMMA UnlockInv == ASSUME ChInv, Unlock PROVE ChInv'
  <1>1. /\ pc = "loop" /\ users > 0 /\ users' = users - 1 /\ Unlocked(lock_cnt - 1, "loop")
        /\ UNCHANGED <<invars, state, obuf, out_errno, out_flush_cnt, out_queue>>
    BY DEF Unlock, outvars
  <1>3. /\ users \in Nat /\ lock_cnt \in Nat /\ out_queue \in Nat /\ out_flush_cnt \in Nat
        /\ obuf \in BOOLEAN /\ out_errno \in BOOLEAN /\ Held \in Nat
    BY HeldType DEF ChInv, ChTypeOK
  <1>h. PICK h : h = Held'
    OBVIOUS
  <1>l. PICK l : l = lock_cnt - 1
    OBVIOUS
  <1>4. h = Held - 1 /\ h \in Nat
    BY <1>1, <1>3, <1>h DEF Held
  <1>5. l \in Int /\ l - h = lock_cnt - Held
    BY <1>3, <1>4, <1>l
  <1>7. users' \in Nat
    BY <1>1, <1>3
  <1> QED BY <1>1, <1>3, <1>4, <1>5, <1>7, <1>h, <1>l, OutputInv

\* send_eof_and_close(): the events and the read that are posted hold their references, and
\* no message event is left.
LEMMA SendEofAndCloseInv ==
    ASSUME ChInv, state = "Open", NEW b, IsIb(b), b.size \in Nat, SendEofAndClose(b), pc' = "loop"
    PROVE  ChInv'
  <1>1. /\ ib' = Quiet(Flush(b)) /\ out_flush_cnt' = FlushPosted /\ obuf' = FALSE
        /\ out_queue' = Queued /\ lock_cnt' = lock_cnt + FlushLock + QueueLock
        /\ state' = "Disconnected" /\ rd_req' = PostRead(rd_req, 0, b.size)
        /\ UNCHANGED <<rcvd, consumed, users, out_errno>>
    BY DEF SendEofAndClose
  <1>2. IsIb(ib') /\ ib'.size \in Nat /\ ib'.handling_msg # "Triggered"
    <2>c. PICK c : c = Flush(b)
      OBVIOUS
    <2>1. IsIb(c) /\ c.size = b.size /\ c.handling_msg = b.handling_msg
      BY <2>c, IbFields DEF Flush, IsIb
    <2>2. ib' = IF c.handling_msg = "Triggered" THEN [c EXCEPT !.handling_msg = "Idle"] ELSE c
      BY <1>1, <2>c DEF Quiet
    <2> QED BY <2>1, <2>2, IbFields DEF IsIb
  <1>3. ChTypeOK
    BY DEF ChInv
  <1>4. /\ FlushPosted \in Nat /\ FlushPosted > 0 /\ FlushLock \in Nat
        /\ 1 = (IF out_flush_cnt > 0 THEN 1 ELSE 0) + FlushLock
        /\ Queued \in Nat /\ QueueLock \in Nat
        /\ (IF Queued > 0 THEN 1 ELSE 0) = (IF out_queue > 0 THEN 1 ELSE 0) + QueueLock
    BY <1>3, QueueBalance
  <1>5. users \in Nat /\ lock_cnt \in Nat /\ out_errno \in BOOLEAN /\ Held \in Nat /\ rd_req \in ReadReq
    BY <1>3, HeldType DEF ChTypeOK
  <1>6. rd_req' \in ReadReq
    BY <1>1, <1>5 DEF PostRead, ReadReq
  <1>7. ChTypeOK' /\ Closing'
    <2>1. lock_cnt' \in Nat
      BY <1>1, <1>4, <1>5
    <2>2. Closing'
      BY <1>1, <1>2 DEF Closing
    <2>3. obuf' \in BOOLEAN /\ out_errno' \in BOOLEAN
      BY <1>1, <1>5
    <2> QED BY <1>1, <1>2, <1>3, <1>4, <1>6, <2>1, <2>2, <2>3 DEF ChTypeOK
  <1>8. Held' = Held + FlushLock + QueueLock
    <2>1. Held' = users + 1 + (IF Queued > 0 THEN 1 ELSE 0)
      BY <1>1, <1>4 DEF Held
    <2> QED BY <1>3, <1>4, <1>5, <2>1 DEF Held, ChTypeOK
  <1>9. lock_cnt = Held + 1
    BY DEF ChInv, LocksBalance, Held
  <1>10. lock_cnt' = Held' + 1
    BY <1>1, <1>4, <1>5, <1>8, <1>9
  <1>11. LocksBalance'
    <2>1. Held' \in Nat
      BY <1>7, HeldType
    <2>2. lock_cnt' - Held' = 1
      <3>h. PICK h : h = Held'
        OBVIOUS
      <3>l. PICK l : l = lock_cnt'
        OBVIOUS
      <3>1. h \in Nat /\ l = h + 1
        BY <1>10, <2>1, <3>h, <3>l
      <3>2. l - h = 1
        BY <3>1
      <3> QED BY <3>2, <3>h, <3>l
    <2>3. Balance(lock_cnt', Held', state', rd_req'.status, pc', ib'.handling_msg)
      BY <1>10, <2>2 DEF Balance
    <2> QED BY <2>3, BalanceForm
  <1> QED BY <1>1, <1>7, <1>11 DEF ChInv

LEMMA CloseInv == ASSUME ChInv, Close \/ HandlerRaises PROVE ChInv'
  <1>1. IsIb(ib) /\ ib.size \in Nat
    BY DEF ChInv, ChTypeOK
  <1>2. state = "Open" /\ SendEofAndClose(ib) /\ pc' = "loop"
    BY DEF ChInv, Closing, Close, HandlerRaises
  <1> QED BY <1>1, <1>2, SendEofAndCloseInv

LEMMA HandleMessageInv == ASSUME ChInv, HandleMessage PROVE ChInv'
  <1>1. IsIb(ib) /\ ib.size \in Nat /\ pc = "loop" /\ ib.handling_msg = "Triggered" /\ state = "Open"
    BY DEF ChInv, ChTypeOK, Closing, HandleMessage
  <1>2. CASE ib.eof
    <2>b. PICK b : b = [ib EXCEPT !.handling_msg = "Idle"]
      OBVIOUS
    <2>1. SendEofAndClose(b) /\ pc' = "loop"
      BY <1>1, <1>2, <2>b DEF HandleMessage
    <2>2. IsIb(b) /\ b.size \in Nat
      BY <1>1, <2>b, IbFields DEF IsIb
    <2> QED BY <1>1, <2>1, <2>2, SendEofAndCloseInv
  <1>3. CASE ~ib.eof
    <2>1. /\ ib' = [ib EXCEPT !.handling_msg = "Active"] /\ pc' = "handler"
          /\ UNCHANGED <<input, rcvd, rd_req, consumed, state, lock_cnt, users, outvars>>
      BY <1>3 DEF HandleMessage
    <2>2. SameRing(ib, ib')
      BY <1>1, <2>1, IbFields DEF IsIb, SameRing
    <2>3. Content
      BY <1>1 DEF ChInv
    <2>4. /\ RingOK(ib') /\ Used(ib') = Used(ib) /\ ib'.size = ib.size /\ ib'.inp = ib.inp
          /\ Stored(ib', rcvd - consumed, consumed)
      BY <2>2, <2>3, ContentStored, SameRingFacts DEF SameRing
    <2>5. Content'
      BY <2>1, <2>3, <2>4, ContentStored DEF ReadRoom
    <2>6. ChTypeOK' /\ Closing'
      BY <1>1, <2>1, <2>2 DEF ChInv, ChTypeOK, Closing, outvars, SameRing
    <2>7. LocksBalance'
      BY <1>1, <2>1 DEF ChInv, LocksBalance, outvars
    <2> QED BY <2>5, <2>6, <2>7 DEF ChInv
  <1> QED BY <1>2, <1>3

LEMMA HandlerInv ==
    ASSUME ChInv, (\E peeking \in BOOLEAN : HandlerRead(peeking)) \/ HandlerStarved
    PROVE  ChInv'
  <1>1. state = "Open" /\ Content /\ ChTypeOK
    BY DEF ChInv, Closing, HandlerRead, HandlerStarved
  <1>2. /\ Content' /\ IsIb(ib') /\ ib'.size \in Nat /\ rd_req' \in ReadReq /\ consumed' \in Nat
        /\ pc' \in {"loop", "handler", "wait"}
        /\ UNCHANGED <<input, rcvd, state, lock_cnt, users, outvars>>
    <2>1. ASSUME NEW peeking \in BOOLEAN, HandlerRead(peeking)
          PROVE  /\ Content' /\ IsIb(ib') /\ ib'.size \in Nat /\ rd_req' \in ReadReq /\ consumed' \in Nat
                 /\ pc' \in {"loop", "handler", "wait"}
                 /\ UNCHANGED <<input, rcvd, state, lock_cnt, users, outvars>>
      BY <1>1, <2>1, HandlerReadContent
    <2>2. CASE HandlerStarved
      BY <1>1, <2>2, HandlerStarvedContent DEF ChTypeOK
    <2> QED BY <2>1, <2>2
  <1>3. ChTypeOK' /\ Closing'
    BY <1>1, <1>2 DEF ChTypeOK, Closing, outvars
  <1>4. LocksBalance'
    BY <1>1, <1>2 DEF ChInv, LocksBalance, outvars
  <1> QED BY <1>2, <1>3, <1>4 DEF ChInv

-----------------------------------------------------------------------------
(***************************************************************************)
(* The theorems                                                            *)
(***************************************************************************)

\* The invariant is inductive.
THEOREM ChInvCorrect == ChSpec => []ChInv
  <1>1. ChInit => ChInv
    BY ChInitInv
  <1>2. ASSUME ChInv, [ChNext]_chvars PROVE ChInv'
    <2>1. CASE WorkerRead
      BY <1>2, <2>1, WorkerReadInv
    <2>2. CASE ReadEvent
      BY <1>2, <2>2, ReadDoneInv DEF ReadEvent
    <2>3. CASE WaitRead
      BY <1>2, <2>3, ReadDoneInv DEF WaitRead
    <2>4. CASE WriteMessage
      BY <1>2, <2>4, WriteMessageInv
    <2>5. CASE FlushEvent
      BY <1>2, <2>5, FlushEventInv
    <2>6. CASE WriteSucceeded
      <3>1. out_queue - 1 \in Nat
        BY <1>2, <2>6 DEF ChInv, ChTypeOK, WriteSucceeded
      <3> QED BY <1>2, <2>6, <3>1, WriteDoneInv DEF WriteSucceeded
    <2>7. CASE WriteFailed
      BY <1>2, <2>7, WriteDoneInv DEF WriteFailed
    <2>8. CASE Close \/ HandlerRaises
      BY <1>2, <2>8, CloseInv
    <2>9. CASE HandleMessage
      BY <1>2, <2>9, HandleMessageInv
    <2>10. CASE (\E peeking \in BOOLEAN : HandlerRead(peeking)) \/ HandlerStarved
      BY <1>2, <2>10, HandlerInv
    <2>11. CASE Lock
      BY <1>2, <2>11, LockInv
    <2>12. CASE Unlock
      BY <1>2, <2>12, UnlockInv
    <2>13. CASE UNCHANGED chvars
      <3>1. ChTypeOK' /\ Closing' /\ LocksBalance'
        BY <1>2, <2>13 DEF chvars, ChInv, ChTypeOK, Closing, LocksBalance
      <3>2. state' = "Open" => Content'
        BY <1>2, <2>13, ContentSame DEF chvars, ChInv
      <3> QED BY <3>1, <3>2 DEF ChInv
    <2> QED BY <1>2, <2>1, <2>2, <2>3, <2>4, <2>5, <2>6, <2>7, <2>8, <2>9, <2>10, <2>11, <2>12, <2>13
            DEF ChNext
  <1> QED BY <1>1, <1>2, PTL DEF ChSpec

\* channel_tcp.c: every lock is held by something that refers to the channel, and the channel
\* is deleted when, and only when, no request, event or service refers to it.
THEOREM LocksBalanceCorrect == ChSpec => []LocksBalance
  <1>1. ChInv => LocksBalance
    BY DEF ChInv
  <1> QED BY <1>1, ChInvCorrect, PTL

\* inputbuf.c: whatever the sizes of the buffer and of the reads, and wherever it wraps around
\* or grows, the ring of an open channel holds the received bytes that no handler has read,
\* in their order, and a pending read has room of its own.
THEOREM StreamIntactCorrect == ChSpec => []StreamIntact
  <1>1. ASSUME ChInv PROVE StreamIntact
    <2> SUFFICES ASSUME state = "Open", rd_req.status # "done"
                 PROVE  /\ Unread(ib) = [i \in 1..(rcvd - consumed) |-> consumed + i]
                        /\ rd_req.status = "pending" =>
                             /\ rd_req.pos = ib.inp
                             /\ Len(Unread(ib)) + rd_req.len < ib.size
      BY DEF StreamIntact
    <2>s. PICK s : s = ib.size
      OBVIOUS
    <2>o. PICK o : o = Out(ib)
      OBVIOUS
    <2>u. PICK u : u = Used(ib)
      OBVIOUS
    <2>1. /\ RingOK(ib) /\ ReadRoom(ib, rd_req) /\ rcvd - consumed = u + Ahead(rd_req)
          /\ Stored(ib, rcvd - consumed, consumed) /\ Ahead(rd_req) = 0
      BY <1>1, <2>u, ContentStored DEF ChInv, Ahead
    <2>2. /\ s \in Nat /\ s > 1 /\ ib.inp \in Nat /\ ib.inp < s /\ o \in Nat /\ o < s
          /\ u \in Nat /\ u < s /\ rcvd - consumed = u /\ rcvd \in Nat /\ consumed \in Nat
      BY <1>1, <2>1, <2>s, <2>o, <2>u, RingNumbers DEF ChInv, ChTypeOK
    <2>3. (ib.inp + s - o) % s = u
      <3>x. PICK x : x = ib.inp + s - o
        OBVIOUS
      <3>1. x \in Nat /\ x < s + s
        BY <2>2, <3>x
      <3>2. x % s = IF x < s THEN x ELSE x - s
        BY <2>2, <3>1, ModRing
      <3>3. u = IF o <= ib.inp THEN ib.inp - o ELSE ib.inp + s - o
        BY <2>s, <2>o, <2>u DEF Used
      <3> QED BY <2>2, <3>x, <3>2, <3>3
    <2>4. Unread(ib) = [i \in 1..u |-> ib.buf[(o + i - 1) % s]]
      BY <2>3, <2>s, <2>o DEF Unread
    <2>5. ASSUME NEW i \in 1..u PROVE ib.buf[(o + i - 1) % s] = consumed + i
      <3>k. PICK k : k = i - 1
        OBVIOUS
      <3>x. PICK x : x = o + i - 1
        OBVIOUS
      <3>1. /\ k \in Nat /\ k \in 0..(u - 1) /\ k < s /\ x = o + k /\ consumed + k + 1 = consumed + i
            /\ x \in Nat /\ x < s + s
        BY <2>2, <3>k, <3>x
      <3>2. x % s = IF x < s THEN x ELSE x - s
        BY <2>2, <3>1, ModRing
      <3>3. x % s = Slot(ib, k)
        BY <2>2, <2>s, <2>o, <3>1, <3>2 DEF Slot
      <3>4. ib.buf[Slot(ib, k)] = consumed + k + 1
        BY <2>1, <2>2, <3>1 DEF Stored
      <3>5. ib.buf[x % s] = consumed + i
        BY <3>1, <3>3, <3>4
      <3> QED BY <3>5, <3>x
    <2>6. Unread(ib) = [i \in 1..u |-> consumed + i]
      BY <2>4, <2>5
    <2>7. Len(Unread(ib)) = u
      <3>q. PICK q : q = [i \in 1..u |-> consumed + i]
        OBVIOUS
      <3>1. q \in [1..u -> Nat]
        BY <2>2, <3>q
      <3>2. q \in Seq(Nat) /\ Len(q) = u
        BY <2>2, <3>1, IsASeq, LenProperties
      <3> QED BY <2>6, <3>2, <3>q
    <2>8. rd_req.status = "pending" => rd_req.pos = ib.inp /\ u + rd_req.len < s
      BY <2>1, <2>s, <2>u DEF ReadRoom
    <2> QED BY <2>2, <2>6, <2>7, <2>8, <2>s
  <1> QED BY <1>1, ChInvCorrect, PTL


-----------------------------------------------------------------------------
(***************************************************************************)
(* The two parsers of inputbuf.c: ibuf_read_done() counts messages in the  *)
(* bytes that arrive, ibuf_get_more() ends them in the bytes that are      *)
(* read, and the two agree however the bytes are cut into reads and        *)
(* wherever the buffer wraps around, grows or overflows.                   *)
(***************************************************************************)
-----------------------------------------------------------------------------
(***************************************************************************)
(* The parser that the two have in common                                  *)
(***************************************************************************)

\* The state of a parser of the stream: an escape is pending, a size is due, the bytes left of
\* binary data, and the ends of messages met so far.
ParseState == [esc : BOOLEAN, size : BOOLEAN, left : Nat, cnt : Int]

\* The bytes that end a message after an escape.
Ends(ch) == IF ch = "1" THEN 1 ELSE 0

ParseStep(p, ch) ==
    IF p.size THEN [p EXCEPT !.size = FALSE, !.left = SizeOf(ch)]
    ELSE IF p.left > 0 THEN [p EXCEPT !.left = @ - 1]
    ELSE IF p.esc THEN [esc |-> FALSE, size |-> (ch = "3"), left |-> 0,
                        cnt |-> p.cnt + Ends(ch)]
    ELSE [p EXCEPT !.esc = (ch = "E")]

\* tr is what the parser goes through on the n bytes after position m.
Trace(tr, bytes, m, n) ==
    /\ \A k \in 0..n : tr[k] \in ParseState
    /\ \A k \in 0..(n - 1) : tr[k + 1] = ParseStep(tr[k], bytes[m + k + 1])

\* The ends of messages that ibuf_read_done() has met and ibuf_get_more() has not: the end of
\* file counts for a message, and so does a message that is longer than the buffer.
Extra(b) == (IF b.eof THEN 1 ELSE 0) + (IF b.long_msg THEN 1 ELSE 0)
Pending(b) == b.message_count - Extra(b)

\* The state of the parser at inp, when it was met with the count z at the next byte to read.
AtInp(b, z) == [esc |-> b.inp_esc, size |-> b.inp_size_mode, left |-> b.inp_data_size,
                cnt |-> z + Pending(b)]

\* p is the state of the parser at the next byte to read.  Before end it is not known to
\* ibuf_get_more(), which has looked ahead: in binary data, or in text without an escape.
AtOut(b, bytes, m, p) ==
    /\ b.cur < b.end => ~b.out_size_mode
    /\ \/ p.esc = b.out_esc /\ p.size = b.out_size_mode /\ p.left = b.out_data_size + (b.end - b.cur)
       \/ /\ ~p.esc /\ ~p.size /\ p.left = 0
          /\ ~b.out_esc /\ ~b.out_size_mode /\ b.out_data_size = 0
          /\ \A j \in 0..((b.end - b.cur) - 1) : bytes[m + j + 1] # "E"

\* The two parsers agree on the u bytes after position m, which are in the ring.
Agree(b, bytes, m, u) ==
    \E tr : Trace(tr, bytes, m, u) /\ AtOut(b, bytes, m, tr[0]) /\ tr[u] = AtInp(b, tr[0].cnt)

\* The fields of the parsers; a message is being handled, or an event is in the queue for it,
\* exactly when there is one.
Counters(b) ==
    /\ IsIb(b)
    /\ b.inp_esc \in BOOLEAN /\ b.inp_size_mode \in BOOLEAN /\ b.inp_data_size \in Nat
    /\ b.out_esc \in BOOLEAN /\ b.out_size_mode \in BOOLEAN /\ b.out_data_size \in Nat
    /\ b.eof \in BOOLEAN /\ b.long_msg \in BOOLEAN /\ b.message_count \in Nat
    /\ b.handling_msg \in {"Idle", "Triggered", "Active"}
    /\ b.handling_msg = "Idle" <=> b.message_count = 0

MsgInv ==
    /\ state = "Open" => Counters(ib) /\ Agree(ib, input, consumed, Used(ib))
    /\ pc \in {"handler", "wait"} => ib.handling_msg = "Active"

-----------------------------------------------------------------------------
(***************************************************************************)
(* The parser                                                              *)
(***************************************************************************)

LEMMA SizeOfNat == \A ch : SizeOf(ch) \in Nat
  BY DEF SizeOf

LEMMA ParseStepType ==
    ASSUME NEW p \in ParseState, NEW ch
    PROVE  ParseStep(p, ch) \in ParseState /\ ParseStep(p, ch).cnt >= p.cnt
  <1>1. /\ p.esc \in BOOLEAN /\ p.size \in BOOLEAN /\ p.left \in Nat /\ p.cnt \in Int
        /\ p = [esc |-> p.esc, size |-> p.size, left |-> p.left, cnt |-> p.cnt]
    BY DEF ParseState
  <1>2. CASE p.size
    <2>1. ParseStep(p, ch) = [esc |-> p.esc, size |-> FALSE, left |-> SizeOf(ch), cnt |-> p.cnt]
      BY <1>1, <1>2 DEF ParseStep, ParseState
    <2> QED BY <1>1, <2>1, SizeOfNat DEF ParseState
  <1>3. CASE ~p.size /\ p.left > 0
    <2>1. ParseStep(p, ch) = [esc |-> p.esc, size |-> p.size, left |-> p.left - 1, cnt |-> p.cnt]
      BY <1>1, <1>3 DEF ParseStep, ParseState
    <2>2. p.left - 1 \in Nat
      BY <1>1, <1>3
    <2> QED BY <1>1, <2>1, <2>2 DEF ParseState
  <1>4. CASE ~p.size /\ ~(p.left > 0) /\ p.esc
    <2>c. PICK c : c = p.cnt + Ends(ch)
      OBVIOUS
    <2>s. PICK s \in BOOLEAN : s = (ch = "3")
      OBVIOUS
    <2>1. ParseStep(p, ch) = [esc |-> FALSE, size |-> s, left |-> 0, cnt |-> c]
      BY <1>4, <2>c, <2>s DEF ParseStep
    <2>2. c \in Int /\ c >= p.cnt
      BY <1>1, <2>c DEF Ends
    <2> QED BY <1>1, <2>1, <2>2 DEF ParseState
  <1>5. CASE ~p.size /\ ~(p.left > 0) /\ ~p.esc
    <2>s. PICK s \in BOOLEAN : s = (ch = "E")
      OBVIOUS
    <2>1. ParseStep(p, ch) = [esc |-> s, size |-> p.size, left |-> p.left, cnt |-> p.cnt]
      BY <1>1, <1>5, <2>s DEF ParseStep, ParseState
    <2> QED BY <1>1, <2>1 DEF ParseState
  <1> QED BY <1>1, <1>2, <1>3, <1>4, <1>5

\* The four steps of the parser: the size of binary data, a byte of it, the code after an
\* escape, and text.
LEMMA ParseSize ==
    ASSUME NEW p \in ParseState, NEW ch, NEW q, q = ParseStep(p, ch), p.size
    PROVE  q.esc = p.esc /\ q.size = FALSE /\ q.left = SizeOf(ch) /\ q.cnt = p.cnt
  BY DEF ParseStep, ParseState

LEMMA ParseData ==
    ASSUME NEW p \in ParseState, NEW ch, NEW q, q = ParseStep(p, ch), ~p.size, p.left > 0
    PROVE  q.esc = p.esc /\ q.size = p.size /\ q.left = p.left - 1 /\ q.cnt = p.cnt
  BY DEF ParseStep, ParseState

LEMMA ParseCode ==
    ASSUME NEW p \in ParseState, NEW ch, NEW q, q = ParseStep(p, ch), ~p.size, ~(p.left > 0), p.esc
    PROVE  q.esc = FALSE /\ q.size = (ch = "3") /\ q.left = 0 /\ q.cnt = p.cnt + Ends(ch)
  BY DEF ParseStep

LEMMA ParseText ==
    ASSUME NEW p \in ParseState, NEW ch, NEW q, q = ParseStep(p, ch), ~p.size, ~(p.left > 0), ~p.esc
    PROVE  q.esc = (ch = "E") /\ q.size = p.size /\ q.left = p.left /\ q.cnt = p.cnt
  BY DEF ParseStep, ParseState

\* The parser only counts up.
LEMMA TraceCounts ==
    ASSUME NEW tr, NEW bytes, NEW m, NEW n \in Nat, Trace(tr, bytes, m, n)
    PROVE  tr[n].cnt >= tr[0].cnt /\ (n > 0 => tr[n].cnt >= tr[1].cnt)
  <1> DEFINE S == {k \in Nat : k <= n => /\ tr[k].cnt >= tr[0].cnt
                                         /\ k > 0 => tr[k].cnt >= tr[1].cnt}
  <1>0. \A k \in 0..n : tr[k].cnt \in Int
    BY DEF Trace, ParseState
  <1>1. 0 \in S
    <2>1. 0 \in 0..n
      OBVIOUS
    <2> QED BY <1>0, <2>1
  <1>2. ASSUME NEW k \in Nat, k \in S PROVE k + 1 \in S
    <2> SUFFICES ASSUME k + 1 <= n
                 PROVE  tr[k + 1].cnt >= tr[0].cnt /\ tr[k + 1].cnt >= tr[1].cnt
      OBVIOUS
    <2>1. /\ k \in 0..n /\ k \in 0..(n - 1) /\ k + 1 \in 0..n /\ 0 \in 0..n /\ 1 \in 0..n
          /\ tr[k] \in ParseState
      BY DEF Trace
    <2>2. tr[k + 1] = ParseStep(tr[k], bytes[m + k + 1])
      BY <2>1 DEF Trace
    <2>3. tr[k + 1].cnt >= tr[k].cnt
      BY <2>1, <2>2, ParseStepType
    <2>4. tr[k + 1].cnt \in Int /\ tr[k].cnt \in Int /\ tr[0].cnt \in Int /\ tr[1].cnt \in Int
      BY <1>0, <2>1
    <2>5. CASE k = 0
      BY <2>3, <2>4, <2>5
    <2>6. CASE k > 0
      BY <1>2, <2>1, <2>3, <2>4, <2>6
    <2> QED BY <2>5, <2>6
  <1> HIDE DEF S
  <1>3. n \in S
    BY <1>1, <1>2, SetInduction
  <1> QED BY <1>3 DEF S

-----------------------------------------------------------------------------
(***************************************************************************)
(* ibuf_read_done()                                                        *)
(***************************************************************************)

\* The reader's side of c is the one of b.
SameReader(b, c) ==
    /\ c.cur = b.cur /\ c.end = b.end
    /\ c.out_esc = b.out_esc /\ c.out_size_mode = b.out_size_mode /\ c.out_data_size = b.out_data_size

LEMMA NewMessageFields ==
    ASSUME NEW b, Counters(b), NEW c, c = NewMessage(b)
    PROVE  /\ Counters(c) /\ SameReader(b, c)
           /\ c.inp_esc = b.inp_esc /\ c.inp_size_mode = b.inp_size_mode
           /\ c.inp_data_size = b.inp_data_size
           /\ c.message_count = b.message_count + 1 /\ c.eof = b.eof /\ c.long_msg = b.long_msg
           /\ b.handling_msg = "Active" => c.handling_msg = "Active"
  <1>1. IsIb(b) /\ b.message_count \in Nat
    BY DEF Counters
  <1>2. /\ IsIb(c) /\ SameReader(b, c)
        /\ c.inp_esc = b.inp_esc /\ c.inp_size_mode = b.inp_size_mode
        /\ c.inp_data_size = b.inp_data_size
        /\ c.message_count = b.message_count + 1 /\ c.eof = b.eof /\ c.long_msg = b.long_msg
        /\ c.handling_msg = IF b.handling_msg = "Idle" THEN "Triggered" ELSE b.handling_msg
    BY <1>1, IbFields DEF IsIb, NewMessage, SameReader
  <1>3. c.message_count \in Nat /\ c.message_count # 0
    BY <1>1, <1>2
  <1>4. c.handling_msg \in {"Idle", "Triggered", "Active"} /\ c.handling_msg # "Idle"
    BY <1>2 DEF Counters
  <1>5. Counters(c)
    BY <1>2, <1>3, <1>4 DEF Counters, SameReader
  <1> QED BY <1>2, <1>5

LEMMA EofFields ==
    ASSUME NEW b, Counters(b), NEW c, c = Eof(b)
    PROVE  /\ Counters(c) /\ SameReader(b, c)
           /\ c.inp_esc = b.inp_esc /\ c.inp_size_mode = b.inp_size_mode
           /\ c.inp_data_size = b.inp_data_size /\ Pending(c) = Pending(b)
           /\ b.handling_msg = "Active" => c.handling_msg = "Active"
  <1>1. CASE b.eof
    BY <1>1 DEF Eof, SameReader
  <1>2. CASE ~b.eof
    <2>d. PICK d : d = [b EXCEPT !.eof = TRUE]
      OBVIOUS
    <2>1. c = NewMessage(d)
      BY <1>2, <2>d DEF Eof
    <2>2. /\ IsIb(d) /\ SameReader(b, d)
          /\ d.inp_esc = b.inp_esc /\ d.inp_size_mode = b.inp_size_mode
          /\ d.inp_data_size = b.inp_data_size /\ d.message_count = b.message_count
          /\ d.long_msg = b.long_msg /\ d.handling_msg = b.handling_msg /\ d.eof = TRUE
      BY <2>d, IbFields DEF Counters, IsIb, SameReader
    <2>3. Counters(d)
      BY <2>2 DEF Counters, SameReader
    <2>4. /\ Counters(c) /\ SameReader(d, c)
          /\ c.inp_esc = d.inp_esc /\ c.inp_size_mode = d.inp_size_mode
          /\ c.inp_data_size = d.inp_data_size
          /\ c.message_count = d.message_count + 1 /\ c.eof = d.eof /\ c.long_msg = d.long_msg
          /\ d.handling_msg = "Active" => c.handling_msg = "Active"
      BY <2>1, <2>3, NewMessageFields
    <2>5. Pending(c) = Pending(b)
      BY <1>2, <2>2, <2>4 DEF Pending, Extra, Counters
    <2>6. SameReader(b, c)
      BY <2>2, <2>4 DEF SameReader
    <2> QED BY <2>2, <2>4, <2>5, <2>6
  <1> QED BY <1>1, <1>2

LEMMA PendingInt ==
    ASSUME NEW b, Counters(b)
    PROVE  Pending(b) \in Int /\ Extra(b) \in Nat
  BY DEF Counters, Pending, Extra

LEMMA AtInpType ==
    ASSUME NEW b, Counters(b), NEW z \in Int
    PROVE  /\ AtInp(b, z) \in ParseState
           /\ AtInp(b, z).esc = b.inp_esc /\ AtInp(b, z).size = b.inp_size_mode
           /\ AtInp(b, z).left = b.inp_data_size /\ AtInp(b, z).cnt = z + Pending(b)
  <1>1. z + Pending(b) \in Int
    BY PendingInt
  <1> QED BY <1>1 DEF AtInp, ParseState, Counters

\* The loop body of ibuf_read_done() is a step of the parser.
LEMMA ScanByteParses ==
    ASSUME NEW b, Counters(b), NEW ch, NEW c, c = ScanByte(b, ch), NEW z \in Int
    PROVE  /\ Counters(c) /\ SameReader(b, c) /\ AtInp(c, z) = ParseStep(AtInp(b, z), ch)
           /\ b.handling_msg = "Active" => c.handling_msg = "Active"
  <1>p. PICK p : p = AtInp(b, z)
    OBVIOUS
  <1>y. PICK y : y = Pending(b)
    OBVIOUS
  <1>0. /\ p \in ParseState /\ p.esc = b.inp_esc /\ p.size = b.inp_size_mode
        /\ p.left = b.inp_data_size /\ p.cnt = z + y /\ y \in Int
        /\ p = [esc |-> b.inp_esc, size |-> b.inp_size_mode, left |-> b.inp_data_size, cnt |-> z + y]
    BY <1>p, <1>y, AtInpType, PendingInt DEF AtInp
  <1>1. CASE b.inp_size_mode
    <2>1. c = [b EXCEPT !.inp_size_mode = FALSE, !.inp_data_size = SizeOf(ch)]
      BY <1>1 DEF ScanByte
    <2>2. /\ IsIb(c) /\ SameReader(b, c) /\ c.eof = b.eof /\ c.long_msg = b.long_msg
          /\ c.message_count = b.message_count /\ c.handling_msg = b.handling_msg
          /\ c.inp_esc = b.inp_esc /\ c.inp_size_mode = FALSE /\ c.inp_data_size = SizeOf(ch)
      BY <2>1, IbFields DEF Counters, IsIb, SameReader
    <2>3. Counters(c) /\ Pending(c) = y
      BY <1>y, <2>2, SizeOfNat DEF Counters, SameReader, Pending, Extra
    <2>4. ParseStep(p, ch) = [esc |-> b.inp_esc, size |-> FALSE, left |-> SizeOf(ch), cnt |-> z + y]
      BY <1>0, <1>1 DEF ParseStep
    <2>5. AtInp(c, z) = [esc |-> b.inp_esc, size |-> FALSE, left |-> SizeOf(ch), cnt |-> z + y]
      BY <2>2, <2>3 DEF AtInp
    <2> QED BY <1>p, <2>2, <2>3, <2>4, <2>5
  <1>2. CASE ~b.inp_size_mode /\ b.inp_data_size > 0
    <2>l. PICK l : l = b.inp_data_size - 1
      OBVIOUS
    <2>1. c = [b EXCEPT !.inp_data_size = l]
      BY <1>2, <2>l, IbFields DEF ScanByte, Counters, IsIb
    <2>2. /\ IsIb(c) /\ SameReader(b, c) /\ c.eof = b.eof /\ c.long_msg = b.long_msg
          /\ c.message_count = b.message_count /\ c.handling_msg = b.handling_msg
          /\ c.inp_esc = b.inp_esc /\ c.inp_size_mode = b.inp_size_mode /\ c.inp_data_size = l
      BY <2>1, IbFields DEF Counters, IsIb, SameReader
    <2>3. l \in Nat
      BY <1>2, <2>l DEF Counters
    <2>4. Counters(c) /\ Pending(c) = y
      BY <1>y, <2>2, <2>3 DEF Counters, SameReader, Pending, Extra
    <2>5. ParseStep(p, ch) = [esc |-> b.inp_esc, size |-> b.inp_size_mode, left |-> l, cnt |-> z + y]
      BY <1>0, <1>2, <2>l DEF ParseStep
    <2>6. AtInp(c, z) = [esc |-> b.inp_esc, size |-> b.inp_size_mode, left |-> l, cnt |-> z + y]
      BY <2>2, <2>4 DEF AtInp
    <2> QED BY <1>p, <2>2, <2>4, <2>5, <2>6
  <1>3. CASE ~b.inp_size_mode /\ ~(b.inp_data_size > 0) /\ b.inp_esc
    <2>d. PICK d : d = [b EXCEPT !.inp_esc = FALSE]
      OBVIOUS
    <2>1. /\ IsIb(d) /\ SameReader(b, d) /\ d.eof = b.eof /\ d.long_msg = b.long_msg
          /\ d.message_count = b.message_count /\ d.handling_msg = b.handling_msg
          /\ d.inp_esc = FALSE /\ d.inp_size_mode = b.inp_size_mode /\ d.inp_data_size = b.inp_data_size
      BY <2>d, IbFields DEF Counters, IsIb, SameReader
    <2>2. Counters(d) /\ Pending(d) = y
      BY <1>y, <2>1 DEF Counters, SameReader, Pending, Extra
    <2>3. b.inp_size_mode = FALSE /\ b.inp_data_size = 0
      BY <1>3 DEF Counters
    <2>s. PICK s \in BOOLEAN : s = (ch = "3")
      OBVIOUS
    <2>v. PICK v : v = (z + y) + Ends(ch)
      OBVIOUS
    <2>4. ParseStep(p, ch) = [esc |-> FALSE, size |-> s, left |-> 0, cnt |-> v]
      BY <1>0, <1>3, <2>s, <2>v DEF ParseStep
    <2>5. CASE ch = "1" /\ d.long_msg
      <3>1. c = [d EXCEPT !.long_msg = FALSE, !.assert = @ /\ d.message_count = 1]
        BY <1>3, <2>5, <2>d DEF ScanByte
      <3>2. /\ IsIb(c) /\ SameReader(d, c) /\ c.eof = d.eof /\ c.long_msg = FALSE
            /\ c.message_count = d.message_count /\ c.handling_msg = d.handling_msg
            /\ c.inp_esc = d.inp_esc /\ c.inp_size_mode = d.inp_size_mode
            /\ c.inp_data_size = d.inp_data_size
        BY <2>1, <3>1, IbFields DEF IsIb, SameReader
      <3>3. Counters(c) /\ Pending(c) = y + 1
        <4>1. Counters(c)
          BY <2>1, <2>2, <2>3, <3>2 DEF Counters, SameReader
        <4>2. Pending(c) = Pending(d) + 1
          BY <2>2, <2>5, <3>2 DEF Counters, Pending, Extra
        <4> QED BY <2>2, <4>1, <4>2
      <3>4. AtInp(c, z) = [esc |-> FALSE, size |-> FALSE, left |-> 0, cnt |-> z + (y + 1)]
        BY <2>1, <2>3, <3>2, <3>3 DEF AtInp
      <3>5. ParseStep(p, ch) = [esc |-> FALSE, size |-> FALSE, left |-> 0, cnt |-> z + (y + 1)]
        <4>1. v = z + (y + 1)
          BY <1>0, <2>5, <2>v DEF Ends
        <4>2. s = FALSE
          BY <2>5, <2>s, Zenon
        <4> QED BY <2>4, <4>1, <4>2
      <3> QED BY <1>p, <2>1, <3>2, <3>3, <3>4, <3>5 DEF SameReader
    <2>6. CASE ch = "1" /\ ~d.long_msg
      <3>1. c = NewMessage(d)
        BY <1>3, <2>6, <2>d DEF ScanByte
      <3>2. /\ Counters(c) /\ SameReader(d, c)
            /\ c.inp_esc = d.inp_esc /\ c.inp_size_mode = d.inp_size_mode
            /\ c.inp_data_size = d.inp_data_size
            /\ c.message_count = d.message_count + 1 /\ c.eof = d.eof /\ c.long_msg = d.long_msg
            /\ d.handling_msg = "Active" => c.handling_msg = "Active"
        BY <2>2, <3>1, NewMessageFields
      <3>3. Pending(c) = y + 1
        BY <2>2, <3>2 DEF Counters, Pending, Extra
      <3>4. AtInp(c, z) = [esc |-> FALSE, size |-> FALSE, left |-> 0, cnt |-> z + (y + 1)]
        BY <2>1, <2>3, <3>2, <3>3 DEF AtInp
      <3>5. ParseStep(p, ch) = [esc |-> FALSE, size |-> FALSE, left |-> 0, cnt |-> z + (y + 1)]
        <4>1. v = z + (y + 1)
          BY <1>0, <2>6, <2>v DEF Ends
        <4>2. s = FALSE
          BY <2>6, <2>s, Zenon
        <4> QED BY <2>4, <4>1, <4>2
      <3> QED BY <1>p, <2>1, <3>2, <3>4, <3>5 DEF SameReader
    <2>7. CASE ch = "0"
      <3>1. c = d
        BY <1>3, <2>7, <2>d DEF ScanByte
      <3>2. AtInp(c, z) = [esc |-> FALSE, size |-> FALSE, left |-> 0, cnt |-> z + y]
        BY <2>1, <2>2, <2>3, <3>1 DEF AtInp
      <3>3. ParseStep(p, ch) = [esc |-> FALSE, size |-> FALSE, left |-> 0, cnt |-> z + y]
        <4>1. v = z + y
          BY <1>0, <2>7, <2>v DEF Ends
        <4>2. s = FALSE
          BY <2>7, <2>s, Zenon
        <4> QED BY <2>4, <4>1, <4>2
      <3> QED BY <1>p, <2>1, <2>2, <3>1, <3>2, <3>3
    <2>8. CASE ch = "3"
      <3>1. c = [d EXCEPT !.inp_size_mode = TRUE, !.inp_data_size = 0]
        BY <1>3, <2>8, <2>d DEF ScanByte
      <3>2. /\ IsIb(c) /\ SameReader(d, c) /\ c.eof = d.eof /\ c.long_msg = d.long_msg
            /\ c.message_count = d.message_count /\ c.handling_msg = d.handling_msg
            /\ c.inp_esc = d.inp_esc /\ c.inp_size_mode = TRUE /\ c.inp_data_size = 0
        BY <2>1, <3>1, IbFields DEF IsIb, SameReader
      <3>3. Counters(c) /\ Pending(c) = y
        <4>1. Counters(c)
          <5>1. c.inp_size_mode \in BOOLEAN
            BY <3>2, Zenon
          <5>2. c.inp_data_size \in Nat
            BY <3>2
          <5> QED BY <2>2, <3>2, <5>1, <5>2 DEF Counters, SameReader
        <4>2. Pending(c) = Pending(d)
          BY <2>2, <3>2 DEF Pending, Extra
        <4> QED BY <2>2, <4>1, <4>2
      <3>4. AtInp(c, z) = [esc |-> FALSE, size |-> TRUE, left |-> 0, cnt |-> z + y]
        BY <2>1, <3>2, <3>3 DEF AtInp
      <3>5. ParseStep(p, ch) = [esc |-> FALSE, size |-> TRUE, left |-> 0, cnt |-> z + y]
        <4>1. v = z + y
          BY <1>0, <2>8, <2>v DEF Ends
        <4>2. s = TRUE
          BY <2>8, <2>s, Zenon
        <4> QED BY <2>4, <4>1, <4>2
      <3> QED BY <1>p, <2>1, <3>2, <3>3, <3>4, <3>5 DEF SameReader
    <2>9. CASE ch \notin {"0", "1", "3"}
      <3>1. c = Eof(d)
        BY <1>3, <2>9, <2>d DEF ScanByte
      <3>2. /\ Counters(c) /\ SameReader(d, c)
            /\ c.inp_esc = d.inp_esc /\ c.inp_size_mode = d.inp_size_mode
            /\ c.inp_data_size = d.inp_data_size /\ Pending(c) = Pending(d)
            /\ d.handling_msg = "Active" => c.handling_msg = "Active"
        BY <2>2, <3>1, EofFields
      <3>3. AtInp(c, z) = [esc |-> FALSE, size |-> FALSE, left |-> 0, cnt |-> z + y]
        BY <2>1, <2>2, <2>3, <3>2 DEF AtInp
      <3>4. ParseStep(p, ch) = [esc |-> FALSE, size |-> FALSE, left |-> 0, cnt |-> z + y]
        <4>1. v = z + y
          BY <1>0, <2>9, <2>v DEF Ends
        <4>2. s = FALSE
          BY <2>9, <2>s, Zenon
        <4> QED BY <2>4, <4>1, <4>2
      <3> QED BY <1>p, <2>1, <3>2, <3>3, <3>4 DEF SameReader
    <2> QED BY <2>5, <2>6, <2>7, <2>8, <2>9
  <1>4. CASE ~b.inp_size_mode /\ ~(b.inp_data_size > 0) /\ ~b.inp_esc
    <2>s. PICK s \in BOOLEAN : s = (ch = "E")
      OBVIOUS
    <2>1. c = [b EXCEPT !.inp_esc = s]
      BY <1>4, <2>s DEF ScanByte
    <2>2. /\ IsIb(c) /\ SameReader(b, c) /\ c.eof = b.eof /\ c.long_msg = b.long_msg
          /\ c.message_count = b.message_count /\ c.handling_msg = b.handling_msg
          /\ c.inp_esc = s /\ c.inp_size_mode = b.inp_size_mode /\ c.inp_data_size = b.inp_data_size
      BY <2>1, IbFields DEF Counters, IsIb, SameReader
    <2>3. Counters(c) /\ Pending(c) = y
      BY <1>y, <2>2 DEF Counters, SameReader, Pending, Extra
    <2>4. ParseStep(p, ch) = [esc |-> s, size |-> b.inp_size_mode, left |-> b.inp_data_size, cnt |-> z + y]
      BY <1>0, <1>4, <2>s DEF ParseStep
    <2>5. AtInp(c, z) = [esc |-> s, size |-> b.inp_size_mode, left |-> b.inp_data_size, cnt |-> z + y]
      BY <2>2, <2>3 DEF AtInp
    <2> QED BY <1>p, <2>2, <2>3, <2>4, <2>5
  <1> QED BY <1>1, <1>2, <1>3, <1>4 DEF Counters

LEMMA SameReaderAtOut ==
    ASSUME NEW b, NEW c, SameReader(b, c), NEW bytes, NEW m, NEW p, AtOut(b, bytes, m, p)
    PROVE  AtOut(c, bytes, m, p)
  BY DEF SameReader, AtOut

\* The byte that the loop looks at.
LEMMA ScannedByte ==
    ASSUME NEW b, RingOK(b), NEW bytes, NEW m \in Nat, NEW len \in Nat, b.inp + len <= b.size,
           Used(b) + len < b.size, Stored(b, Used(b) + len, m), NEW n \in Nat, n + 1 <= len, NEW x
    PROVE  ScanStep(b, bytes, n + 1, x) = ScanByte(x, bytes[m + (Used(b) + n) + 1])
  <1>s. PICK s : s = b.size
    OBVIOUS
  <1>o. PICK o : o = Out(b)
    OBVIOUS
  <1>p. PICK p : p = b.inp
    OBVIOUS
  <1>u. PICK u : u = Used(b)
    OBVIOUS
  <1>1. /\ s \in Nat /\ s > 1 /\ p \in Nat /\ p < s /\ o \in Nat /\ o < s /\ u \in Nat
        /\ p + len <= s /\ u + len < s
    BY <1>s, <1>o, <1>p, <1>u, RingNumbers
  <1>2. u = IF o <= p THEN p - o ELSE p + s - o
    BY <1>s, <1>o, <1>p, <1>u DEF Used
  <1>y. PICK y : y = p + n
    OBVIOUS
  <1>3. y \in Nat /\ y < s /\ p + (n + 1) - 1 = y
    BY <1>1, <1>y
  <1>4. y % s = y
    BY <1>1, <1>3, ModRing
  <1>k. PICK k : k = u + n
    OBVIOUS
  <1>5. k \in 0..((u + len) - 1)
    BY <1>1, <1>k
  <1>6. Slot(b, k) = IF o + k < s THEN o + k ELSE o + k - s
    BY <1>s, <1>o DEF Slot
  <1>7. Slot(b, k) = y
    <2>1. CASE o <= p
      <3>1. o + k = y
        BY <1>1, <1>2, <1>k, <1>y, <2>1
      <3> QED BY <1>3, <1>6, <3>1
    <2>2. CASE ~(o <= p)
      <3>1. o + k = y + s /\ o + k - s = y
        BY <1>1, <1>2, <1>k, <1>y, <1>3, <2>2
      <3> QED BY <1>1, <1>3, <1>6, <3>1
    <2> QED BY <2>1, <2>2
  <1>8. b.buf[y] = m + k + 1
    BY <1>5, <1>7, <1>u DEF Stored
  <1>9. ScanStep(b, bytes, n + 1, x) = ScanByte(x, bytes[b.buf[y]])
    BY <1>3, <1>4, <1>s, <1>p DEF ScanStep
  <1> QED BY <1>8, <1>9, <1>k, <1>u

\* The loop of ibuf_read_done() continues the parser over the bytes that it is given.
LEMMA ScanAgrees ==
    ASSUME NEW b, RingOK(b), Counters(b), NEW bytes, NEW m \in Nat, NEW len \in Nat,
           b.inp + len <= b.size, Used(b) + len < b.size, Stored(b, Used(b) + len, m),
           Agree(b, bytes, m, Used(b)), NEW c, c = Scan(b, bytes, len)
    PROVE  /\ Counters(c) /\ Agree(c, bytes, m, Used(b) + len)
           /\ b.handling_msg = "Active" => c.handling_msg = "Active"
  <1>u. PICK u : u = Used(b)
    OBVIOUS
  <1>0. u \in Nat
    BY <1>u, RingNumbers
  <1>1. PICK f : /\ c = [f[len] EXCEPT !.inp = (b.inp + len) % b.size]
                 /\ \A i \in 0..len : f[i] = IF i = 0 THEN b ELSE ScanStep(b, bytes, i, f[i - 1])
    BY ScanLoop
  <1>2. PICK tr : Trace(tr, bytes, m, u) /\ AtOut(b, bytes, m, tr[0]) /\ tr[u] = AtInp(b, tr[0].cnt)
    BY <1>u DEF Agree
  <1>z. PICK z : z = tr[0].cnt
    OBVIOUS
  <1>3. z \in Int
    BY <1>0, <1>2, <1>z DEF Trace, ParseState
  <1>4. f[0] = b
    BY <1>1
  <1>5. ASSUME NEW n \in Nat, n + 1 <= len
        PROVE  f[n + 1] = ScanByte(f[n], bytes[m + (u + n) + 1])
    <2>1. n + 1 \in 0..len /\ n + 1 # 0 /\ (n + 1) - 1 = n
      BY <1>5
    <2>2. f[n + 1] = ScanStep(b, bytes, n + 1, f[n])
      BY <1>1, <2>1
    <2> QED BY <1>5, <1>u, <2>2, ScannedByte
  <1> DEFINE OK(x) == /\ Counters(x) /\ SameReader(b, x)
                      /\ b.handling_msg = "Active" => x.handling_msg = "Active"
             S == {n \in Nat : n <= len => OK(f[n])}
  <1>6. 0 \in S
    BY <1>4 DEF SameReader
  <1>7. ASSUME NEW n \in Nat, n \in S PROVE n + 1 \in S
    <2> SUFFICES ASSUME n + 1 <= len PROVE OK(f[n + 1])
      OBVIOUS
    <2>1. OK(f[n])
      BY <1>7
    <2>2. f[n + 1] = ScanByte(f[n], bytes[m + (u + n) + 1])
      BY <1>5
    <2>3. /\ Counters(f[n + 1]) /\ SameReader(f[n], f[n + 1])
          /\ f[n].handling_msg = "Active" => f[n + 1].handling_msg = "Active"
      BY <1>3, <2>1, <2>2, ScanByteParses
    <2> QED BY <2>1, <2>3 DEF SameReader
  <1>8. \A n \in Nat : n \in S
    <2> HIDE DEF S
    <2> QED BY <1>6, <1>7, SetInduction
  <1>9. \A n \in 0..len : OK(f[n])
    BY <1>8
  <1> HIDE DEF S
  <1>10. ASSUME NEW n \in Nat, n + 1 <= len
         PROVE  AtInp(f[n + 1], z) = ParseStep(AtInp(f[n], z), bytes[m + (u + n) + 1])
    <2>1. n \in 0..len
      BY <1>10
    <2>2. f[n + 1] = ScanByte(f[n], bytes[m + (u + n) + 1])
      BY <1>5, <1>10
    <2> QED BY <1>3, <1>9, <2>1, <2>2, ScanByteParses
  <1>l. PICK l : l = u + len
    OBVIOUS
  <1>g. PICK g : g = [k \in 0..l |-> IF k < u THEN tr[k] ELSE AtInp(f[k - u], z)]
    OBVIOUS
  <1>11. /\ \A k \in 0..u : g[k] = tr[k]
         /\ \A n \in 0..len : g[u + n] = AtInp(f[n], z)
    <2>1. ASSUME NEW n \in 0..len PROVE g[u + n] = AtInp(f[n], z)
      <3>1. u + n \in 0..l /\ ~(u + n < u) /\ (u + n) - u = n
        BY <1>0, <1>l
      <3> QED BY <1>g, <3>1
    <2>2. ASSUME NEW k \in 0..u PROVE g[k] = tr[k]
      <3>1. CASE k < u
        <4>1. k \in 0..l
          BY <1>0, <1>l
        <4> QED BY <1>g, <3>1, <4>1
      <3>2. CASE k = u
        <4>1. 0 \in 0..len /\ u + 0 = k
          BY <1>0, <3>2
        <4> QED BY <1>2, <1>4, <1>z, <2>1, <3>2, <4>1
      <3> QED BY <1>0, <3>1, <3>2
    <2> QED BY <2>1, <2>2
  <1>12. Trace(g, bytes, m, l)
    <2>1. ASSUME NEW k \in 0..l PROVE g[k] \in ParseState
      <3>1. CASE k < u
        <4>1. k \in 0..u
          BY <1>0, <3>1
        <4> QED BY <1>2, <1>11, <4>1 DEF Trace
      <3>2. CASE ~(k < u)
        <4>n. PICK n : n = k - u
          OBVIOUS
        <4>1. n \in 0..len /\ u + n = k
          BY <1>0, <1>l, <3>2, <4>n
        <4> QED BY <1>3, <1>9, <1>11, <4>1, AtInpType
      <3> QED BY <3>1, <3>2
    <2>2. ASSUME NEW k \in 0..(l - 1) PROVE g[k + 1] = ParseStep(g[k], bytes[m + k + 1])
      <3>1. CASE k < u
        <4>1. k \in 0..u /\ k + 1 \in 0..u /\ k \in 0..(u - 1)
          BY <1>0, <3>1
        <4> QED BY <1>2, <1>11, <4>1 DEF Trace
      <3>2. CASE ~(k < u)
        <4>n. PICK n : n = k - u
          OBVIOUS
        <4>1. /\ n \in Nat /\ n + 1 <= len /\ n \in 0..len /\ n + 1 \in 0..len
              /\ u + n = k /\ u + (n + 1) = k + 1
          BY <1>0, <1>l, <3>2, <4>n
        <4>2. g[k] = AtInp(f[n], z) /\ g[k + 1] = AtInp(f[n + 1], z)
          BY <1>11, <4>1
        <4> QED BY <1>10, <4>1, <4>2
      <3> QED BY <3>1, <3>2
    <2> QED BY <2>1, <2>2 DEF Trace
  <1>13. len \in 0..len /\ OK(f[len]) /\ g[l] = AtInp(f[len], z) /\ g[0] = tr[0]
    <2>1. len \in 0..len /\ 0 \in 0..u
      BY <1>0
    <2> QED BY <1>9, <1>11, <1>l, <2>1
  <1>d. PICK d : d = f[len]
    OBVIOUS
  <1>w. PICK w : w = (b.inp + len) % b.size
    OBVIOUS
  <1>14. /\ IsIb(c) /\ SameReader(d, c) /\ c.eof = d.eof /\ c.long_msg = d.long_msg
         /\ c.message_count = d.message_count /\ c.handling_msg = d.handling_msg
         /\ c.inp_esc = d.inp_esc /\ c.inp_size_mode = d.inp_size_mode
         /\ c.inp_data_size = d.inp_data_size
    <2>1. IsIb(d) /\ c = [d EXCEPT !.inp = w]
      BY <1>1, <1>13, <1>d, <1>w DEF Counters
    <2> QED BY <2>1, IbFields DEF IsIb, SameReader
  <1>15. Counters(c)
    BY <1>13, <1>14, <1>d DEF Counters, SameReader
  <1>16. AtInp(c, z) = AtInp(d, z)
    BY <1>14 DEF AtInp, Pending, Extra
  <1>17. AtOut(c, bytes, m, g[0])
    BY <1>2, <1>13, <1>14, <1>d, SameReaderAtOut
  <1>18. Agree(c, bytes, m, l)
    BY <1>12, <1>13, <1>16, <1>17, <1>d, <1>z DEF Agree
  <1> QED BY <1>13, <1>14, <1>15, <1>18, <1>d, <1>l, <1>u

\* c has the writer's side of b, and its messages.
SameWriter(b, c) ==
    /\ Counters(c)
    /\ c.inp_esc = b.inp_esc /\ c.inp_size_mode = b.inp_size_mode /\ c.inp_data_size = b.inp_data_size
    /\ c.eof = b.eof /\ c.long_msg = b.long_msg /\ c.message_count = b.message_count
    /\ c.handling_msg = b.handling_msg

LEMMA KeptAgrees ==
    ASSUME NEW b, NEW c, NEW bytes, NEW m, NEW u, Agree(b, bytes, m, u),
           c.inp_esc = b.inp_esc, c.inp_size_mode = b.inp_size_mode, c.inp_data_size = b.inp_data_size,
           Pending(c) = Pending(b),
           \A p : AtOut(b, bytes, m, p) => AtOut(c, bytes, m, p)
    PROVE  Agree(c, bytes, m, u)
  <1>1. PICK tr : Trace(tr, bytes, m, u) /\ AtOut(b, bytes, m, tr[0]) /\ tr[u] = AtInp(b, tr[0].cnt)
    BY DEF Agree
  <1>2. AtInp(c, tr[0].cnt) = AtInp(b, tr[0].cnt)
    BY DEF AtInp
  <1> QED BY <1>1, <1>2 DEF Agree

\* The stretch from cur to end has moved.
LEMMA MovedAgrees ==
    ASSUME NEW b, NEW c, NEW bytes, NEW m, NEW u, Agree(b, bytes, m, u), SameWriter(b, c),
           c.out_esc = b.out_esc, c.out_size_mode = b.out_size_mode, c.out_data_size = b.out_data_size,
           c.end - c.cur = b.end - b.cur, c.cur < c.end => b.cur < b.end
    PROVE  Agree(c, bytes, m, u)
  <1>1. Pending(c) = Pending(b)
    BY DEF Pending, Extra, SameWriter
  <1>2. \A p : AtOut(b, bytes, m, p) => AtOut(c, bytes, m, p)
    BY DEF AtOut
  <1> QED BY <1>1, <1>2, KeptAgrees DEF SameWriter

LEMMA WrapAgrees ==
    ASSUME NEW b, RingOK(b), Counters(b), NEW c, c = Wrap(b),
           NEW bytes, NEW m, NEW u, Agree(b, bytes, m, u)
    PROVE  SameWriter(b, c) /\ Agree(c, bytes, m, u)
  <1>1. CASE c = b
    BY <1>1 DEF SameWriter
  <1>2. CASE c # b
    <2>1. b.cur = b.size /\ c = [b EXCEPT !.cur = 0, !.end = 0]
      BY <1>2 DEF Wrap
    <2>2. /\ IsIb(c) /\ c.cur = 0 /\ c.end = 0
          /\ c.out_esc = b.out_esc /\ c.out_size_mode = b.out_size_mode /\ c.out_data_size = b.out_data_size
          /\ c.eof = b.eof /\ c.long_msg = b.long_msg
          /\ c.message_count = b.message_count /\ c.handling_msg = b.handling_msg
          /\ c.inp_esc = b.inp_esc /\ c.inp_size_mode = b.inp_size_mode
          /\ c.inp_data_size = b.inp_data_size
      BY <2>1, IbFields DEF Counters, IsIb
    <2>3. SameWriter(b, c)
      BY <2>2 DEF SameWriter, Counters
    <2>4. b.end = b.size /\ b.size \in Nat
      BY <2>1 DEF RingOK
    <2>5. c.end - c.cur = b.end - b.cur /\ ~(c.cur < c.end)
      BY <2>1, <2>2, <2>4
    <2> QED BY <2>2, <2>3, <2>5, MovedAgrees
  <1> QED BY <1>1, <1>2

LEMMA GrowAgrees ==
    ASSUME NEW b, RingOK(b), Counters(b), NEW c, c = Grow(b),
           NEW bytes, NEW m, NEW u, Agree(b, bytes, m, u)
    PROVE  SameWriter(b, c) /\ Agree(c, bytes, m, u)
  <1>1. CASE c = b
    BY <1>1 DEF SameWriter
  <1>2. CASE c # b
    <2>f. PICK f : f = [i \in 0..(2 * b.size - 1) |->
                               IF i < b.size THEN b.buf[(b.cur + i) % b.size] ELSE 0]
      OBVIOUS
    <2>e. PICK e : e = b.end - b.cur
      OBVIOUS
    <2>s. PICK s : s = 2 * b.size
      OBVIOUS
    <2>i. PICK i : i = b.size - 1
      OBVIOUS
    <2>1. c = [b EXCEPT !.size = s, !.inp = i, !.cur = 0, !.end = e, !.buf = f]
      BY <1>2, <2>f, <2>e, <2>s, <2>i DEF Grow
    <2>2. /\ IsIb(c) /\ c.cur = 0 /\ c.end = e
          /\ c.out_esc = b.out_esc /\ c.out_size_mode = b.out_size_mode /\ c.out_data_size = b.out_data_size
          /\ c.eof = b.eof /\ c.long_msg = b.long_msg
          /\ c.message_count = b.message_count /\ c.handling_msg = b.handling_msg
          /\ c.inp_esc = b.inp_esc /\ c.inp_size_mode = b.inp_size_mode
          /\ c.inp_data_size = b.inp_data_size
      BY <2>1, IbFields DEF Counters, IsIb
    <2>3. SameWriter(b, c)
      BY <2>2 DEF SameWriter, Counters
    <2>4. b.end \in Nat /\ b.cur \in Nat
      BY RingNumbers
    <2>5. c.end - c.cur = b.end - b.cur /\ (c.cur < c.end => b.cur < b.end)
      BY <2>2, <2>4, <2>e
    <2> QED BY <2>2, <2>3, <2>5, MovedAgrees
  <1> QED BY <1>1, <1>2

\* More ends of messages have been met at inp than at the next byte to read.
LEMMA PendingNat ==
    ASSUME NEW b, Counters(b), NEW bytes, NEW m, NEW u \in Nat, Agree(b, bytes, m, u)
    PROVE  Pending(b) >= 0
  <1>1. PICK tr : Trace(tr, bytes, m, u) /\ AtOut(b, bytes, m, tr[0]) /\ tr[u] = AtInp(b, tr[0].cnt)
    BY DEF Agree
  <1>z. PICK z : z = tr[0].cnt
    OBVIOUS
  <1>2. z \in Int
    BY <1>1, <1>z DEF Trace, ParseState
  <1>3. tr[u].cnt >= z
    BY <1>1, <1>z, TraceCounts
  <1>4. tr[u].cnt = z + Pending(b)
    BY <1>1, <1>2, <1>z, AtInpType
  <1> QED BY <1>2, <1>3, <1>4, PendingInt

\* ibuf_read_done(): the message that fills the buffer is counted before its end.
LEMMA ReadIntoAgrees ==
    ASSUME NEW b, RingOK(b), Counters(b), NEW bytes, NEW m \in Nat, NEW len \in Nat,
           b.inp + len <= b.size, Used(b) + len < b.size, Stored(b, Used(b) + len, m),
           Agree(b, bytes, m, Used(b)), NEW c, c = ReadInto(b, bytes, len)
    PROVE  /\ Counters(c) /\ Agree(c, bytes, m, Used(b) + len)
           /\ b.handling_msg = "Active" => c.handling_msg = "Active"
  <1>u. PICK u : u = Used(b) + len
    OBVIOUS
  <1>0. u \in Nat
    BY <1>u, RingNumbers
  <1>1. CASE len = 0
    <2>1. c = Eof(b)
      BY <1>1 DEF ReadInto
    <2>2. /\ Counters(c) /\ SameReader(b, c)
          /\ c.inp_esc = b.inp_esc /\ c.inp_size_mode = b.inp_size_mode
          /\ c.inp_data_size = b.inp_data_size /\ Pending(c) = Pending(b)
          /\ b.handling_msg = "Active" => c.handling_msg = "Active"
      BY <2>1, EofFields
    <2>3. Used(b) + len = Used(b)
      BY <1>1, RingNumbers
    <2>4. Agree(c, bytes, m, Used(b))
      BY <2>2, KeptAgrees, SameReaderAtOut
    <2> QED BY <2>2, <2>3, <2>4
  <1>2. CASE len # 0
    <2>d. PICK d : d = Scan(b, bytes, len)
      OBVIOUS
    <2>w. PICK w : w = Wrap(d)
      OBVIOUS
    <2>g. PICK g : g = Grow(w)
      OBVIOUS
    <2>h. PICK h : h = Wrap(g)
      OBVIOUS
    <2>1. RingOK(d) /\ Used(d) = u /\ Stored(d, u, m)
      <3>1. SameRing([b EXCEPT !.inp = (b.inp + len) % b.size], d)
        BY <2>d, ScanRing DEF RingOK
      <3> QED BY <1>2, <1>u, <3>1, ReceivedRing
    <2>2. RingOK(w) /\ Used(w) = u /\ Stored(w, u, m) /\ (w.eof \/ w.cur # w.size)
      BY <2>1, <2>w, WrapRing
    <2>3. RingOK(g)
      BY <2>2, <2>g, GrowRing
    <2>4. /\ Counters(d) /\ Agree(d, bytes, m, u)
          /\ b.handling_msg = "Active" => d.handling_msg = "Active"
      BY <1>u, <2>d, ScanAgrees
    <2>5. SameWriter(d, w) /\ Agree(w, bytes, m, u)
      BY <2>1, <2>4, <2>w, WrapAgrees
    <2>6. SameWriter(w, g) /\ Agree(g, bytes, m, u)
      BY <2>2, <2>5, <2>g, GrowAgrees DEF SameWriter
    <2>7. SameWriter(g, h) /\ Agree(h, bytes, m, u)
      BY <2>3, <2>6, <2>h, WrapAgrees DEF SameWriter
    <2>8. Counters(h) /\ (b.handling_msg = "Active" => h.handling_msg = "Active")
      BY <2>4, <2>5, <2>6, <2>7 DEF SameWriter
    <2>9. c = IF FreeSize(h) = 0 /\ h.message_count = 0
                THEN NewMessage([h EXCEPT !.long_msg = TRUE]) ELSE h
      <3>1. {IF FreeSize(x) = 0 /\ x.message_count = 0
                THEN NewMessage([x EXCEPT !.long_msg = TRUE])
                ELSE x : x \in {Wrap(Grow(y)) : y \in {Wrap(Scan(b, bytes, len))}}}
            = {IF FreeSize(h) = 0 /\ h.message_count = 0
                 THEN NewMessage([h EXCEPT !.long_msg = TRUE]) ELSE h}
        BY <2>d, <2>w, <2>g, <2>h, Zenon
      <3> QED BY <1>2, <3>1, TheOne, Zenon DEF ReadInto
    <2>10. CASE c = h
      BY <1>u, <2>7, <2>8, <2>10
    <2>11. CASE c # h
      <3>e. PICK e : e = [h EXCEPT !.long_msg = TRUE]
        OBVIOUS
      <3>1. h.message_count = 0 /\ c = NewMessage(e)
        BY <2>9, <2>11, <3>e
      <3>2. h.long_msg = FALSE /\ Pending(h) = 0
        <4>1. Pending(h) >= 0
          BY <1>0, <2>7, <2>8, PendingNat
        <4>2. ~h.long_msg /\ Pending(h) = 0
          BY <2>8, <3>1, <4>1 DEF Pending, Extra, Counters
        <4>3. h.long_msg = FALSE
          BY <2>8, <4>2, Zenon DEF Counters
        <4> QED BY <4>2, <4>3
      <3>3. /\ IsIb(e) /\ SameReader(h, e)
            /\ e.inp_esc = h.inp_esc /\ e.inp_size_mode = h.inp_size_mode
            /\ e.inp_data_size = h.inp_data_size /\ e.message_count = h.message_count
            /\ e.eof = h.eof /\ e.handling_msg = h.handling_msg /\ e.long_msg = TRUE
        BY <2>8, <3>e, IbFields DEF Counters, IsIb, SameReader
      <3>4. Counters(e)
        BY <2>8, <3>3 DEF Counters, SameReader
      <3>5. /\ Counters(c) /\ SameReader(e, c)
            /\ c.inp_esc = e.inp_esc /\ c.inp_size_mode = e.inp_size_mode
            /\ c.inp_data_size = e.inp_data_size
            /\ c.message_count = e.message_count + 1 /\ c.eof = e.eof /\ c.long_msg = e.long_msg
            /\ e.handling_msg = "Active" => c.handling_msg = "Active"
        BY <3>1, <3>4, NewMessageFields
      <3>6. Pending(c) = Pending(h)
        BY <2>8, <3>2, <3>3, <3>5 DEF Pending, Extra, Counters
      <3>7. SameReader(h, c)
        BY <3>3, <3>5 DEF SameReader
      <3>8. Agree(c, bytes, m, u)
        BY <2>7, <3>3, <3>5, <3>6, <3>7, KeptAgrees, SameReaderAtOut
      <3> QED BY <1>u, <2>8, <3>3, <3>5, <3>8
    <2> QED BY <2>10, <2>11
  <1> QED BY <1>1, <1>2

-----------------------------------------------------------------------------
(***************************************************************************)
(* ibuf_get_more()                                                         *)
(***************************************************************************)

\* A byte is read: the parser at the next byte to read takes a step, and an end of message
\* that it meets is not pending any more.
LEMMA DroppedAgrees ==
    ASSUME NEW b, Counters(b), NEW c, Counters(c), NEW bytes, NEW m \in Nat, NEW u \in Nat, u > 0,
           Agree(b, bytes, m, u),
           c.inp_esc = b.inp_esc, c.inp_size_mode = b.inp_size_mode, c.inp_data_size = b.inp_data_size,
           \A p \in ParseState : AtOut(b, bytes, m, p) =>
               /\ AtOut(c, bytes, m + 1, ParseStep(p, bytes[m + 1]))
               /\ ParseStep(p, bytes[m + 1]).cnt + Pending(c) = p.cnt + Pending(b)
    PROVE  Agree(c, bytes, m + 1, u - 1)
  <1>1. PICK tr : Trace(tr, bytes, m, u) /\ AtOut(b, bytes, m, tr[0]) /\ tr[u] = AtInp(b, tr[0].cnt)
    BY DEF Agree
  <1>g. PICK g : g = [k \in 0..(u - 1) |-> tr[k + 1]]
    OBVIOUS
  <1>2. \A k \in 0..(u - 1) : g[k] = tr[k + 1] /\ k + 1 \in 0..u
    BY <1>g
  <1>3. tr[0] \in ParseState /\ tr[1] = ParseStep(tr[0], bytes[m + 1]) /\ g[0] = tr[1] /\ g[u - 1] = tr[u]
    <2>1. 0 \in 0..u /\ 0 \in 0..(u - 1) /\ 0 + 1 = 1 /\ m + 0 + 1 = m + 1 /\ u - 1 \in 0..(u - 1)
          /\ (u - 1) + 1 = u
      OBVIOUS
    <2>2. tr[0] \in ParseState
      BY <1>1, <2>1 DEF Trace
    <2>3. tr[0 + 1] = ParseStep(tr[0], bytes[m + 0 + 1])
      BY <1>1, <2>1 DEF Trace
    <2>4. g[0] = tr[0 + 1] /\ g[u - 1] = tr[(u - 1) + 1]
      BY <1>2, <2>1
    <2> QED BY <2>1, <2>2, <2>3, <2>4
  <1>4. Trace(g, bytes, m + 1, u - 1)
    <2>1. \A k \in 0..(u - 1) : g[k] \in ParseState
      BY <1>1, <1>2 DEF Trace
    <2>2. ASSUME NEW k \in 0..((u - 1) - 1) PROVE g[k + 1] = ParseStep(g[k], bytes[(m + 1) + k + 1])
      <3>1. k \in 0..(u - 1) /\ k + 1 \in 0..(u - 1) /\ m + (k + 1) + 1 = (m + 1) + k + 1
        OBVIOUS
      <3>2. tr[(k + 1) + 1] = ParseStep(tr[k + 1], bytes[m + (k + 1) + 1])
        BY <1>1, <3>1 DEF Trace
      <3> QED BY <1>2, <3>1, <3>2
    <2> QED BY <2>1, <2>2 DEF Trace
  <1>5. /\ AtOut(c, bytes, m + 1, g[0]) /\ g[0].cnt + Pending(c) = tr[0].cnt + Pending(b)
    BY <1>1, <1>3
  <1>6. AtInp(c, g[0].cnt) = AtInp(b, tr[0].cnt)
    BY <1>5 DEF AtInp
  <1> QED BY <1>1, <1>3, <1>4, <1>5, <1>6 DEF Agree

\* Nothing is looked ahead at: the parser's state is the one of ibuf_get_more().
LEMMA AtOutHere ==
    ASSUME NEW b, Counters(b), b.cur \in Nat, b.end = b.cur, NEW bytes, NEW m, NEW p
    PROVE  /\ AtOut(b, bytes, m, p) /\ p \in ParseState =>
                p.esc = b.out_esc /\ p.size = b.out_size_mode /\ p.left = b.out_data_size
           /\ p.esc = b.out_esc /\ p.size = b.out_size_mode /\ p.left = b.out_data_size =>
                AtOut(b, bytes, m, p)
           /\ AtOut(b, bytes, m, p) => /\ p.esc <=> b.out_esc
                                       /\ p.size <=> b.out_size_mode
                                       /\ p.left = b.out_data_size
  <1>1. b.end - b.cur = 0 /\ ~(b.cur < b.end) /\ b.out_data_size + 0 = b.out_data_size
    BY DEF Counters
  <1>2. AtOut(b, bytes, m, p) => /\ p.esc <=> b.out_esc
                                 /\ p.size <=> b.out_size_mode
                                 /\ p.left = b.out_data_size
    BY <1>1 DEF AtOut
  <1>3. p.esc = b.out_esc /\ p.size = b.out_size_mode /\ p.left = b.out_data_size =>
                AtOut(b, bytes, m, p)
    BY <1>1 DEF AtOut
  <1>4. ASSUME AtOut(b, bytes, m, p), p \in ParseState
        PROVE  p.esc = b.out_esc /\ p.size = b.out_size_mode /\ p.left = b.out_data_size
    <2>1. p.esc \in BOOLEAN /\ p.size \in BOOLEAN /\ b.out_esc \in BOOLEAN /\ b.out_size_mode \in BOOLEAN
      BY <1>4 DEF ParseState, Counters
    <2>2. p.esc = b.out_esc /\ p.size = b.out_size_mode
      BY <1>2, <1>4, <2>1, Zenon
    <2> QED BY <1>2, <1>4, <2>2
  <1> QED BY <1>2, <1>3, <1>4

SameMessages(b, c) ==
    /\ IsIb(c)
    /\ c.inp_esc = b.inp_esc /\ c.inp_size_mode = b.inp_size_mode /\ c.inp_data_size = b.inp_data_size
    /\ c.eof = b.eof /\ c.long_msg = b.long_msg /\ c.message_count = b.message_count
    /\ c.handling_msg = b.handling_msg

LEMMA SameMessagesWriter ==
    ASSUME NEW b, Counters(b), NEW c, SameMessages(b, c),
           c.out_esc \in BOOLEAN, c.out_size_mode \in BOOLEAN, c.out_data_size \in Nat
    PROVE  SameWriter(b, c) /\ Pending(c) = Pending(b)
  <1>1. Counters(c)
    BY DEF SameMessages, Counters
  <1>2. Pending(c) = Pending(b)
    BY DEF SameMessages, Pending, Extra
  <1> QED BY <1>1, <1>2 DEF SameMessages, SameWriter

\* What a turn of the loop does to the agreement of the parsers.
Turned(b, c, bytes, m, u) ==
    /\ Counters(c)
    /\ \/ c.cur = Out(b) /\ Agree(c, bytes, m, u)
       \/ c.cur = Out(b) + 1 /\ Agree(c, bytes, m + 1, u - 1)

LEMMA TurnAgrees ==
    ASSUME NEW b, RingOK(b), Counters(b), Out(b) # b.inp, b.end = b.cur, b.handling_msg = "Active",
           NEW bytes, NEW m \in Nat, NEW u, u = Used(b), Stored(b, u, m), Agree(b, bytes, m, u),
           NEW peeking \in BOOLEAN, NEW t, t = Turn(b, bytes, peeking)
    PROVE  /\ Turned(b, t[2], bytes, m, u)
           /\ t[2].handling_msg = "Active" \/ (t[1] = "EOM" /\ ~peeking)
  <1>o. PICK o : o = Out(b)
    OBVIOUS
  <1>h. PICK ch : ch = bytes[b.buf[o]]
    OBVIOUS
  <1>s. PICK step : step = IF peeking THEN 0 ELSE 1
    OBVIOUS
  <1>m. PICK max : max = Stretch(b, o)
    OBVIOUS
  <1>1. /\ o \in Nat /\ max \in Nat /\ o + 1 <= max /\ step \in {0, 1} /\ o < b.size
        /\ b.out_data_size \in Nat /\ IsIb(b) /\ u \in Nat /\ u > 0 /\ b.size \in Nat /\ b.cur \in Nat
        /\ max - o <= u /\ max <= b.size
    <2>1. /\ o \in Nat /\ o < b.size /\ u \in Nat /\ b.size \in Nat /\ b.inp \in Nat /\ b.inp < b.size
          /\ u # 0 /\ b.cur \in Nat
      BY <1>o, RingNumbers
    <2>2. u = IF o <= b.inp THEN b.inp - o ELSE b.inp + b.size - o
      BY <1>o DEF Used
    <2>3. max = IF o + 1 <= b.inp THEN b.inp ELSE b.size
      BY <1>m DEF Stretch
    <2>4. max \in Nat /\ o + 1 <= max /\ max - o <= u /\ max <= b.size
      BY <1>o, <2>1, <2>2, <2>3
    <2> QED BY <1>s, <2>1, <2>4 DEF RingOK
  <1>2. \A k \in 0..(u - 1) : o + k < b.size => b.buf[o + k] = m + k + 1
    BY <1>o DEF Stored, Slot
  <1>3. ch = bytes[m + 1]
    <2>1. 0 \in 0..(u - 1) /\ o + 0 = o /\ m + 0 + 1 = m + 1
      BY <1>1
    <2>2. b.buf[o + 0] = m + 0 + 1
      BY <1>1, <1>2, <2>1
    <2> QED BY <1>h, <2>1, <2>2
  <1>4. \A p \in ParseState : AtOut(b, bytes, m, p) =>
          p.esc = b.out_esc /\ p.size = b.out_size_mode /\ p.left = b.out_data_size
    BY <1>1, AtOutHere
  <1>5. CASE b.out_size_mode
    <2>c. PICK c : c = [[b EXCEPT !.out_size_mode = FALSE, !.out_data_size = SizeOf(ch)]
                          EXCEPT !.cur = o + 1, !.end = o + 1]
      OBVIOUS
    <2>1. t = <<"turn", c>>
      BY <1>5, <1>o, <1>h, <2>c DEF Turn
    <2>2. /\ SameMessages(b, c) /\ c.out_esc = b.out_esc /\ c.out_size_mode = FALSE
          /\ c.out_data_size = SizeOf(ch) /\ c.cur = o + 1 /\ c.end = o + 1
      BY <1>1, <2>c, IbFields DEF IsIb, SameMessages
    <2>3. SameWriter(b, c) /\ Pending(c) = Pending(b)
      <3>1. c.out_esc \in BOOLEAN /\ c.out_size_mode \in BOOLEAN
        BY <2>2, Zenon DEF Counters
      <3> QED BY <2>2, <3>1, SizeOfNat, SameMessagesWriter
    <2>4. ASSUME NEW p \in ParseState, AtOut(b, bytes, m, p)
          PROVE  /\ AtOut(c, bytes, m + 1, ParseStep(p, bytes[m + 1]))
                 /\ ParseStep(p, bytes[m + 1]).cnt + Pending(c) = p.cnt + Pending(b)
      <3>q. PICK q : q = ParseStep(p, bytes[m + 1])
        OBVIOUS
      <3>1. p.esc = b.out_esc /\ p.size = b.out_size_mode /\ p.left = b.out_data_size
        BY <1>4, <2>4
      <3>2. q.esc = b.out_esc /\ q.size = FALSE /\ q.left = SizeOf(ch) /\ q.cnt = p.cnt
        <4>a. q = ParseStep(p, ch)
          BY <1>3, <3>q
        <4>b. p.size
          BY <1>5, <3>1
        <4>c. q.esc = p.esc /\ q.size = FALSE /\ q.left = SizeOf(ch) /\ q.cnt = p.cnt
          BY <4>a, <4>b, ParseSize, Zenon
        <4> QED BY <3>1, <4>c
      <3>3. AtOut(c, bytes, m + 1, q)
        <4>1. q.esc = c.out_esc /\ q.size = c.out_size_mode /\ q.left = c.out_data_size
          BY <2>2, <3>2, Zenon
        <4>2. c.cur \in Nat /\ c.end = c.cur
          BY <1>1, <2>2
        <4> QED BY <2>3, <4>1, <4>2, AtOutHere DEF SameWriter
      <3> QED BY <2>3, <3>2, <3>3, <3>q
    <2>5. Agree(c, bytes, m + 1, u - 1)
      BY <1>1, <2>3, <2>4, DroppedAgrees DEF SameWriter
    <2> QED BY <1>o, <2>1, <2>2, <2>3, <2>5 DEF Turned, SameWriter
  <1>6. CASE ~b.out_size_mode /\ b.out_data_size > 0
    <2>n. PICK n : n = IF max - o < b.out_data_size THEN max - o ELSE b.out_data_size
      OBVIOUS
    <2>l. PICK l : l = b.out_data_size - n
      OBVIOUS
    <2>c. PICK c : c = [b EXCEPT !.out_data_size = @ - n, !.cur = o + step, !.end = o + n]
      OBVIOUS
    <2>1. t = <<"data", c>>
      BY <1>6, <1>o, <1>m, <1>s, <2>n, <2>c DEF Turn
    <2>2. n \in Nat /\ n >= 1 /\ n <= max - o /\ n <= b.out_data_size /\ l \in Nat
      BY <1>1, <1>6, <2>n, <2>l
    <2>3. /\ SameMessages(b, c) /\ c.out_esc = b.out_esc /\ c.out_size_mode = b.out_size_mode
          /\ c.out_data_size = l /\ c.cur = o + step /\ c.end = o + n
      BY <1>1, <2>c, <2>l, IbFields DEF IsIb, SameMessages
    <2>4. SameWriter(b, c) /\ Pending(c) = Pending(b)
      BY <2>2, <2>3, SameMessagesWriter DEF Counters
    <2>5. CASE peeking
      <3>1. c.cur = o /\ c.end - c.cur = n
        BY <1>1, <1>s, <2>2, <2>3, <2>5
      <3>2. ASSUME NEW p, AtOut(b, bytes, m, p) PROVE AtOut(c, bytes, m, p)
        <4>1. b.end - b.cur = 0
          BY <1>1
        <4>2. p.esc = b.out_esc /\ p.size = b.out_size_mode /\ p.left = b.out_data_size
          BY <1>1, <1>6, <3>2, <4>1 DEF AtOut
        <4>3. l + n = b.out_data_size
          BY <1>1, <2>2, <2>l
        <4> QED BY <1>6, <2>3, <3>1, <4>2, <4>3 DEF AtOut
      <3>3. Agree(c, bytes, m, u)
        BY <2>3, <2>4, <3>2, KeptAgrees DEF SameMessages
      <3> QED BY <1>o, <2>1, <2>3, <2>4, <3>1, <3>3 DEF Turned, SameWriter
    <2>6. CASE ~peeking
      <3>1. c.cur = o + 1 /\ c.end - c.cur = n - 1
        BY <1>1, <1>s, <2>2, <2>3, <2>6
      <3>2. ASSUME NEW p \in ParseState, AtOut(b, bytes, m, p)
            PROVE  /\ AtOut(c, bytes, m + 1, ParseStep(p, bytes[m + 1]))
                   /\ ParseStep(p, bytes[m + 1]).cnt + Pending(c) = p.cnt + Pending(b)
        <4>q. PICK q : q = ParseStep(p, bytes[m + 1])
          OBVIOUS
        <4>1. p.esc = b.out_esc /\ p.size = b.out_size_mode /\ p.left = b.out_data_size
          BY <1>4, <3>2
        <4>2. /\ q.esc = b.out_esc /\ q.size = b.out_size_mode
              /\ q.left = b.out_data_size - 1 /\ q.cnt = p.cnt
          <5>a. q = ParseStep(p, ch)
            BY <1>3, <4>q
          <5>b. ~p.size /\ p.left > 0
            BY <1>6, <4>1
          <5>c. q.esc = p.esc /\ q.size = p.size /\ q.left = p.left - 1 /\ q.cnt = p.cnt
            BY <5>a, <5>b, ParseData, Zenon
          <5> QED BY <4>1, <5>c
        <4>3. b.out_data_size - 1 = l + (n - 1)
          BY <1>1, <2>2, <2>l
        <4>4. AtOut(c, bytes, m + 1, q)
          BY <1>6, <2>3, <3>1, <4>2, <4>3 DEF AtOut
        <4> QED BY <2>4, <4>2, <4>4, <4>q
      <3>3. Agree(c, bytes, m + 1, u - 1)
        BY <1>1, <2>4, <3>2, DroppedAgrees DEF SameWriter
      <3> QED BY <1>o, <2>1, <2>3, <2>4, <3>1, <3>3 DEF Turned, SameWriter
    <2> QED BY <2>5, <2>6
  <1>7. CASE ~b.out_size_mode /\ ~(b.out_data_size > 0) /\ b.out_esc /\ ch = "3"
    <2>c. PICK c : c = [[b EXCEPT !.out_size_mode = TRUE, !.out_data_size = 0, !.out_esc = FALSE]
                          EXCEPT !.cur = o + 1, !.end = o + 1]
      OBVIOUS
    <2>1. t = <<"turn", c>>
      BY <1>7, <1>o, <1>h, <2>c DEF Turn
    <2>2. /\ SameMessages(b, c) /\ c.out_esc = FALSE /\ c.out_size_mode = TRUE
          /\ c.out_data_size = 0 /\ c.cur = o + 1 /\ c.end = o + 1
      BY <1>1, <2>c, IbFields DEF IsIb, SameMessages
    <2>3. SameWriter(b, c) /\ Pending(c) = Pending(b)
      <3>1. c.out_esc \in BOOLEAN /\ c.out_size_mode \in BOOLEAN
        BY <2>2, Zenon
      <3> QED BY <2>2, <3>1, SameMessagesWriter
    <2>4. ASSUME NEW p \in ParseState, AtOut(b, bytes, m, p)
          PROVE  /\ AtOut(c, bytes, m + 1, ParseStep(p, bytes[m + 1]))
                 /\ ParseStep(p, bytes[m + 1]).cnt + Pending(c) = p.cnt + Pending(b)
      <3>q. PICK q : q = ParseStep(p, bytes[m + 1])
        OBVIOUS
      <3>1. p.esc = b.out_esc /\ p.size = b.out_size_mode /\ p.left = b.out_data_size
        BY <1>4, <2>4
      <3>2. /\ q.esc = FALSE /\ q.size = TRUE /\ q.left = 0 /\ q.cnt = p.cnt
        <4>1. /\ q.esc = FALSE /\ q.size = (ch = "3") /\ q.left = 0
              /\ q.cnt = p.cnt + Ends(ch)
          <5>a. q = ParseStep(p, ch)
            BY <1>3, <3>q
          <5>b. ~p.size /\ ~(p.left > 0) /\ p.esc
            BY <1>7, <3>1
          <5> QED BY <5>a, <5>b, ParseCode, ZenonT(40)
        <4>2. p.cnt + Ends(ch) = p.cnt
          BY <1>7 DEF ParseState, Ends
        <4>3. q.size = TRUE
          BY <1>7, <4>1, Zenon
        <4> QED BY <4>1, <4>2, <4>3
      <3>3. AtOut(c, bytes, m + 1, q)
        <4>1. q.esc = c.out_esc /\ q.size = c.out_size_mode /\ q.left = c.out_data_size
          BY <2>2, <3>2, Zenon
        <4>2. c.cur \in Nat /\ c.end = c.cur
          BY <1>1, <2>2
        <4> QED BY <2>3, <4>1, <4>2, AtOutHere DEF SameWriter
      <3> QED BY <2>3, <3>2, <3>3, <3>q
    <2>5. Agree(c, bytes, m + 1, u - 1)
      BY <1>1, <2>3, <2>4, DroppedAgrees DEF SameWriter
    <2> QED BY <1>o, <2>1, <2>2, <2>3, <2>5 DEF Turned, SameWriter
  <1>8. CASE ~b.out_size_mode /\ ~(b.out_data_size > 0) /\ b.out_esc /\ ch # "3" /\ peeking
    <2>c. PICK c : c = [[b EXCEPT !.out_esc = peeking] EXCEPT !.cur = o + step, !.end = o + step]
      OBVIOUS
    <2>1. t[2] = c
      <3>1. t = <<IF ch = "0" THEN "data" ELSE IF ch = "1" THEN "EOM" ELSE "EOS", c>>
        BY <1>8, <1>o, <1>h, <1>s, <2>c DEF Turn
      <3> QED BY <3>1
    <2>2. o + step = o
      BY <1>1, <1>8, <1>s
    <2>3. /\ SameMessages(b, c) /\ c.out_esc = peeking /\ c.out_size_mode = b.out_size_mode
          /\ c.out_data_size = b.out_data_size /\ c.cur = o /\ c.end = o
      BY <1>1, <2>2, <2>c, IbFields DEF IsIb, SameMessages
    <2>4. SameWriter(b, c) /\ Pending(c) = Pending(b)
      BY <1>1, <2>3, SameMessagesWriter DEF Counters
    <2>5. c.out_esc = b.out_esc
      BY <1>8, <2>3, Zenon DEF Counters
    <2>6. c.end - c.cur = b.end - b.cur /\ ~(c.cur < c.end)
      BY <1>1, <2>3
    <2>7. Agree(c, bytes, m, u)
      BY <2>3, <2>4, <2>5, <2>6, MovedAgrees
    <2> QED BY <1>o, <2>1, <2>3, <2>4, <2>7 DEF Turned, SameWriter, SameMessages
  <1>9. CASE ~b.out_size_mode /\ ~(b.out_data_size > 0) /\ b.out_esc /\ ch # "3" /\ ~peeking
    <2>d. PICK d : d = IF ch = "1" THEN EndOfMessage(b) ELSE b
      OBVIOUS
    <2>c. PICK c : c = [[d EXCEPT !.out_esc = peeking] EXCEPT !.cur = o + step, !.end = o + step]
      OBVIOUS
    <2>1. t = <<IF ch = "0" THEN "data" ELSE IF ch = "1" THEN "EOM" ELSE "EOS", c>>
      BY <1>9, <1>o, <1>h, <1>s, <2>d, <2>c DEF Turn
    <2>2. o + step = o + 1 /\ b.out_data_size = 0 /\ b.out_size_mode = FALSE /\ peeking = FALSE
      <3>1. o + step = o + 1 /\ b.out_data_size = 0
        BY <1>1, <1>9, <1>s
      <3>2. b.out_size_mode = FALSE /\ peeking = FALSE
        BY <1>9, Zenon DEF Counters
      <3> QED BY <3>1, <3>2
    <2>x. PICK x : x = Ends(ch)
      OBVIOUS
    <2>y. x = IF ch = "1" THEN 1 ELSE 0
      BY <2>x DEF Ends
    <2>3. /\ IsIb(d) /\ d.inp_esc = b.inp_esc /\ d.inp_size_mode = b.inp_size_mode
          /\ d.inp_data_size = b.inp_data_size /\ d.eof = b.eof /\ d.long_msg = b.long_msg
          /\ d.out_size_mode = b.out_size_mode /\ d.out_data_size = b.out_data_size
          /\ d.message_count = b.message_count - x
          /\ d.handling_msg = IF ch = "1" THEN (IF b.message_count > 1 THEN "Triggered" ELSE "Idle")
                              ELSE b.handling_msg
      <3>1. CASE ch = "1"
        BY <1>1, <2>d, <2>y, <3>1, IbFields DEF EndOfMessage, IsIb
      <3>2. CASE ch # "1"
        <4>1. b.message_count - 0 = b.message_count
          BY DEF Counters
        <4> QED BY <1>1, <2>d, <2>y, <3>2, <4>1
      <3> QED BY <3>1, <3>2
    <2>4. /\ IsIb(c) /\ c.inp_esc = b.inp_esc /\ c.inp_size_mode = b.inp_size_mode
          /\ c.inp_data_size = b.inp_data_size /\ c.eof = b.eof /\ c.long_msg = b.long_msg
          /\ c.out_esc = FALSE /\ c.out_size_mode = FALSE /\ c.out_data_size = 0
          /\ c.message_count = b.message_count - x /\ c.handling_msg = d.handling_msg
          /\ c.cur = o + 1 /\ c.end = o + 1
      <3>1. /\ IsIb(c) /\ c.inp_esc = d.inp_esc /\ c.inp_size_mode = d.inp_size_mode
            /\ c.inp_data_size = d.inp_data_size /\ c.eof = d.eof /\ c.long_msg = d.long_msg
            /\ c.out_esc = peeking /\ c.out_size_mode = d.out_size_mode
            /\ c.out_data_size = d.out_data_size
            /\ c.message_count = d.message_count /\ c.handling_msg = d.handling_msg
            /\ c.cur = o + 1 /\ c.end = o + 1
        BY <2>2, <2>3, <2>c, IbFields DEF IsIb
      <3> QED BY <2>2, <2>3, <3>1
    <2>5. Counters(c) /\ Pending(c) = Pending(b) - x
      <3>1. b.message_count \in Nat /\ b.message_count # 0
        BY DEF Counters
      <3>2. /\ c.message_count \in Nat /\ c.handling_msg \in {"Idle", "Triggered", "Active"}
            /\ c.handling_msg = "Idle" <=> c.message_count = 0
        BY <2>3, <2>4, <2>y, <3>1
      <3>3. c.out_esc \in BOOLEAN /\ c.out_size_mode \in BOOLEAN
        BY <2>4, Zenon
      <3>4. Counters(c)
        BY <2>4, <3>2, <3>3 DEF Counters
      <3>5. Extra(c) = Extra(b) /\ Extra(b) \in Nat
        BY <2>4, PendingInt DEF Extra
      <3>6. Pending(c) = Pending(b) - x
        BY <2>4, <2>y, <3>1, <3>5 DEF Pending
      <3> QED BY <3>4, <3>6
    <2>6. ASSUME NEW p \in ParseState, AtOut(b, bytes, m, p)
          PROVE  /\ AtOut(c, bytes, m + 1, ParseStep(p, bytes[m + 1]))
                 /\ ParseStep(p, bytes[m + 1]).cnt + Pending(c) = p.cnt + Pending(b)
      <3>q. PICK q : q = ParseStep(p, bytes[m + 1])
        OBVIOUS
      <3>1. p.esc = b.out_esc /\ p.size = b.out_size_mode /\ p.left = b.out_data_size
        BY <1>4, <2>6
      <3>2. /\ q.esc = FALSE /\ q.size = FALSE /\ q.left = 0 /\ q.cnt = p.cnt + x
        <4>1. /\ q.esc = FALSE /\ q.size = (ch = "3") /\ q.left = 0 /\ q.cnt = p.cnt + x
          <5>a. q = ParseStep(p, ch)
            BY <1>3, <3>q
          <5>b. ~p.size /\ ~(p.left > 0) /\ p.esc
            BY <1>9, <3>1
          <5> QED BY <2>x, <5>a, <5>b, ParseCode, ZenonT(40)
        <4>2. q.size = FALSE
          BY <1>9, <4>1, Zenon
        <4> QED BY <4>1, <4>2
      <3>3. AtOut(c, bytes, m + 1, q)
        <4>1. q.esc = c.out_esc /\ q.size = c.out_size_mode /\ q.left = c.out_data_size
          BY <2>4, <3>2, Zenon
        <4>2. c.cur \in Nat /\ c.end = c.cur
          BY <1>1, <2>4
        <4> QED BY <2>5, <4>1, <4>2, AtOutHere
      <3>4. (p.cnt + x) + (Pending(b) - x) = p.cnt + Pending(b)
        BY <2>y, PendingInt DEF ParseState
      <3> QED BY <2>5, <3>2, <3>3, <3>4, <3>q
    <2>7. Agree(c, bytes, m + 1, u - 1)
      BY <1>1, <2>4, <2>5, <2>6, DroppedAgrees
    <2>8. c.handling_msg = "Active" \/ t[1] = "EOM"
      BY <2>1, <2>3, <2>4
    <2> QED BY <1>9, <1>o, <2>1, <2>4, <2>5, <2>7, <2>8 DEF Turned
  <1>10. CASE ~b.out_size_mode /\ ~(b.out_data_size > 0) /\ ~b.out_esc /\ ch # "E"
    <2>e. PICK e : e = RunEnd(b, bytes, o)
      OBVIOUS
    <2>c. PICK c : c = [b EXCEPT !.cur = o + step, !.end = e]
      OBVIOUS
    <2>1. t = <<"data", c>>
      BY <1>10, <1>o, <1>h, <1>s, <2>e, <2>c DEF Turn
    <2>2. e \in (o + 1)..max /\ \A j \in (o + 1)..(e - 1) : bytes[b.buf[j]] # "E"
      BY <1>o, <1>m, <2>e, RunEndInStretch
    <2>3. /\ SameMessages(b, c) /\ c.out_esc = b.out_esc /\ c.out_size_mode = b.out_size_mode
          /\ c.out_data_size = b.out_data_size /\ c.cur = o + step /\ c.end = e
      BY <1>1, <2>c, IbFields DEF IsIb, SameMessages
    <2>4. SameWriter(b, c) /\ Pending(c) = Pending(b)
      BY <1>1, <2>3, SameMessagesWriter DEF Counters
    <2>5. ASSUME NEW k \in 0..((e - o) - 1) PROVE bytes[m + k + 1] # "E"
      <3>1. k \in 0..(u - 1) /\ o + k < b.size
        BY <1>1, <2>2
      <3>2. b.buf[o + k] = m + k + 1
        BY <1>2, <3>1
      <3>3. CASE k = 0
        <4>1. m + k + 1 = m + 1
          BY <3>3
        <4> QED BY <1>3, <1>10, <4>1
      <3>4. CASE k # 0
        <4>1. o + k \in (o + 1)..(e - 1)
          BY <1>1, <2>2, <3>4
        <4> QED BY <2>2, <3>2, <4>1
      <3> QED BY <3>3, <3>4
    <2>6. b.out_data_size = 0 /\ e \in Nat
      BY <1>1, <1>10, <2>2
    <2>7. CASE peeking
      <3>1. c.cur = o
        BY <1>1, <1>s, <2>3, <2>7
      <3>2. ASSUME NEW p, AtOut(b, bytes, m, p) PROVE AtOut(c, bytes, m, p)
        <4>1. (p.esc <=> b.out_esc) /\ (p.size <=> b.out_size_mode) /\ p.left = b.out_data_size
          BY <1>1, <3>2, AtOutHere
        <4> QED BY <1>10, <2>3, <2>5, <2>6, <3>1, <4>1 DEF AtOut
      <3>3. Agree(c, bytes, m, u)
        BY <2>3, <2>4, <3>2, KeptAgrees DEF SameMessages
      <3> QED BY <1>o, <2>1, <2>3, <2>4, <3>1, <3>3 DEF Turned, SameWriter
    <2>8. CASE ~peeking
      <3>1. c.cur = o + 1 /\ c.end - c.cur = e - (o + 1)
        BY <1>1, <1>s, <2>3, <2>8
      <3>2. ASSUME NEW p \in ParseState, AtOut(b, bytes, m, p)
            PROVE  /\ AtOut(c, bytes, m + 1, ParseStep(p, bytes[m + 1]))
                   /\ ParseStep(p, bytes[m + 1]).cnt + Pending(c) = p.cnt + Pending(b)
        <4>q. PICK q : q = ParseStep(p, bytes[m + 1])
          OBVIOUS
        <4>1. p.esc = b.out_esc /\ p.size = b.out_size_mode /\ p.left = b.out_data_size
          BY <1>4, <3>2
        <4>2. ~q.esc /\ q.size = b.out_size_mode /\ q.left = 0 /\ q.cnt = p.cnt
          <5>1. q.esc = (ch = "E") /\ q.size = p.size /\ q.left = p.left /\ q.cnt = p.cnt
            <6>a. q = ParseStep(p, ch)
              BY <1>3, <4>q
            <6>b. ~p.size /\ ~(p.left > 0) /\ ~p.esc
              BY <1>10, <4>1
            <6> QED BY <4>1, <6>a, <6>b, ParseText, Zenon
          <5>2. ~q.esc
            BY <1>10, <5>1, Zenon
          <5> QED BY <2>6, <4>1, <5>1, <5>2
        <4>3. ASSUME NEW j \in 0..((c.end - c.cur) - 1) PROVE bytes[(m + 1) + j + 1] # "E"
          <5>1. j + 1 \in 0..((e - o) - 1) /\ m + (j + 1) + 1 = (m + 1) + j + 1
            BY <1>1, <2>6, <3>1
          <5> QED BY <2>5, <5>1
        <4>4. AtOut(c, bytes, m + 1, q)
          BY <1>10, <2>3, <2>6, <4>2, <4>3 DEF AtOut
        <4> QED BY <2>4, <4>2, <4>4, <4>q
      <3>3. Agree(c, bytes, m + 1, u - 1)
        BY <1>1, <2>4, <3>2, DroppedAgrees DEF SameWriter
      <3> QED BY <1>o, <2>1, <2>3, <2>4, <3>1, <3>3 DEF Turned, SameWriter
    <2> QED BY <2>7, <2>8
  <1>11. CASE ~b.out_size_mode /\ ~(b.out_data_size > 0) /\ ~b.out_esc /\ ch = "E"
    <2>c. PICK c : c = [[b EXCEPT !.out_esc = TRUE] EXCEPT !.cur = o + 1, !.end = o + 1]
      OBVIOUS
    <2>1. t = <<"turn", c>>
      BY <1>11, <1>o, <1>h, <2>c DEF Turn
    <2>2. /\ SameMessages(b, c) /\ c.out_esc = TRUE /\ c.out_size_mode = b.out_size_mode
          /\ c.out_data_size = b.out_data_size /\ c.cur = o + 1 /\ c.end = o + 1
      BY <1>1, <2>c, IbFields DEF IsIb, SameMessages
    <2>3. SameWriter(b, c) /\ Pending(c) = Pending(b)
      <3>1. c.out_esc \in BOOLEAN
        BY <2>2, Zenon
      <3> QED BY <1>1, <2>2, <3>1, SameMessagesWriter DEF Counters
    <2>4. ASSUME NEW p \in ParseState, AtOut(b, bytes, m, p)
          PROVE  /\ AtOut(c, bytes, m + 1, ParseStep(p, bytes[m + 1]))
                 /\ ParseStep(p, bytes[m + 1]).cnt + Pending(c) = p.cnt + Pending(b)
      <3>q. PICK q : q = ParseStep(p, bytes[m + 1])
        OBVIOUS
      <3>1. p.esc = b.out_esc /\ p.size = b.out_size_mode /\ p.left = b.out_data_size
        BY <1>4, <2>4
      <3>2. q.esc = (ch = "E") /\ q.size = p.size /\ q.left = p.left /\ q.cnt = p.cnt
        <4>a. q = ParseStep(p, ch)
          BY <1>3, <3>q
        <4>b. ~p.size /\ ~(p.left > 0) /\ ~p.esc
          BY <1>11, <3>1
        <4> QED BY <3>1, <4>a, <4>b, ParseText, ZenonT(40)
      <3>3. q.esc = TRUE
        BY <1>11, <3>2, Zenon
      <3>4. AtOut(c, bytes, m + 1, q)
        <4>1. q.esc = c.out_esc /\ q.size = c.out_size_mode /\ q.left = c.out_data_size
          BY <2>2, <3>1, <3>2, <3>3, Zenon
        <4>2. c.cur \in Nat /\ c.end = c.cur
          BY <1>1, <2>2
        <4> QED BY <2>3, <4>1, <4>2, AtOutHere DEF SameWriter
      <3> QED BY <2>3, <3>2, <3>4, <3>q
    <2>5. Agree(c, bytes, m + 1, u - 1)
      BY <1>1, <2>3, <2>4, DroppedAgrees DEF SameWriter
    <2> QED BY <1>o, <2>1, <2>2, <2>3, <2>5 DEF Turned, SameWriter
  <1> QED BY <1>5, <1>6, <1>7, <1>8, <1>9, <1>10, <1>11

\* A byte before end is read without ibuf_get_more().
LEMMA AheadAgrees ==
    ASSUME NEW b, RingOK(b), Counters(b), b.cur < b.end, NEW c, c = [b EXCEPT !.cur = @ + 1],
           NEW bytes, NEW m \in Nat, NEW u \in Nat, u > 0, Agree(b, bytes, m, u)
    PROVE  SameWriter(b, c) /\ c.cur = b.cur + 1 /\ Agree(c, bytes, m + 1, u - 1)
  <1>1. b.cur \in Nat /\ b.end \in Nat /\ b.out_data_size \in Nat
    BY RingNumbers DEF Counters
  <1>2. /\ SameMessages(b, c) /\ c.out_esc = b.out_esc /\ c.out_size_mode = b.out_size_mode
        /\ c.out_data_size = b.out_data_size /\ c.cur = b.cur + 1 /\ c.end = b.end
    BY IbFields DEF Counters, IsIb, SameMessages
  <1>3. SameWriter(b, c) /\ Pending(c) = Pending(b)
    BY <1>2, SameMessagesWriter DEF Counters
  <1>a. PICK a : a = b.end - b.cur
    OBVIOUS
  <1>4. a \in Nat /\ a > 0 /\ c.end - c.cur = a - 1
    BY <1>1, <1>2, <1>a
  <1>5. ASSUME NEW p \in ParseState, AtOut(b, bytes, m, p)
        PROVE  /\ AtOut(c, bytes, m + 1, ParseStep(p, bytes[m + 1]))
               /\ ParseStep(p, bytes[m + 1]).cnt + Pending(c) = p.cnt + Pending(b)
    <2>q. PICK q : q = ParseStep(p, bytes[m + 1])
      OBVIOUS
    <2>0. ~b.out_size_mode
      BY <1>5 DEF AtOut
    <2>1. CASE p.esc = b.out_esc /\ p.size = b.out_size_mode /\ p.left = b.out_data_size + a
      <3>1. ~p.size /\ p.left > 0
        BY <1>1, <1>4, <2>0, <2>1
      <3>2. q.esc = p.esc /\ q.size = p.size /\ q.left = p.left - 1 /\ q.cnt = p.cnt
        BY <2>q, <3>1, ParseData
      <3>3. p.left - 1 = b.out_data_size + (a - 1)
        BY <1>1, <1>4, <2>1
      <3>4. AtOut(c, bytes, m + 1, q)
        BY <1>2, <1>4, <2>0, <2>1, <3>2, <3>3 DEF AtOut
      <3> QED BY <1>3, <2>q, <3>2, <3>4
    <2>2. CASE /\ ~p.esc /\ ~p.size /\ p.left = 0
               /\ ~b.out_esc /\ ~b.out_size_mode /\ b.out_data_size = 0
               /\ \A j \in 0..(a - 1) : bytes[m + j + 1] # "E"
      <3>1. bytes[m + 1] # "E"
        <4>1. 0 \in 0..(a - 1) /\ m + 0 + 1 = m + 1
          BY <1>4
        <4> QED BY <2>2, <4>1
      <3>2. q.esc = (bytes[m + 1] = "E") /\ q.size = p.size /\ q.left = p.left /\ q.cnt = p.cnt
        BY <2>2, <2>q, ParseText
      <3>3. ~q.esc
        BY <3>1, <3>2, Zenon
      <3>4. ASSUME NEW j \in 0..((a - 1) - 1) PROVE bytes[(m + 1) + j + 1] # "E"
        <4>1. j + 1 \in 0..(a - 1) /\ m + (j + 1) + 1 = (m + 1) + j + 1
          BY <1>4
        <4> QED BY <2>2, <4>1
      <3>5. AtOut(c, bytes, m + 1, q)
        BY <1>2, <1>4, <2>2, <3>2, <3>3, <3>4 DEF AtOut
      <3> QED BY <1>3, <2>q, <3>2, <3>5
    <2> QED BY <1>5, <1>a, <2>1, <2>2 DEF AtOut
  <1>6. Agree(c, bytes, m + 1, u - 1)
    BY <1>3, <1>5, DroppedAgrees DEF SameWriter
  <1> QED BY <1>2, <1>3, <1>6

\* A handler that reads, or looks at, a character: the end of the message is the only one that
\* ends the handling of it.
LEMMA ReadAgrees ==
    ASSUME NEW b, RingOK(b), Counters(b), ~NoData(b), b.handling_msg = "Active",
           NEW bytes, NEW m \in Nat, Stored(b, Used(b), m), Agree(b, bytes, m, Used(b)),
           NEW peeking \in BOOLEAN, NEW r, r = Read(b, bytes, peeking),
           NEW n, n = (Out(r[2]) + r[2].size - Out(b)) % r[2].size
    PROVE  /\ Counters(r[2]) /\ Agree(r[2], bytes, m + n, Used(r[2]))
           /\ r[2].handling_msg = "Active" \/ (r[1] = "EOM" /\ ~peeking)
  <1>c. PICK c : c = r[2]
    OBVIOUS
  <1>u. PICK u : u = Used(b)
    OBVIOUS
  <1>1. /\ RingOK(c) /\ c.size = b.size /\ c.buf = b.buf /\ c.inp = b.inp /\ Out(b) # b.inp
        /\ \/ Out(c) = Out(b)
           \/ Out(c) = IF Out(b) + 1 < b.size THEN Out(b) + 1 ELSE 0
    BY <1>c, ReadRing
  <1>2. /\ b.size \in Nat /\ b.size > 1 /\ b.inp \in Nat /\ b.inp < b.size /\ Out(b) \in Nat
        /\ Out(b) < b.size /\ u \in Nat /\ u > 0 /\ u < b.size /\ b.cur \in Nat /\ b.end \in Nat
        /\ b.cur <= b.end /\ b.end <= b.size /\ Out(c) \in Nat /\ Out(c) < b.size
    BY <1>1, <1>u, RingNumbers
  <1>3. n \in {0, 1} /\ Used(c) = u - n
    BY <1>1, <1>2, <1>c, <1>u, ConsumedRing
  <1>4. ASSUME Out(c) = Out(b), Agree(c, bytes, m, u)
        PROVE  Agree(c, bytes, m + n, Used(c))
    <2>1. Used(c) = u
      BY <1>1, <1>4, <1>u DEF Used
    <2>2. n = 0
      BY <1>2, <1>3, <2>1
    <2> QED BY <1>4, <2>1, <2>2
  <1>5. ASSUME Out(c) # Out(b), Agree(c, bytes, m + 1, u - 1)
        PROVE  Agree(c, bytes, m + n, Used(c))
    <2>1. Used(c) # u
      <3>1. u = IF Out(b) <= b.inp THEN b.inp - Out(b) ELSE b.inp + b.size - Out(b)
        BY <1>u DEF Used
      <3>2. Used(c) = IF Out(c) <= b.inp THEN b.inp - Out(c) ELSE b.inp + b.size - Out(c)
        BY <1>1 DEF Used
      <3> QED BY <1>2, <1>5, <3>1, <3>2
    <2>2. n = 1
      BY <1>2, <1>3, <2>1
    <2> QED BY <1>3, <1>5, <2>2
  <1>6. CASE b.cur < b.end
    <2>1. Out(b) = b.cur
      BY <1>2, <1>6 DEF Out
    <2>2. r = <<"data", IF peeking THEN b ELSE [b EXCEPT !.cur = @ + 1]>>
      BY <1>6 DEF Read
    <2>3. CASE peeking
      <3>1. c = b
        BY <1>c, <2>2, <2>3
      <3> QED BY <1>4, <1>c, <1>u, <3>1
    <2>4. CASE ~peeking
      <3>1. c = [b EXCEPT !.cur = @ + 1]
        BY <1>c, <2>2, <2>4
      <3>2. SameWriter(b, c) /\ c.cur = b.cur + 1 /\ Agree(c, bytes, m + 1, u - 1)
        BY <1>2, <1>6, <1>u, <3>1, AheadAgrees
      <3>3. Out(c) # Out(b)
        BY <1>1, <1>2, <2>1, <3>2 DEF Out
      <3> QED BY <1>5, <1>c, <3>2, <3>3 DEF SameWriter
    <2> QED BY <2>3, <2>4
  <1>7. CASE ~(b.cur < b.end)
    <2>t. PICK t : t = Turn(b, bytes, peeking)
      OBVIOUS
    <2>d. PICK d : d = t[2]
      OBVIOUS
    <2>1. b.end = b.cur
      BY <1>2, <1>7
    <2>2. /\ Turned(b, d, bytes, m, u)
          /\ d.handling_msg = "Active" \/ (t[1] = "EOM" /\ ~peeking)
      BY <1>1, <1>u, <2>1, <2>t, <2>d, TurnAgrees
    <2>3. r[1] = t[1] /\ (c = d \/ c = Wrap(d))
      BY <1>7, <1>c, <2>t, <2>d DEF Read
    <2>4. RingOK(d) /\ d.size = b.size
      BY <1>1, <2>t, <2>d, TurnStep, ReadStepRing
    <2>5. c.handling_msg = d.handling_msg /\ Counters(c) /\ Out(c) = Out(d)
      <3>1. CASE c = d
        BY <2>2, <3>1 DEF Turned
      <3>2. CASE c = Wrap(d)
        BY <2>2, <2>4, <3>2, WrapAgrees, WrapRing DEF Turned, SameWriter
      <3> QED BY <2>3, <3>1, <3>2
    <2>6. \A k, v : Agree(d, bytes, k, v) => Agree(c, bytes, k, v)
      BY <2>2, <2>3, <2>4, WrapAgrees DEF Turned
    <2>7. CASE d.cur = Out(b) /\ Agree(d, bytes, m, u)
      <3>1. Out(d) = Out(b)
        BY <1>2, <2>4, <2>7 DEF Out
      <3> QED BY <1>4, <1>c, <2>2, <2>3, <2>5, <2>6, <2>7, <3>1
    <2>8. CASE d.cur = Out(b) + 1 /\ Agree(d, bytes, m + 1, u - 1)
      <3>1. Out(d) # Out(b)
        BY <1>2, <2>4, <2>8 DEF Out
      <3> QED BY <1>5, <1>c, <2>2, <2>3, <2>5, <2>6, <2>8, <3>1
    <2> QED BY <2>2, <2>7, <2>8 DEF Turned
  <1> QED BY <1>6, <1>7

-----------------------------------------------------------------------------
(***************************************************************************)
(* Every step keeps the agreement                                          *)
(***************************************************************************)

LEMMA MsgForm ==
    ASSUME state' = "Open" => Counters(ib') /\ Agree(ib', input', consumed', Used(ib')),
           pc' \in {"handler", "wait"} => ib'.handling_msg = "Active"
    PROVE  MsgInv'
  BY DEF MsgInv

LEMMA MsgInitInv == ASSUME ChInit PROVE MsgInv
  <1>b. PICK b : b = NewBuf
    OBVIOUS
  <1>1. /\ IsIb(b) /\ b.size = BufSize /\ b.inp = 0 /\ b.cur = 0 /\ b.end = 0
        /\ b.inp_esc = FALSE /\ b.inp_size_mode = FALSE /\ b.inp_data_size = 0
        /\ b.out_esc = FALSE /\ b.out_size_mode = FALSE /\ b.out_data_size = 0
        /\ b.eof = FALSE /\ b.long_msg = FALSE /\ b.message_count = 0 /\ b.handling_msg = "Idle"
    BY <1>b DEF NewBuf, IsIb
  <1>2. Counters(b)
    <2>1. /\ b.inp_esc \in BOOLEAN /\ b.inp_size_mode \in BOOLEAN /\ b.out_esc \in BOOLEAN
          /\ b.out_size_mode \in BOOLEAN /\ b.eof \in BOOLEAN /\ b.long_msg \in BOOLEAN
      BY <1>1, Zenon
    <2> QED BY <1>1, <2>1 DEF Counters
  <1>3. Used(b) = 0
    BY <1>1, InputBufAssumption DEF Used, Out
  <1>p. PICK p : p = [esc |-> FALSE, size |-> FALSE, left |-> 0, cnt |-> 0]
    OBVIOUS
  <1>4. p \in ParseState /\ p.cnt = 0
    BY <1>p DEF ParseState
  <1>5. Pending(b) = 0
    <2>1. ~b.eof /\ ~b.long_msg
      BY <1>1, Zenon
    <2>2. b.message_count = 0
      BY <1>1
    <2>3. Extra(b) = 0
      BY <2>1 DEF Extra
    <2>4. Pending(b) = 0 - 0
      BY <2>2, <2>3 DEF Pending
    <2> QED BY <2>4
  <1>6. AtInp(b, 0) = p
    <2>1. 0 + Pending(b) = 0
      BY <1>5
    <2>2. AtInp(b, 0) = [esc |-> b.inp_esc, size |-> b.inp_size_mode, left |-> b.inp_data_size, cnt |-> 0]
      BY <2>1 DEF AtInp
    <2> QED BY <1>1, <1>p, <2>2, Zenon
  <1>7. AtOut(b, input, 0, p)
    <2>1. p.esc = b.out_esc /\ p.size = b.out_size_mode /\ p.left = b.out_data_size
      BY <1>1, <1>p
    <2> QED BY <1>1, <1>2, <2>1, AtOutHere
  <1>t. PICK tr : tr = [k \in 0..0 |-> p]
    OBVIOUS
  <1>8. tr[0] = p /\ Trace(tr, input, 0, 0)
    BY <1>4, <1>t DEF Trace
  <1>9. Agree(b, input, 0, 0)
    BY <1>4, <1>6, <1>7, <1>8 DEF Agree
  <1> QED BY <1>2, <1>3, <1>9, <1>b DEF ChInit, MsgInv

\* Steps of the output side and of the locks.
LEMMA MsgSame ==
    ASSUME MsgInv, UNCHANGED <<ib, input, consumed, state>>, pc' \in {pc, "loop", "deleted"}
    PROVE  MsgInv'
  BY DEF MsgInv

LEMMA WorkerReadMsg == ASSUME ChInv, MsgInv, WorkerRead PROVE MsgInv'
  <1>1. /\ rd_req.status = "pending"
        /\ UNCHANGED <<input, state, pc, consumed>>
    BY DEF WorkerRead
  <1>2. PICK n \in 0..rd_req.len :
           ib' = [ib EXCEPT !.buf = [i \in DOMAIN @ |->
                        IF i >= rd_req.pos /\ i < rd_req.pos + n
                          THEN rcvd + i - rd_req.pos + 1 ELSE @[i]]]
    BY DEF WorkerRead
  <1>3. /\ SameMessages(ib, ib') /\ SameReader(ib, ib') /\ ib'.size = ib.size /\ ib'.inp = ib.inp
    <2>f. PICK f : f = [i \in DOMAIN ib.buf |-> IF i >= rd_req.pos /\ i < rd_req.pos + n
                          THEN rcvd + i - rd_req.pos + 1 ELSE ib.buf[i]]
      OBVIOUS
    <2>1. IsIb(ib)
      BY DEF ChInv, ChTypeOK
    <2>2. ib' = [ib EXCEPT !.buf = f]
      BY <1>2, <2>1, <2>f, IbFields DEF IsIb
    <2> QED BY <2>1, <2>2, IbFields DEF IsIb, SameMessages, SameReader
  <1>4. Used(ib') = Used(ib)
    BY <1>3 DEF Used, Out, SameReader
  <1>5. ASSUME state = "Open"
        PROVE  Counters(ib') /\ Agree(ib', input, consumed, Used(ib))
    <2>1. Counters(ib) /\ Agree(ib, input, consumed, Used(ib))
      BY <1>5 DEF MsgInv
    <2>2. SameWriter(ib, ib') /\ Pending(ib') = Pending(ib)
      BY <1>3, <2>1, SameMessagesWriter DEF Counters, SameReader
    <2>3. \A p : AtOut(ib, input, consumed, p) => AtOut(ib', input, consumed, p)
      BY <1>3, SameReaderAtOut
    <2>4. Agree(ib', input, consumed, Used(ib))
      BY <1>3, <2>1, <2>2, <2>3, KeptAgrees DEF SameMessages
    <2> QED BY <2>2, <2>4 DEF SameWriter
  <1>6. pc' \in {"handler", "wait"} => ib'.handling_msg = "Active"
    BY <1>1, <1>3 DEF MsgInv, SameMessages
  <1> QED BY <1>1, <1>4, <1>5, <1>6, MsgForm

LEMMA ReadDoneMsg ==
    ASSUME ChInv, MsgInv, NEW next, ReadDone(next), \/ pc = "loop" /\ next = "loop"
                                                    \/ pc = "wait" /\ next = "handler"
    PROVE  MsgInv'
  <1>1. rd_req.status = "done" /\ UNCHANGED <<input, rcvd, state, consumed>>
    BY DEF ReadDone
  <1>2. CASE state = "Open"
    <2>b. PICK b : b = ReadInto(ib, input, rd_req.len)
      OBVIOUS
    <2>l. PICK l : l = rd_req.len
      OBVIOUS
    <2>1. ib' = b /\ pc' = next
      BY <1>2, <2>b DEF ReadDone
    <2>2. Content /\ ChTypeOK /\ l \in Nat /\ consumed \in Nat
      BY <1>2, <2>l DEF ChInv, ChTypeOK, ReadReq
    <2>3. /\ RingOK(ib) /\ ib.inp + l <= ib.size /\ Used(ib) + l < ib.size
          /\ Stored(ib, Used(ib) + l, consumed)
      BY <1>1, <2>2, <2>l, ContentStored DEF ReadRoom, Ahead
    <2>4. Counters(ib) /\ Agree(ib, input, consumed, Used(ib))
      BY <1>2 DEF MsgInv
    <2>5. Used(b) = Used(ib) + l
      BY <2>2, <2>3, <2>b, <2>l, ReadIntoRing
    <2>6. /\ Counters(b) /\ Agree(b, input, consumed, Used(ib) + l)
          /\ ib.handling_msg = "Active" => b.handling_msg = "Active"
      BY <2>2, <2>3, <2>4, <2>b, <2>l, ReadIntoAgrees
    <2>7. pc' \in {"handler", "wait"} => b.handling_msg = "Active"
      BY <2>1, <2>6 DEF MsgInv
    <2> QED BY <1>1, <2>1, <2>5, <2>6, <2>7, MsgForm
  <1>3. CASE state # "Open"
    <2>1. pc = "loop" /\ next = "loop"
      BY <1>3 DEF ChInv, Closing
    <2>2. pc' \in {"loop", "deleted"}
      BY <1>3, <2>1 DEF ReadDone, Unlocked
    <2> QED BY <1>1, <1>3, <2>2, MsgForm
  <1> QED BY <1>2, <1>3

LEMMA SendEofAndCloseMsg ==
    ASSUME NEW b, SendEofAndClose(b), pc' = "loop"
    PROVE  MsgInv'
  <1>1. state' = "Disconnected"
    BY DEF SendEofAndClose
  <1> QED BY <1>1, MsgForm

LEMMA HandleMessageMsg == ASSUME ChInv, MsgInv, HandleMessage PROVE MsgInv'
  <1>1. pc = "loop" /\ ib.handling_msg = "Triggered" /\ state = "Open"
    BY DEF ChInv, ChTypeOK, Closing, HandleMessage
  <1>2. CASE ib.eof
    <2>b. PICK b : b = [ib EXCEPT !.handling_msg = "Idle"]
      OBVIOUS
    <2>1. SendEofAndClose(b) /\ pc' = "loop"
      BY <1>1, <1>2, <2>b DEF HandleMessage
    <2> QED BY <2>1, SendEofAndCloseMsg
  <1>3. CASE ~ib.eof
    <2>1. /\ ib' = [ib EXCEPT !.handling_msg = "Active"] /\ pc' = "handler"
          /\ UNCHANGED <<input, consumed, state>>
      BY <1>3 DEF HandleMessage
    <2>2. Counters(ib) /\ Agree(ib, input, consumed, Used(ib))
      BY <1>1 DEF MsgInv
    <2>c. PICK c : c = ib'
      OBVIOUS
    <2>3. /\ IsIb(c) /\ SameReader(ib, c) /\ c.size = ib.size /\ c.inp = ib.inp
          /\ c.inp_esc = ib.inp_esc /\ c.inp_size_mode = ib.inp_size_mode
          /\ c.inp_data_size = ib.inp_data_size /\ c.eof = ib.eof /\ c.long_msg = ib.long_msg
          /\ c.message_count = ib.message_count /\ c.handling_msg = "Active"
      BY <2>1, <2>2, <2>c, IbFields DEF Counters, IsIb, SameReader
    <2>4. Counters(c)
      BY <1>1, <2>2, <2>3 DEF Counters, SameReader
    <2>5. Pending(c) = Pending(ib)
      BY <2>3 DEF Pending, Extra
    <2>6. \A p : AtOut(ib, input, consumed, p) => AtOut(c, input, consumed, p)
      BY <2>3, SameReaderAtOut
    <2>7. Agree(c, input, consumed, Used(ib))
      BY <2>2, <2>3, <2>5, <2>6, KeptAgrees
    <2>8. Used(c) = Used(ib)
      BY <2>3 DEF Used, Out, SameReader
    <2> QED BY <2>1, <2>3, <2>4, <2>7, <2>8, <2>c, MsgForm
  <1> QED BY <1>2, <1>3

LEMMA HandlerReadMsg ==
    ASSUME ChInv, MsgInv, NEW peeking \in BOOLEAN, HandlerRead(peeking)
    PROVE  MsgInv'
  <1>r. PICK r : r = Read(ib, input, peeking)
    OBVIOUS
  <1>b. PICK b : b = r[2]
    OBVIOUS
  <1>n. PICK n : n = (Out(b) + b.size - Out(ib)) % b.size
    OBVIOUS
  <1>1. /\ pc = "handler" /\ ~NoData(ib) /\ ib' = b /\ consumed' = consumed + n
        /\ pc' = (IF r[1] \in {"EOM", "EOS"} /\ ~peeking THEN "loop" ELSE "handler")
        /\ UNCHANGED <<input, state>>
    BY <1>r, <1>b, <1>n DEF HandlerRead
  <1>2. /\ state = "Open" /\ Content /\ ib.handling_msg = "Active" /\ consumed \in Nat /\ rcvd \in Nat
        /\ Counters(ib) /\ Agree(ib, input, consumed, Used(ib)) /\ rd_req \in ReadReq
    BY <1>1 DEF ChInv, Closing, MsgInv, ChTypeOK
  <1>3. RingOK(ib) /\ Stored(ib, Used(ib), consumed)
    <2>1. /\ RingOK(ib) /\ rcvd - consumed = Used(ib) + Ahead(rd_req)
          /\ Stored(ib, rcvd - consumed, consumed)
      BY <1>2, ContentStored
    <2>2. Used(ib) \in Nat /\ Ahead(rd_req) \in Nat
      BY <1>2, <2>1, RingNumbers DEF Ahead, ReadReq
    <2>3. \A k \in 0..(Used(ib) - 1) : k \in 0..((rcvd - consumed) - 1)
      BY <1>2, <2>1, <2>2
    <2> QED BY <2>1, <2>3 DEF Stored
  <1>4. /\ Counters(b) /\ Agree(b, input, consumed + n, Used(b))
        /\ b.handling_msg = "Active" \/ (r[1] = "EOM" /\ ~peeking)
    BY <1>1, <1>2, <1>3, <1>r, <1>b, <1>n, ReadAgrees
  <1>5. pc' \in {"handler", "wait"} => b.handling_msg = "Active"
    BY <1>1, <1>4
  <1> QED BY <1>1, <1>4, <1>5, MsgForm

LEMMA HandlerStarvedMsg == ASSUME ChInv, MsgInv, HandlerStarved PROVE MsgInv'
  <1>b. PICK b : b = [ib EXCEPT !.cur = Out(ib), !.end = Out(ib)]
    OBVIOUS
  <1>1. pc = "handler" /\ NoData(ib) /\ ib' = b /\ UNCHANGED <<input, consumed, state>>
    BY <1>b DEF HandlerStarved
  <1>2. /\ state = "Open" /\ ib.handling_msg = "Active" /\ RingOK(ib)
        /\ Counters(ib) /\ Agree(ib, input, consumed, Used(ib))
    BY <1>1, ContentStored DEF ChInv, Closing, MsgInv
  <1>3. /\ SameMessages(ib, b) /\ b.size = ib.size /\ b.inp = ib.inp /\ b.out_esc = ib.out_esc
        /\ b.out_size_mode = ib.out_size_mode /\ b.out_data_size = ib.out_data_size
        /\ b.cur = Out(ib) /\ b.end = Out(ib)
    BY <1>2, <1>b, IbFields DEF Counters, IsIb, SameMessages
  <1>4. SameWriter(ib, b)
    BY <1>2, <1>3, SameMessagesWriter DEF Counters
  <1>5. Out(ib) \in Nat /\ Out(ib) < ib.size /\ ib.cur \in Nat /\ ib.end = ib.cur /\ ib.size \in Nat
    BY <1>1, <1>2, RingNumbers DEF NoData
  <1>6. b.end - b.cur = ib.end - ib.cur /\ ~(b.cur < b.end)
    BY <1>3, <1>5
  <1>7. Agree(b, input, consumed, Used(ib))
    BY <1>2, <1>3, <1>4, <1>6, MovedAgrees
  <1>8. Out(b) = Out(ib)
    BY <1>3, <1>5 DEF Out
  <1>9. Used(b) = Used(ib)
    BY <1>3, <1>8 DEF Used
  <1>10. Counters(b) /\ b.handling_msg = "Active"
    BY <1>2, <1>4 DEF SameWriter
  <1> QED BY <1>1, <1>7, <1>9, <1>10, MsgForm

-----------------------------------------------------------------------------
(***************************************************************************)
(* The theorems                                                            *)
(***************************************************************************)

\* inputbuf.c: on the bytes in the ring of an open channel the parser of ibuf_read_done() and
\* the one of ibuf_get_more() go through the same states, and message_count is the number of
\* the ends of messages that the first has met and the second has not, with one for the end of
\* file and one for a message that is longer than the buffer.
THEOREM MsgInvCorrect == ChSpec => []MsgInv
  <1>1. ChInit => MsgInv
    BY MsgInitInv
  <1>2. ASSUME ChInv, MsgInv, [ChNext]_chvars PROVE MsgInv'
    <2>1. CASE WorkerRead
      BY <1>2, <2>1, WorkerReadMsg
    <2>2. CASE ReadEvent
      BY <1>2, <2>2, ReadDoneMsg DEF ReadEvent
    <2>3. CASE WaitRead
      BY <1>2, <2>3, ReadDoneMsg DEF WaitRead
    <2>4. CASE WriteMessage
      BY <1>2, <2>4, MsgSame DEF WriteMessage, invars
    <2>5. CASE FlushEvent
      <3>1. UNCHANGED <<invars, state>> /\ pc' \in {"loop", "deleted"}
        BY <2>5 DEF FlushEvent, Unlocked
      <3> QED BY <1>2, <3>1, MsgSame DEF invars
    <2>6. CASE WriteSucceeded
      BY <1>2, <2>6, MsgSame DEF WriteSucceeded, WriteDone, Unlocked, invars
    <2>7. CASE WriteFailed
      BY <1>2, <2>7, MsgSame DEF WriteFailed, WriteDone, Unlocked, invars
    <2>8. CASE Close
      BY <2>8, SendEofAndCloseMsg DEF Close
    <2>9. CASE HandlerRaises
      BY <2>9, SendEofAndCloseMsg DEF HandlerRaises
    <2>10. CASE HandleMessage
      BY <1>2, <2>10, HandleMessageMsg
    <2>11. CASE HandlerStarved
      BY <1>2, <2>11, HandlerStarvedMsg
    <2>12. CASE \E peeking \in BOOLEAN : HandlerRead(peeking)
      BY <1>2, <2>12, HandlerReadMsg
    <2>13. CASE Lock
      BY <1>2, <2>13, MsgSame DEF Lock, invars
    <2>14. CASE Unlock
      BY <1>2, <2>14, MsgSame DEF Unlock, Unlocked, invars
    <2>15. CASE UNCHANGED chvars
      BY <1>2, <2>15, MsgSame DEF chvars
    <2> QED BY <1>2, <2>1, <2>2, <2>3, <2>4, <2>5, <2>6, <2>7, <2>8, <2>9, <2>10, <2>11, <2>12, <2>13,
               <2>14, <2>15 DEF ChNext
  <1> QED BY <1>1, <1>2, ChInvCorrect, PTL DEF ChSpec

\* The assertions of inputbuf.c and handle_channel_msg() hold for any buffer sizes and any
\* bytes: a handler waits for data only in a message that is longer than the buffer or cut
\* short, and there is a message event exactly when there is a message that nobody handles.
THEOREM MessagesCountedCorrect == ChSpec => []MessagesCounted
  <1>1. ASSUME ChInv, MsgInv PROVE MessagesCounted
    <2>1. ASSUME pc = "handler", ib.handling_msg = "Active", NoData(ib), ~ib.eof
          PROVE  ib.long_msg /\ ib.message_count = 1
      <3>1. /\ state = "Open" /\ RingOK(ib) /\ Counters(ib) /\ Agree(ib, input, consumed, Used(ib))
        BY <1>1, <2>1, ContentStored DEF ChInv, Closing, MsgInv
      <3>2. Used(ib) = 0
        BY <2>1, <3>1, RingNumbers DEF NoData
      <3>3. PICK tr : /\ Trace(tr, input, consumed, 0) /\ tr[0] = AtInp(ib, tr[0].cnt)
        BY <3>1, <3>2 DEF Agree
      <3>z. PICK z : z = tr[0].cnt
        OBVIOUS
      <3>4. z \in Int
        BY <3>3, <3>z DEF Trace, ParseState
      <3>5. AtInp(ib, z).cnt = z + Pending(ib) /\ Pending(ib) \in Int
        BY <3>1, <3>4, AtInpType, PendingInt
      <3>6. Pending(ib) = 0
        BY <3>3, <3>4, <3>5, <3>z
      <3>7. ib.message_count \in Nat /\ ib.message_count # 0
        BY <2>1, <3>1 DEF Counters
      <3> QED BY <2>1, <3>6, <3>7 DEF Pending, Extra
    <2>2. ASSUME ib.handling_msg = "Triggered"
          PROVE  ib.message_count > 0 /\ state = "Open"
      <3>1. state = "Open"
        BY <1>1, <2>2 DEF ChInv, ChTypeOK, Closing
      <3> QED BY <1>1, <2>2, <3>1 DEF MsgInv, Counters
    <2>3. ASSUME state = "Open", ib.handling_msg = "Idle"
          PROVE  ib.message_count = 0
      BY <1>1, <2>3 DEF MsgInv, Counters
    <2> QED BY <2>1, <2>2, <2>3 DEF MessagesCounted
  <1> QED BY <1>1, ChInvCorrect, MsgInvCorrect, PTL

=============================================================================

-------------------------- MODULE EventQueueProofs --------------------------
(***************************************************************************)
(* Proofs about EventQueue, for any number of threads, callbacks and nodes *)
(* and any bound.                                                          *)
(***************************************************************************)
EXTENDS EventQueue, SequenceTheorems, TLAPS

-----------------------------------------------------------------------------
(***************************************************************************)
(* Queues                                                                  *)
(***************************************************************************)

\* Runtimes are compared along a chain.
LEMMA LeqTransitive == \A a, b, c \in Nat : a <= b /\ b <= c => a <= c
  OBVIOUS

\* Membership in a queue, by position.
LEMMA ElemsMember ==
    ASSUME NEW q
    PROVE  /\ \A n \in Elems(q) : \E i \in 1..Len(q) : n = q[i]
           /\ \A i \in 1..Len(q) : q[i] \in Elems(q)
  BY DEF Elems

\* What linking a node into a queue after its first k nodes yields.
LEMMA InsertAfterIsSeq ==
    ASSUME NEW S, NEW q \in Seq(S), NEW n \in S, NEW k \in 0..Len(q)
    PROVE  /\ InsertAfter(q, k, n) \in Seq(S)
           /\ Len(InsertAfter(q, k, n)) = Len(q) + 1
           /\ \A i \in 1..(Len(q) + 1) :
                InsertAfter(q, k, n)[i] = IF i <= k THEN q[i]
                                          ELSE IF i = k + 1 THEN n ELSE q[i - 1]
  <1> DEFINE a == SubSeq(q, 1, k)
             b == <<n>>
             c == SubSeq(q, k + 1, Len(q))
  <1>1. /\ a \in Seq(S) /\ Len(a) = k
        /\ \A i \in 1..k : a[i] = q[i]
    BY SubSeqProperties, Z3
  <1>2. /\ c \in Seq(S) /\ Len(c) = Len(q) - k
        /\ \A i \in 1..(Len(q) - k) : c[i] = q[k + i]
    BY SubSeqProperties, Z3
  <1>3. b \in Seq(S) /\ Len(b) = 1 /\ b[1] = n
    OBVIOUS
  <1> HIDE DEF a, b, c
  <1>4. /\ a \o b \in Seq(S) /\ Len(a \o b) = Len(a) + Len(b)
        /\ \A i \in 1..(Len(a) + Len(b)) :
             (a \o b)[i] = IF i <= Len(a) THEN a[i] ELSE b[i - Len(a)]
    BY <1>1, <1>3, ConcatProperties, Zenon
  <1> DEFINE d == a \o b
  <1>5. /\ d \in Seq(S) /\ Len(d) = k + 1 /\ d[k + 1] = n
        /\ \A i \in 1..k : d[i] = q[i]
    <2> HIDE DEF d
    <2>1. /\ d \in Seq(S) /\ Len(d) = k + 1
          /\ \A i \in 1..(k + 1) : d[i] = IF i <= k THEN a[i] ELSE b[i - k]
      BY <1>1, <1>3, <1>4 DEF d
    <2> QED BY <1>1, <1>3, <2>1
  <1> HIDE DEF d
  <1>6. /\ d \o c \in Seq(S) /\ Len(d \o c) = Len(d) + Len(c)
        /\ \A i \in 1..(Len(d) + Len(c)) :
             (d \o c)[i] = IF i <= Len(d) THEN d[i] ELSE c[i - Len(d)]
    BY <1>2, <1>5, ConcatProperties, Zenon
  <1> DEFINE e == d \o c
  <1>7. InsertAfter(q, k, n) = e
    BY DEF InsertAfter, a, b, c, d
  <1> HIDE DEF e
  <1>8. /\ e \in Seq(S) /\ Len(e) = Len(q) + 1
        /\ \A i \in 1..(Len(q) + 1) : e[i] = IF i <= k + 1 THEN d[i] ELSE c[i - (k + 1)]
    BY <1>2, <1>5, <1>6 DEF e
  <1> QED BY <1>2, <1>5, <1>7, <1>8

\* What unlinking the i-th node of a queue yields.
LEMMA DropAtIsSeq ==
    ASSUME NEW S, NEW q \in Seq(S), NEW i \in 1..Len(q)
    PROVE  /\ DropAt(q, i) \in Seq(S)
           /\ Len(DropAt(q, i)) = Len(q) - 1
           /\ \A j \in 1..(Len(q) - 1) :
                DropAt(q, i)[j] = IF j < i THEN q[j] ELSE q[j + 1]
  <1> DEFINE a == SubSeq(q, 1, i - 1)
             c == SubSeq(q, i + 1, Len(q))
  <1>1. /\ a \in Seq(S) /\ Len(a) = i - 1
        /\ \A j \in 1..(i - 1) : a[j] = q[j]
    BY SubSeqProperties, Z3
  <1>2. /\ c \in Seq(S) /\ Len(c) = Len(q) - i
        /\ \A j \in 1..(Len(q) - i) : c[j] = q[i + j]
    BY SubSeqProperties, Z3
  <1>3. DropAt(q, i) = a \o c
    BY DEF DropAt, a, c
  <1> HIDE DEF a, c
  <1>4. /\ a \o c \in Seq(S) /\ Len(a \o c) = Len(a) + Len(c)
        /\ \A j \in 1..(Len(a) + Len(c)) :
             (a \o c)[j] = IF j <= Len(a) THEN a[j] ELSE c[j - Len(a)]
    BY <1>1, <1>2, ConcatProperties, Zenon
  <1> DEFINE e == a \o c
  <1>5. e \in Seq(S) /\ DropAt(q, i) = e
    BY <1>3, <1>4
  <1> HIDE DEF e
  <1>6. /\ Len(e) = Len(q) - 1
        /\ \A j \in 1..(Len(q) - 1) : e[j] = IF j <= i - 1 THEN a[j] ELSE c[j - (i - 1)]
    BY <1>1, <1>2, <1>4 DEF e
  <1> QED BY <1>1, <1>2, <1>5, <1>6

\* The nodes of a queue after an insertion.
LEMMA InsertAfterElems ==
    ASSUME NEW S, NEW q \in Seq(S), NEW n \in S, NEW k \in 0..Len(q)
    PROVE  /\ Elems(InsertAfter(q, k, n)) = Elems(q) \cup {n}
           /\ Injective(q) /\ n \notin Elems(q) => Injective(InsertAfter(q, k, n))
  <1> DEFINE r == InsertAfter(q, k, n)
  <1>1. /\ r \in Seq(S) /\ Len(r) = Len(q) + 1
        /\ \A i \in 1..(Len(q) + 1) : r[i] = IF i <= k THEN q[i]
                                             ELSE IF i = k + 1 THEN n ELSE q[i - 1]
    BY InsertAfterIsSeq
  <1> HIDE DEF r
  <1>2. Elems(r) \subseteq Elems(q) \cup {n}
    BY <1>1 DEF Elems
  <1>3. n \in Elems(r)
    <2>1. k + 1 \in 1..Len(r) /\ r[k + 1] = n
      BY <1>1
    <2> QED BY <2>1 DEF Elems
  <1>4. ASSUME NEW i \in 1..Len(q) PROVE q[i] \in Elems(r)
    <2>1. CASE i <= k
      BY <1>1, <2>1 DEF Elems
    <2>2. CASE ~(i <= k)
      <3>1. i + 1 \in 1..Len(r) /\ r[i + 1] = q[i]
        BY <1>1, <2>2
      <3> QED BY <3>1 DEF Elems
    <2> QED BY <2>1, <2>2
  <1>5. Injective(q) /\ n \notin Elems(q) => Injective(r)
    <2> SUFFICES ASSUME Injective(q), n \notin Elems(q),
                        NEW i \in 1..Len(r), NEW j \in 1..Len(r), i < j
                 PROVE  r[i] # r[j]
      BY <1>1 DEF Injective
    <2>1. \A m \in 1..Len(q) : q[m] # n
      BY DEF Elems
    <2>2. \A l, m \in 1..Len(q) : q[l] = q[m] => l = m
      BY DEF Injective
    <2>3. CASE j <= k
      BY <1>1, <2>2, <2>3
    <2>4. CASE j = k + 1
      BY <1>1, <2>1, <2>4
    <2>5. CASE j > k + 1
      <3>1. r[j] = q[j - 1] /\ j - 1 \in 1..Len(q)
        BY <1>1, <2>5
      <3>2. CASE i <= k
        <4>1. r[i] = q[i] /\ i \in 1..Len(q) /\ i # j - 1
          BY <1>1, <2>5, <3>2
        <4> QED BY <2>2, <3>1, <4>1
      <3>3. CASE i = k + 1
        <4>1. r[i] = n
          BY <1>1, <3>3
        <4> QED BY <2>1, <3>1, <4>1
      <3>4. CASE i > k + 1
        <4>1. r[i] = q[i - 1] /\ i - 1 \in 1..Len(q) /\ i - 1 # j - 1
          BY <1>1, <3>4
        <4> QED BY <2>2, <3>1, <4>1
      <3> QED BY <1>1, <3>2, <3>3, <3>4
    <2> QED BY <1>1, <2>3, <2>4, <2>5
  <1>6. Elems(q) \subseteq Elems(r)
    BY <1>4 DEF Elems
  <1> QED BY <1>2, <1>3, <1>5, <1>6 DEF r

\* The nodes of a queue after a removal.
LEMMA DropAtElems ==
    ASSUME NEW S, NEW q \in Seq(S), NEW i \in 1..Len(q), Injective(q)
    PROVE  /\ Elems(DropAt(q, i)) = Elems(q) \ {q[i]}
           /\ Injective(DropAt(q, i))
  <1> DEFINE r == DropAt(q, i)
  <1>1. /\ r \in Seq(S) /\ Len(r) = Len(q) - 1
        /\ \A j \in 1..(Len(q) - 1) : r[j] = IF j < i THEN q[j] ELSE q[j + 1]
    BY DropAtIsSeq
  <1> HIDE DEF r
  <1>2. Injective(r)
    BY <1>1 DEF Injective
  <1>3. Elems(r) \subseteq Elems(q) \ {q[i]}
    BY <1>1 DEF Injective, Elems
  <1>4. ASSUME NEW j \in 1..Len(q), j # i PROVE q[j] \in Elems(r)
    <2>1. CASE j < i
      BY <1>1, <2>1 DEF Elems
    <2>2. CASE i < j
      <3>1. j - 1 \in 1..Len(r) /\ r[j - 1] = q[j]
        BY <1>1, <2>2
      <3> QED BY <3>1 DEF Elems
    <2> QED BY <1>4, <2>1, <2>2
  <1>5. Elems(q) \ {q[i]} \subseteq Elems(r)
    BY <1>4 DEF Elems
  <1> QED BY <1>2, <1>3, <1>5 DEF r

\* Appending a node.
LEMMA AppendElems ==
    ASSUME NEW S, NEW q \in Seq(S), NEW n \in S
    PROVE  /\ Append(q, n) \in Seq(S) /\ Append(q, n) # <<>>
           /\ Append(q, n)[Len(Append(q, n))] = n
           /\ Elems(Append(q, n)) = Elems(q) \cup {n}
           /\ Injective(q) /\ n \notin Elems(q) => Injective(Append(q, n))
  <1> DEFINE r == Append(q, n)
  <1>1. /\ r \in Seq(S) /\ Len(r) = Len(q) + 1 /\ r[Len(q) + 1] = n
        /\ \A i \in 1..Len(q) : r[i] = q[i]
    BY AppendProperties
  <1> HIDE DEF r
  <1>2. r # <<>> /\ r[Len(r)] = n
    BY <1>1
  <1>3. Elems(r) = Elems(q) \cup {n}
    BY <1>1 DEF Elems
  <1>4. Injective(q) /\ n \notin Elems(q) => Injective(r)
    BY <1>1 DEF Injective, Elems
  <1> QED BY <1>1, <1>2, <1>3, <1>4 DEF r

\* Putting the first k nodes of a queue in front of another queue.
LEMMA MoveElems ==
    ASSUME NEW S, NEW q \in Seq(S), NEW e \in Seq(S), NEW k \in 0..Len(q)
    PROVE  LET pre == SubSeq(q, 1, k)
               suf == SubSeq(q, k + 1, Len(q))
               all == pre \o e
           IN /\ suf \in Seq(S) /\ all \in Seq(S)
              /\ Len(suf) = Len(q) - k /\ Len(all) = k + Len(e)
              /\ \A i \in 1..Len(suf) : suf[i] = q[k + i]
              /\ \A i \in 1..Len(all) : all[i] = IF i <= k THEN q[i] ELSE e[i - k]
  <1> DEFINE pre == SubSeq(q, 1, k)
             suf == SubSeq(q, k + 1, Len(q))
             all == pre \o e
  <1>1. /\ pre \in Seq(S) /\ Len(pre) = k
        /\ \A i \in 1..k : pre[i] = q[i]
    BY SubSeqProperties, Z3
  <1>2. /\ suf \in Seq(S) /\ Len(suf) = Len(q) - k
        /\ \A i \in 1..(Len(q) - k) : suf[i] = q[k + i]
    BY SubSeqProperties, Z3
  <1> HIDE DEF pre, suf
  <1>3. /\ pre \o e \in Seq(S) /\ Len(pre \o e) = Len(pre) + Len(e)
        /\ \A i \in 1..(Len(pre) + Len(e)) :
             (pre \o e)[i] = IF i <= Len(pre) THEN pre[i] ELSE e[i - Len(pre)]
    BY <1>1, ConcatProperties, Zenon
  <1> HIDE DEF all
  <1>4. /\ all \in Seq(S) /\ Len(all) = k + Len(e)
        /\ \A i \in 1..Len(all) : all[i] = IF i <= k THEN q[i] ELSE e[i - k]
    BY <1>1, <1>3 DEF all
  <1> QED BY <1>2, <1>4 DEF pre, suf, all

\* Taking the first node.
LEMMA TailElems ==
    ASSUME NEW S, NEW q \in Seq(S), q # <<>>
    PROVE  /\ Head(q) \in S /\ Head(q) = q[1] /\ 1 \in 1..Len(q)
           /\ Tail(q) \in Seq(S) /\ Len(Tail(q)) = Len(q) - 1
           /\ \A i \in 1..Len(Tail(q)) : Tail(q)[i] = q[i + 1]
           /\ Injective(q) => /\ Injective(Tail(q))
                              /\ Elems(Tail(q)) = Elems(q) \ {Head(q)}
  <1> DEFINE r == Tail(q)
             h == Head(q)
  <1>1. /\ h \in S /\ h = q[1] /\ 1 \in 1..Len(q)
        /\ r \in Seq(S) /\ Len(r) = Len(q) - 1
        /\ \A i \in 1..Len(r) : r[i] = q[i + 1]
    BY HeadTailProperties
  <1> HIDE DEF r, h
  <1>2. ASSUME Injective(q) PROVE Injective(r)
    BY <1>1, <1>2 DEF Injective
  <1>3. ASSUME Injective(q) PROVE Elems(r) \subseteq Elems(q) \ {h}
    <2> SUFFICES ASSUME NEW i \in 1..Len(r) PROVE r[i] \in Elems(q) /\ r[i] # h
      BY DEF Elems
    <2>1. r[i] = q[i + 1] /\ i + 1 \in 1..Len(q) /\ i + 1 # 1
      BY <1>1
    <2>2. r[i] # h
      BY <1>1, <1>3, <2>1 DEF Injective
    <2> QED BY <2>1, <2>2, ElemsMember
  <1>4. ASSUME NEW i \in 1..Len(q), q[i] # h PROVE q[i] \in Elems(r)
    <2>1. i - 1 \in 1..Len(r) /\ r[i - 1] = q[i]
      BY <1>1, <1>4
    <2> QED BY <2>1 DEF Elems
  <1>5. Elems(q) \ {h} \subseteq Elems(r)
    BY <1>4 DEF Elems
  <1> QED BY <1>1, <1>2, <1>3, <1>5 DEF r, h

-----------------------------------------------------------------------------
(***************************************************************************)
(* Types                                                                   *)
(***************************************************************************)

\* A new node comes from the free list or from the unused heap.
LEMMA AllocIsNew ==
    ASSUME NEW list, list \subseteq Pool, CanAlloc(list)
    PROVE  /\ Alloc(list) \in Nodes
           /\ Alloc(list) \in list \/ Alloc(list) \in FreeHeap
  BY DEF CanAlloc, Alloc, Nodes, FreeHeap

\* A step of any action preserves the types.
LEMMA TypeStep ==
    ASSUME TypeOK, [Next]_vars
    PROVE  TypeOK'
  <1> USE ConstantsAssumption DEF TypeOK
  <1>1. ASSUME NEW cb \in Callbacks, PostEvent(cb) PROVE TypeOK'
    <2> DEFINE n == Alloc(free_queue)
    <2>1. n \in Nodes
      BY <1>1, AllocIsNew DEF PostEvent, AppendEvent
    <2> HIDE DEF n
    <2>2. event_queue' \in Seq(Nodes)
      BY <1>1, <2>1 DEF PostEvent, AppendEvent, n
    <2>3. before' \subseteq Nodes \X Nodes
      BY <1>1, <2>1 DEF PostEvent, AppendEvent, Posted, Pending, Elems, n
    <2>4. node' \in [Nodes -> Event]
      BY <1>1, <2>1 DEF PostEvent, AppendEvent, Event, Handlers, Posters, n
    <2> QED BY <1>1, <2>1, <2>2, <2>3, <2>4 DEF PostEvent, AppendEvent, n
  <1>2. ASSUME NEW cb \in Callbacks, NEW d \in Delays, PostEventWithDelay(cb, d) PROVE TypeOK'
    <2> DEFINE n == Alloc(free_queue)
    <2>1. n \in Nodes
      BY <1>2, AllocIsNew DEF PostEventWithDelay
    <2>2. PICK k \in 0..Len(timer_queue) : timer_queue' = InsertAfter(timer_queue, k, n)
      BY <1>2 DEF PostEventWithDelay
    <2> HIDE DEF n
    <2>3. timer_queue' \in Seq(Nodes)
      BY <2>1, <2>2, InsertAfterIsSeq
    <2>4. node' \in [Nodes -> Event]
      BY <1>2, <2>1 DEF PostEventWithDelay, Event, Handlers, Posters, n
    <2>5. free_queue' \subseteq Pool
      BY <1>2 DEF PostEventWithDelay
    <2> QED BY <1>2, <2>3, <2>4, <2>5 DEF PostEventWithDelay
  <1>3. ASSUME NEW n \in Nodes, ForgetNode(n)
        PROVE  /\ node' \in [Nodes -> Event] /\ free_queue' \subseteq Pool
               /\ before' \subseteq Nodes \X Nodes /\ drain' \subseteq Nodes
    <2>1. NoEvent \in Event
      BY DEF NoEvent, Event, Posters
    <2>2. node' \in [Nodes -> Event]
      BY <1>3, <2>1 DEF ForgetNode
    <2> QED BY <1>3, <2>2 DEF ForgetNode, FreeNode, Removed
  <1>4. ASSUME NEW cb \in Callbacks, CancelQueued(cb) PROVE TypeOK'
    <2>1. PICK i \in 1..Len(event_queue) :
            /\ event_queue' = DropAt(event_queue, i)
            /\ event_last' = IF i < Len(event_queue) THEN event_last
                             ELSE IF i = 1 THEN NoNode ELSE event_queue[i - 1]
            /\ ForgetNode(event_queue[i])
      BY <1>4 DEF CancelQueued
    <2>2. event_queue' \in Seq(Nodes) /\ event_queue[i] \in Nodes
      BY <2>1, DropAtIsSeq
    <2>3. event_last' \in Nodes \cup {NoNode}
      BY <2>1
    <2> QED BY <1>3, <1>4, <2>1, <2>2, <2>3 DEF CancelQueued
  <1>5. ASSUME NEW cb \in Callbacks, CancelTimed(cb) PROVE TypeOK'
    <2>1. PICK i \in 1..Len(timer_queue) :
            /\ timer_queue' = DropAt(timer_queue, i)
            /\ ForgetNode(timer_queue[i])
      BY <1>5 DEF CancelTimed
    <2>2. timer_queue' \in Seq(Nodes) /\ timer_queue[i] \in Nodes
      BY <2>1, DropAtIsSeq
    <2> QED BY <1>3, <1>5, <2>1, <2>2 DEF CancelTimed
  <1>6. ASSUME NEW cb \in Callbacks, CancelWait(cb) PROVE TypeOK'
    BY <1>6 DEF CancelWait, Locations
  <1>7. CASE CancelReturn
    BY <1>7 DEF CancelReturn, Locations
  <1>8. CASE CancelEventLoop
    BY <1>8 DEF CancelEventLoop
  <1>9. Forever \in Nat
    BY DEF Forever
  <1>10. CASE ExitEventLoop
    <2>1. exit_event = ExitNode /\ ExitNode \in Nodes
      BY <1>10 DEF ExitEventLoop, Nodes
    <2>2. timer_queue' \in Seq(Nodes)
      BY <1>10, <2>1 DEF ExitEventLoop
    <2>3. node' \in [Nodes -> Event]
      BY <1>10, <2>1 DEF ExitEventLoop, Event, Handlers, Posters
    <2>4. drain' \subseteq Nodes
      BY <1>10 DEF ExitEventLoop, Pending, Elems
    <2>5. pc' \in Locations /\ deadline' \in Nat
      BY <1>9, <1>10 DEF ExitEventLoop, Signal, Locations
    <2> QED BY <1>10, <2>2, <2>3, <2>4, <2>5 DEF ExitEventLoop
  <1>11. ASSUME NEW t \in Threads, NEW cb \in Callbacks, NEW d \in Delays \cup {0},
                BgReadClock(t, cb, d)
         PROVE  TypeOK'
    <2>1. bg' \in [Threads -> BgState]
      BY <1>11 DEF BgReadClock, BgState
    <2> QED BY <1>11, <2>1 DEF BgReadClock
  <1>12. ASSUME NEW t \in Threads PROVE [bg EXCEPT ![t] = Idle] \in [Threads -> BgState]
    BY DEF Idle, BgState
  <1>13. ASSUME NEW t \in Threads, BgPostCancelled(t) PROVE TypeOK'
    BY <1>12, <1>13 DEF BgPostCancelled
  <1>14. ASSUME NEW t \in Threads, BgPost(t) PROVE TypeOK'
    <2> DEFINE n == Alloc(free_bg_queue)
    <2>1. n \in Nodes
      BY <1>14, AllocIsNew DEF BgPost
    <2>2. PICK k \in 0..Len(timer_queue) :
            /\ timer_queue' = InsertAfter(timer_queue, k, n)
            /\ IF bg[t].delay = 0 THEN Posted(n) ELSE UNCHANGED before
            /\ IF k = 0 THEN Signal ELSE UNCHANGED <<pc, deadline>>
      BY <1>14 DEF BgPost
    <2>3. /\ node' = [node EXCEPT ![n] = [cb |-> bg[t].cb, runtime |-> bg[t].runtime,
                                          delay |-> bg[t].delay, by |-> t]]
          /\ free_bg_queue' = free_bg_queue \ {n}
      BY <1>14 DEF BgPost
    <2> HIDE DEF n
    <2>4. timer_queue' \in Seq(Nodes)
      BY <2>1, <2>2, InsertAfterIsSeq
    <2>5. node' \in [Nodes -> Event]
      BY <2>1, <2>3 DEF Event, BgState, Handlers, Posters
    <2>6. before' \subseteq Nodes \X Nodes
      BY <2>1, <2>2 DEF Posted, Pending, Elems
    <2>7. pc' \in Locations /\ deadline' \in Nat
      BY <1>9, <2>2 DEF Signal, Locations
    <2> QED BY <1>12, <1>14, <2>3, <2>4, <2>5, <2>6, <2>7 DEF BgPost
  <1>15. CASE Tick
    BY <1>15 DEF Tick
  <1>16. CASE RunEventLoop
    BY <1>16 DEF RunEventLoop, Locations
  <1>17. ASSUME NEW q \in Seq(Nodes), NEW last \in Nodes \cup {NoNode}, NEW cnt \in Nat,
                q # <<>>, Dispatch(q, last, cnt)
         PROVE  /\ running' \in Nodes /\ event_queue' \in Seq(Nodes)
                /\ event_last' \in Nodes \cup {NoNode} /\ event_cnt' \in Nat
                /\ before' \subseteq Nodes \X Nodes /\ drain' \subseteq Nodes
                /\ pc' \in Locations /\ deadline' \in Nat
    BY <1>9, <1>17, TailElems DEF Dispatch, Removed, Locations
  <1>18. ASSUME Scan
         PROVE  /\ running' \in Nodes \cup {NoNode} /\ event_queue' \in Seq(Nodes)
                /\ timer_queue' \in Seq(Nodes)
                /\ event_last' \in Nodes \cup {NoNode} /\ event_cnt' \in Nat
                /\ before' \subseteq Nodes \X Nodes /\ drain' \subseteq Nodes
                /\ pc' \in Locations /\ deadline' \in Nat
    <2>1. PICK k \in 0..Len(timer_queue) :
            \/ /\ k > 0 \/ event_queue # <<>>
               /\ timer_queue' = SubSeq(timer_queue, k + 1, Len(timer_queue))
               /\ Dispatch(SubSeq(timer_queue, 1, k) \o event_queue, MovedLast(k), 0)
            \/ /\ k = 0 /\ event_queue = <<>>
               /\ pc' = "wait"
               /\ event_cnt' = 0
               /\ deadline' = IF timer_queue = <<>> THEN Forever
                              ELSE node[Head(timer_queue)].runtime
               /\ UNCHANGED <<event_queue, event_last, timer_queue, running, before, drain>>
      BY <1>18 DEF Scan
    <2>2. CASE pc' = "wait" /\ UNCHANGED <<event_queue, event_last, timer_queue, running, before, drain>>
               /\ event_cnt' = 0
               /\ deadline' = IF timer_queue = <<>> THEN Forever
                              ELSE node[Head(timer_queue)].runtime
      <3>1. deadline' \in Nat
        <4>1. timer_queue # <<>> => Head(timer_queue) \in Nodes
          BY TailElems
        <4>2. timer_queue # <<>> => node[Head(timer_queue)] \in Event
          BY <4>1
        <4> QED BY <1>9, <2>2, <4>2 DEF Event
      <3> QED BY <2>2, <3>1 DEF Locations
    <2>3. CASE /\ k > 0 \/ event_queue # <<>>
               /\ timer_queue' = SubSeq(timer_queue, k + 1, Len(timer_queue))
               /\ Dispatch(SubSeq(timer_queue, 1, k) \o event_queue, MovedLast(k), 0)
      <3> DEFINE all == SubSeq(timer_queue, 1, k) \o event_queue
      <3>1. all \in Seq(Nodes) /\ Len(all) = k + Len(event_queue) /\ timer_queue' \in Seq(Nodes)
        BY <2>3, MoveElems
      <3>2. Dispatch(all, MovedLast(k), 0)
        BY <2>3
      <3> HIDE DEF all
      <3>3. all # <<>>
        BY <2>3, <3>1
      <3>4. MovedLast(k) \in Nodes \cup {NoNode}
        BY DEF MovedLast
      <3> QED BY <1>17, <3>1, <3>2, <3>3, <3>4
    <2> QED BY <2>1, <2>2, <2>3
  <1>19. CASE LoopScan
    <2>1. free_queue' \subseteq Pool /\ free_bg_queue' \subseteq Pool /\ Scan
      BY <1>19 DEF LoopScan
    <2> QED BY <1>18, <1>19, <2>1 DEF LoopScan
  <1>20. CASE LoopPop
    <2>1. event_queue # <<>> /\ Dispatch(event_queue, event_last, event_cnt)
      BY <1>20 DEF LoopPop
    <2> QED BY <1>17, <1>20, <2>1 DEF LoopPop
  <1>21. CASE WaitTimeout \/ WaitSpurious
    BY <1>9, <1>21 DEF WaitTimeout, WaitSpurious, Locations
  <1>22. CASE Rescan
    BY <1>18, <1>22 DEF Rescan
  <1>23. NoEvent \in Event
    BY DEF NoEvent, Event, Posters
  <1>24. CASE HandlerReturn
    BY <1>23, <1>24 DEF HandlerReturn, ReleaseRunning, FreeNode, Locations
  <1>25. CASE ExitHandlerStop
    BY <1>23, <1>25 DEF ExitHandlerStop, ReleaseRunning, FreeNode, Locations
  <1>26. CASE ExitHandlerRepost
    <2> DEFINE n == Alloc(free_queue)
    <2>1. n \in Nodes
      BY <1>26, AllocIsNew DEF ExitHandlerRepost
    <2>2. /\ node' = [node EXCEPT ![n] = [cb |-> ExitCb, runtime |-> 0, delay |-> 0, by |-> Main],
                                  ![running] = NoEvent]
          /\ event_queue' = Append(event_queue, n) /\ event_last' = n
          /\ ReleaseRunning(free_queue \ {n})
      BY <1>26 DEF ExitHandlerRepost
    <2> HIDE DEF n
    <2>3. node' \in [Nodes -> Event]
      BY <1>23, <2>1, <2>2 DEF Event, Handlers, Posters
    <2>4. free_queue' \subseteq Pool /\ running' \in Nodes \cup {NoNode} /\ pc' \in Locations
      BY <2>2 DEF ReleaseRunning, FreeNode, Locations
    <2>5. event_queue' \in Seq(Nodes) /\ event_last' \in Nodes
      BY <2>1, <2>2
    <2> QED BY <1>26, <2>3, <2>4, <2>5 DEF ExitHandlerRepost
  <1>27. CASE LoopExit
    BY <1>27 DEF LoopExit, Locations
  <1>28. CASE UNCHANGED vars
    BY <1>28 DEF vars
  <1> QED BY <1>1, <1>2, <1>4, <1>5, <1>6, <1>7, <1>8, <1>10, <1>11, <1>13, <1>14, <1>15, <1>16,
             <1>19, <1>20, <1>21, <1>22, <1>24, <1>25, <1>26, <1>27, <1>28
          DEF Next, UserCode, LoopStep, BgInsert

\* The state after ini_events_queue() has the right types.
LEMMA InitTypeOK == Init => TypeOK
  <1> SUFFICES ASSUME Init PROVE TypeOK
    OBVIOUS
  <1>1. NoEvent \in Event /\ Idle \in BgState
    BY DEF NoEvent, Event, Idle, BgState, Posters
  <1>2. node \in [Nodes -> Event] /\ bg \in [Threads -> BgState]
    BY <1>1 DEF Init
  <1>3. /\ event_queue \in Seq(Nodes) /\ timer_queue \in Seq(Nodes)
        /\ free_queue \subseteq Pool /\ free_bg_queue \subseteq Pool
        /\ before \subseteq Nodes \X Nodes /\ drain \subseteq Nodes
    BY DEF Init
  <1>4. event_cnt \in Nat /\ deadline \in Nat /\ now \in Nat
    BY ConstantsAssumption DEF Init, Forever
  <1> QED BY <1>2, <1>3, <1>4, Zenon DEF Init, TypeOK, Locations

\* Every variable keeps its type, for any number of threads, callbacks and nodes.
THEOREM TypeCorrect == Spec => []TypeOK
  BY InitTypeOK, TypeStep, PTL DEF Spec

-----------------------------------------------------------------------------
(***************************************************************************)
(* Ownership of nodes                                                      *)
(***************************************************************************)

\* A handler's node is set exactly while code of the loop's caller or of a handler runs.
PcRunning ==
    /\ pc \in {"ini", "loop", "wait", "woken", "stopped"} => running = NoNode
    /\ pc = "handler" => running \in Nodes

Owned == TypeOK /\ PcRunning /\ NodeOwnership

\* A dispatch from a queue q takes one node out of it, when q and what is left of
\* timer_queue hold the pending nodes between them.
LEMMA DispatchOwned ==
    ASSUME TypeOK, NodeOwnership, running = NoNode,
           NEW q \in Seq(Nodes), q # <<>>, Injective(q),
           NEW last, NEW cnt, Dispatch(q, last, cnt),
           Injective(timer_queue'),
           Elems(q) \cap Elems(timer_queue') = {},
           Elems(q) \cup Elems(timer_queue') = Pending,
           free_queue' \cap free_bg_queue' = {},
           free_queue' \cup free_bg_queue' = free_queue \cup free_bg_queue,
           exit_event' = exit_event
    PROVE  PcRunning' /\ NodeOwnership'
  <1>1. /\ Elems(event_queue') = Elems(q) \ {Head(q)} /\ Injective(event_queue')
        /\ running' = Head(q) /\ Head(q) \in Elems(q) /\ pc' = "handler" /\ Head(q) \in Nodes
    <2>1. event_queue' = Tail(q) /\ running' = Head(q) /\ pc' = "handler"
      BY DEF Dispatch
    <2>2. /\ Head(q) \in Nodes /\ Head(q) = q[1] /\ 1 \in 1..Len(q)
          /\ Injective(Tail(q)) /\ Elems(Tail(q)) = Elems(q) \ {Head(q)}
      BY TailElems
    <2>3. Head(q) \in Elems(q)
      BY <2>2, ElemsMember
    <2> QED BY <2>1, <2>2, <2>3
  <1>2. NoNode \notin Nodes
    BY ConstantsAssumption DEF Nodes
  <1>3. Pending' = Pending \ {running'}
    BY <1>1 DEF Pending
  <1>4. InUse' = InUse
    BY <1>1, <1>2, <1>3 DEF InUse
  <1> QED BY <1>1, <1>3, <1>4 DEF NodeOwnership, PcRunning

\* The nodes after Scan has moved the first k timers to the front of event_queue.
LEMMA MoveOwned ==
    ASSUME NEW S, NEW q \in Seq(S), NEW e \in Seq(S), NEW k \in 0..Len(q),
           Injective(q), Injective(e), Elems(q) \cap Elems(e) = {}
    PROVE  LET suf == SubSeq(q, k + 1, Len(q))
               all == SubSeq(q, 1, k) \o e
           IN /\ Injective(suf) /\ Injective(all)
              /\ Elems(all) \cap Elems(suf) = {}
              /\ Elems(all) \cup Elems(suf) = Elems(q) \cup Elems(e)
              /\ \A i \in 1..k : q[i] \in Elems(all)
              /\ Elems(e) \subseteq Elems(all)
              /\ \A n \in Elems(all) : n \in Elems(e) \/ \E i \in 1..k : n = q[i]
              /\ \A n \in Elems(suf) : \E i \in (k + 1)..Len(q) : n = q[i]
  <1> DEFINE suf == SubSeq(q, k + 1, Len(q))
             all == SubSeq(q, 1, k) \o e
  <1>1. /\ suf \in Seq(S) /\ all \in Seq(S)
        /\ Len(suf) = Len(q) - k /\ Len(all) = k + Len(e)
        /\ \A i \in 1..Len(suf) : suf[i] = q[k + i]
        /\ \A i \in 1..Len(all) : all[i] = IF i <= k THEN q[i] ELSE e[i - k]
    BY MoveElems
  <1> HIDE DEF suf, all
  <1>2. Injective(suf)
    <2> SUFFICES ASSUME NEW i \in 1..Len(suf), NEW j \in 1..Len(suf), i # j
                 PROVE  suf[i] # suf[j]
      BY DEF Injective
    <2>1. /\ suf[i] = q[k + i] /\ suf[j] = q[k + j]
          /\ k + i \in 1..Len(q) /\ k + j \in 1..Len(q) /\ k + i # k + j
      BY <1>1
    <2> QED BY <2>1 DEF Injective
  <1>3. \A i \in 1..Len(q), j \in 1..Len(e) : q[i] # e[j]
    BY DEF Elems
  <1>4. Injective(all)
    <2> SUFFICES ASSUME NEW i \in 1..Len(all), NEW j \in 1..Len(all), i < j
                 PROVE  all[i] # all[j]
      BY <1>1 DEF Injective
    <2>1. CASE j <= k
      <3>1. all[i] = q[i] /\ i \in 1..Len(q) /\ all[j] = q[j] /\ j \in 1..Len(q) /\ i # j
        BY <1>1, <2>1
      <3> QED BY <3>1 DEF Injective
    <2>2. CASE i <= k /\ k < j
      <3>1. all[i] = q[i] /\ i \in 1..Len(q) /\ all[j] = e[j - k] /\ j - k \in 1..Len(e)
        BY <1>1, <2>2
      <3> QED BY <1>3, <3>1
    <2>3. CASE k < i
      <3>1. /\ all[i] = e[i - k] /\ i - k \in 1..Len(e) /\ all[j] = e[j - k]
            /\ j - k \in 1..Len(e) /\ i - k # j - k
        BY <1>1, <2>3
      <3> QED BY <3>1 DEF Injective
    <2> QED BY <1>1, <2>1, <2>2, <2>3
  <1>5. ASSUME NEW n \in Elems(suf) PROVE \E i \in (k + 1)..Len(q) : n = q[i]
    <2>1. PICK j \in 1..Len(suf) : n = suf[j]
      BY ElemsMember
    <2>2. n = q[k + j] /\ k + j \in (k + 1)..Len(q)
      BY <1>1, <2>1
    <2> QED BY <2>2
  <1>6. ASSUME NEW n \in Elems(all) PROVE n \in Elems(e) \/ \E i \in 1..k : n = q[i]
    <2>1. PICK j \in 1..Len(all) : n = all[j]
      BY ElemsMember
    <2>2. CASE j <= k
      <3>1. n = q[j] /\ j \in 1..k
        BY <1>1, <2>1, <2>2
      <3> QED BY <3>1
    <2>3. CASE j > k
      <3>1. n = e[j - k] /\ j - k \in 1..Len(e)
        BY <1>1, <2>1, <2>3
      <3> QED BY <3>1, ElemsMember
    <2>4. j <= k \/ j > k
      OBVIOUS
    <2> QED BY <2>2, <2>3, <2>4, Zenon
  <1>7. ASSUME NEW i \in 1..k PROVE q[i] \in Elems(all)
    <2>1. i \in 1..Len(all) /\ all[i] = q[i]
      BY <1>1
    <2> QED BY <2>1, ElemsMember
  <1>8. Elems(e) \subseteq Elems(all)
    <2> SUFFICES ASSUME NEW j \in 1..Len(e) PROVE e[j] \in Elems(all)
      BY DEF Elems
    <2>1. k + j \in 1..Len(all) /\ ~(k + j <= k) /\ (k + j) - k = j
      BY <1>1
    <2>2. all[k + j] = e[j]
      BY <1>1, <2>1
    <2> QED BY <2>1, <2>2, ElemsMember
  <1>9. ASSUME NEW i \in (k + 1)..Len(q) PROVE q[i] \in Elems(suf)
    <2>1. i - k \in 1..Len(suf) /\ suf[i - k] = q[i]
      BY <1>1
    <2> QED BY <2>1 DEF Elems
  <1>10. Elems(all) \cap Elems(suf) = {}
    <2> SUFFICES ASSUME NEW n \in Elems(all), n \in Elems(suf) PROVE FALSE
      OBVIOUS
    <2>1. PICK i \in (k + 1)..Len(q) : n = q[i]
      BY <1>5
    <2>2. i \in 1..Len(q) /\ n \in Elems(q)
      BY <2>1 DEF Elems
    <2>3. PICK j \in 1..k : n = q[j]
      BY <1>6, <2>2
    <2>4. j \in 1..Len(q) /\ i # j
      OBVIOUS
    <2> QED BY <2>1, <2>2, <2>3, <2>4 DEF Injective
  <1>11. Elems(all) \cup Elems(suf) = Elems(q) \cup Elems(e)
    <2>1. ASSUME NEW n \in Elems(q) PROVE n \in Elems(all) \cup Elems(suf)
      <3>1. PICK i \in 1..Len(q) : n = q[i]
        BY ElemsMember
      <3>2. CASE i <= k
        BY <1>7, <3>1, <3>2
      <3>3. CASE i > k
        BY <1>9, <3>1, <3>3
      <3> QED BY <3>2, <3>3
    <2>2. \A n \in Elems(all) : n \in Elems(q) \/ n \in Elems(e)
      BY <1>6, ElemsMember
    <2>3. ASSUME NEW n \in Elems(suf) PROVE n \in Elems(q)
      <3>1. PICK i \in (k + 1)..Len(q) : n = q[i]
        BY <1>5
      <3>2. i \in 1..Len(q)
        OBVIOUS
      <3> QED BY <3>1, <3>2, ElemsMember
    <2> QED BY <1>8, <2>1, <2>2, <2>3
  <1> QED BY <1>2, <1>4, <1>5, <1>6, <1>7, <1>8, <1>10, <1>11 DEF suf, all

\* Scan dispatches or waits, and leaves every node with one owner.
LEMMA ScanOwned ==
    ASSUME TypeOK, NodeOwnership, running = NoNode, Scan,
           free_queue' \cap free_bg_queue' = {},
           free_queue' \cup free_bg_queue' = free_queue \cup free_bg_queue,
           exit_event' = exit_event
    PROVE  PcRunning' /\ NodeOwnership'
  <1>1. PICK k \in 0..Len(timer_queue) :
          \/ /\ k > 0 \/ event_queue # <<>>
             /\ timer_queue' = SubSeq(timer_queue, k + 1, Len(timer_queue))
             /\ Dispatch(SubSeq(timer_queue, 1, k) \o event_queue, MovedLast(k), 0)
          \/ /\ pc' = "wait"
             /\ UNCHANGED <<event_queue, timer_queue, running>>
    BY DEF Scan
  <1>2. CASE /\ pc' = "wait"
             /\ UNCHANGED <<event_queue, timer_queue, running>>
    <2>1. UNCHANGED <<Pending, InUse>>
      BY <1>2 DEF Pending, InUse
    <2> QED BY <1>2, <2>1 DEF NodeOwnership, PcRunning
  <1>3. CASE /\ k > 0 \/ event_queue # <<>>
             /\ timer_queue' = SubSeq(timer_queue, k + 1, Len(timer_queue))
             /\ Dispatch(SubSeq(timer_queue, 1, k) \o event_queue, MovedLast(k), 0)
    <2> DEFINE all == SubSeq(timer_queue, 1, k) \o event_queue
    <2>1. all \in Seq(Nodes) /\ Len(all) = k + Len(event_queue)
      BY MoveElems DEF TypeOK
    <2>2. /\ Injective(timer_queue') /\ Injective(all)
          /\ Elems(all) \cap Elems(timer_queue') = {}
          /\ Elems(all) \cup Elems(timer_queue') = Elems(timer_queue) \cup Elems(event_queue)
      BY <1>3, MoveOwned DEF TypeOK, NodeOwnership
    <2>3. Dispatch(all, MovedLast(k), 0)
      BY <1>3
    <2> HIDE DEF all
    <2>4. all # <<>>
      BY <1>3, <2>1 DEF TypeOK
    <2>5. Elems(all) \cup Elems(timer_queue') = Pending
      BY <2>2 DEF Pending
    <2> QED BY <2>1, <2>2, <2>3, <2>4, <2>5, DispatchOwned
  <1> QED BY <1>1, <1>2, <1>3

\* A node that is taken from a free list or from the heap is in use nowhere.
LEMMA AllocUnused ==
    ASSUME TypeOK, NodeOwnership, NEW list, CanAlloc(list),
           list = free_queue \/ list = free_bg_queue
    PROVE  /\ Alloc(list) \in Nodes \ InUse
           /\ Alloc(list) # exit_event
           /\ Alloc(list) \in free_queue \cup free_bg_queue => Alloc(list) \in list
  <1>1. Alloc(list) \in Nodes /\ (Alloc(list) \in list \/ Alloc(list) \in FreeHeap)
    BY AllocIsNew DEF TypeOK
  <1>2. list \subseteq Pool
    BY DEF TypeOK
  <1>3. Alloc(list) \in Pool \cup Heap
    BY <1>1, <1>2 DEF FreeHeap
  <1>4. Alloc(list) # exit_event
    BY <1>3, ConstantsAssumption DEF TypeOK
  <1>5. Alloc(list) \notin InUse
    BY <1>1 DEF FreeHeap, NodeOwnership
  <1>6. Alloc(list) \in Pool => Alloc(list) \in list
    BY <1>1, ConstantsAssumption DEF FreeHeap
  <1> QED BY <1>1, <1>4, <1>5, <1>6 DEF TypeOK

\* A step of any action leaves every node with one owner.
LEMMA OwnedStep ==
    ASSUME Owned, [Next]_vars
    PROVE  Owned'
  <1> USE DEF Owned
  <1>1. TypeOK'
    BY TypeStep
  <1> SUFFICES PcRunning' /\ NodeOwnership'
    BY <1>1
  <1>2. NoNode \notin Nodes /\ Pool \subseteq Nodes /\ ExitNode \in Nodes \ Pool
    BY ConstantsAssumption DEF Nodes
  <1>3. ASSUME NEW cb \in Callbacks, PostEvent(cb) PROVE PcRunning' /\ NodeOwnership'
    <2> DEFINE n == Alloc(free_queue)
    <2>1. n \in Nodes \ InUse /\ n # exit_event /\ n \notin free_bg_queue \ free_queue
      BY <1>3, AllocUnused DEF PostEvent, AppendEvent
    <2>2. event_queue' = Append(event_queue, n) /\ free_queue' = free_queue \ {n}
      BY <1>3 DEF PostEvent, AppendEvent
    <2> HIDE DEF n
    <2>3. UNCHANGED <<timer_queue, free_bg_queue, exit_event, pc, running>>
      BY <1>3 DEF PostEvent
    <2>4. n \notin Elems(event_queue) /\ n \notin Elems(timer_queue) /\ n # running
      BY <1>2, <2>1 DEF InUse, Pending
    <2>5. Elems(event_queue') = Elems(event_queue) \cup {n} /\ Injective(event_queue')
      BY <2>1, <2>2, <2>4, AppendElems DEF TypeOK, NodeOwnership
    <2>6. Pending' = Pending \cup {n} /\ InUse' = InUse \cup {n}
      BY <2>3, <2>5 DEF Pending, InUse
    <2> QED BY <2>1, <2>2, <2>3, <2>4, <2>5, <2>6 DEF NodeOwnership, PcRunning
  <1>4. ASSUME NEW cb \in Callbacks, NEW d \in Delays, PostEventWithDelay(cb, d)
        PROVE  PcRunning' /\ NodeOwnership'
    <2> DEFINE n == Alloc(free_queue)
    <2>1. n \in Nodes \ InUse /\ n # exit_event /\ n \notin free_bg_queue \ free_queue
      BY <1>4, AllocUnused DEF PostEventWithDelay
    <2>2. PICK k \in 0..Len(timer_queue) : timer_queue' = InsertAfter(timer_queue, k, n)
      BY <1>4 DEF PostEventWithDelay
    <2>3. free_queue' = free_queue \ {n}
      BY <1>4 DEF PostEventWithDelay
    <2> HIDE DEF n
    <2>4. UNCHANGED <<event_queue, free_bg_queue, exit_event, pc, running>>
      BY <1>4 DEF PostEventWithDelay
    <2>5. n \notin Elems(event_queue) /\ n \notin Elems(timer_queue) /\ n # running
      BY <1>2, <2>1 DEF InUse, Pending
    <2>6. Elems(timer_queue') = Elems(timer_queue) \cup {n} /\ Injective(timer_queue')
      BY <2>1, <2>2, <2>5, InsertAfterElems DEF TypeOK, NodeOwnership
    <2>7. Pending' = Pending \cup {n} /\ InUse' = InUse \cup {n}
      BY <2>4, <2>6 DEF Pending, InUse
    <2> QED BY <2>1, <2>3, <2>4, <2>5, <2>6, <2>7 DEF NodeOwnership, PcRunning
  <1>5. ASSUME NEW cb \in Callbacks, CancelQueued(cb) PROVE PcRunning' /\ NodeOwnership'
    <2>1. PICK i \in 1..Len(event_queue) :
            /\ event_queue' = DropAt(event_queue, i)
            /\ ForgetNode(event_queue[i])
      BY <1>5 DEF CancelQueued
    <2> DEFINE n == event_queue[i]
    <2>2. n \in Elems(event_queue)
      BY ElemsMember
    <2>3. Elems(event_queue') = Elems(event_queue) \ {n} /\ Injective(event_queue')
      BY <2>1, DropAtElems DEF TypeOK, NodeOwnership
    <2>4. free_queue' = FreeNode(n, free_queue)
      BY <2>1 DEF ForgetNode
    <2> HIDE DEF n
    <2>5. UNCHANGED <<timer_queue, free_bg_queue, exit_event, pc, running>>
      BY <1>5 DEF CancelQueued
    <2>6. Pending' = Pending \ {n} /\ InUse' = InUse \ {n}
      BY <2>2, <2>3, <2>5 DEF Pending, InUse, NodeOwnership
    <2>7. n \in InUse
      BY <2>2 DEF Pending, InUse
    <2> QED BY <2>2, <2>3, <2>4, <2>5, <2>6, <2>7 DEF NodeOwnership, PcRunning, FreeNode
  <1>6. ASSUME NEW cb \in Callbacks, CancelTimed(cb) PROVE PcRunning' /\ NodeOwnership'
    <2>1. PICK i \in 1..Len(timer_queue) :
            /\ timer_queue' = DropAt(timer_queue, i)
            /\ ForgetNode(timer_queue[i])
      BY <1>6 DEF CancelTimed
    <2> DEFINE n == timer_queue[i]
    <2>2. n \in Elems(timer_queue)
      BY ElemsMember
    <2>3. Elems(timer_queue') = Elems(timer_queue) \ {n} /\ Injective(timer_queue')
      BY <2>1, DropAtElems DEF TypeOK, NodeOwnership
    <2>4. free_queue' = FreeNode(n, free_queue)
      BY <2>1 DEF ForgetNode
    <2> HIDE DEF n
    <2>5. UNCHANGED <<event_queue, free_bg_queue, exit_event, pc, running>>
      BY <1>6 DEF CancelTimed
    <2>6. Pending' = Pending \ {n} /\ InUse' = InUse \ {n}
      BY <2>2, <2>3, <2>5 DEF Pending, InUse, NodeOwnership
    <2>7. n \in InUse
      BY <2>2 DEF Pending, InUse
    <2> QED BY <2>2, <2>3, <2>4, <2>5, <2>6, <2>7 DEF NodeOwnership, PcRunning, FreeNode
  <1>7. ASSUME UNCHANGED <<event_queue, timer_queue, free_queue, free_bg_queue, exit_event, running>>
        PROVE  NodeOwnership'
    <2>1. UNCHANGED <<Pending, InUse>>
      BY <1>7 DEF Pending, InUse
    <2> QED BY <1>7, <2>1 DEF NodeOwnership
  <1>8. ASSUME NEW cb \in Callbacks, CancelWait(cb) PROVE PcRunning' /\ NodeOwnership'
    BY <1>7, <1>8 DEF CancelWait, PcRunning
  <1>9. CASE CancelReturn
    BY <1>2, <1>7, <1>9 DEF CancelReturn, PcRunning, TypeOK
  <1>10. CASE CancelEventLoop
    BY <1>7, <1>10 DEF CancelEventLoop, PcRunning
  <1>11. CASE ExitEventLoop
    <2>1. exit_event = ExitNode /\ exit_event' = NoNode /\ timer_queue' = <<ExitNode>> \o timer_queue
      BY <1>11 DEF ExitEventLoop, TypeOK
    <2>2. UNCHANGED <<event_queue, free_queue, free_bg_queue, running>>
      BY <1>11 DEF ExitEventLoop
    <2>3. PcRunning'
      BY <1>11 DEF ExitEventLoop, Signal, PcRunning
    <2>4. ExitNode \notin InUse /\ ExitNode \notin Elems(timer_queue) /\ ExitNode \notin Elems(event_queue)
      BY <2>1 DEF NodeOwnership, InUse, Pending
    <2>5. timer_queue' = InsertAfter(timer_queue, 0, ExitNode)
      BY <2>1, <1>2 DEF InsertAfter, TypeOK
    <2>6. 0 \in 0..Len(timer_queue)
      BY DEF TypeOK
    <2>7. Elems(timer_queue') = Elems(timer_queue) \cup {ExitNode} /\ Injective(timer_queue')
      BY <1>2, <2>4, <2>5, <2>6, InsertAfterElems DEF TypeOK, NodeOwnership
    <2>8. Pending' = Pending \cup {ExitNode} /\ InUse' = InUse \cup {ExitNode}
      BY <2>2, <2>7 DEF Pending, InUse
    <2>9. running # ExitNode
      BY <1>2, <2>4 DEF InUse
    <2>10. NoNode \notin InUse'
      BY <1>1, <1>2 DEF InUse, Pending, Elems, TypeOK
    <2> QED BY <1>2, <2>1, <2>2, <2>3, <2>4, <2>7, <2>8, <2>9, <2>10 DEF NodeOwnership, TypeOK
  <1>12. ASSUME NEW t \in Threads, NEW cb \in Callbacks, NEW d \in Delays \cup {0},
                BgReadClock(t, cb, d)
         PROVE  PcRunning' /\ NodeOwnership'
    BY <1>7, <1>12 DEF BgReadClock, PcRunning
  <1>13. ASSUME NEW t \in Threads, BgPostCancelled(t) PROVE PcRunning' /\ NodeOwnership'
    BY <1>7, <1>13 DEF BgPostCancelled, PcRunning
  <1>14. ASSUME NEW t \in Threads, BgPost(t) PROVE PcRunning' /\ NodeOwnership'
    <2> DEFINE n == Alloc(free_bg_queue)
    <2>1. n \in Nodes \ InUse /\ n # exit_event /\ n \notin free_queue \ free_bg_queue
      BY <1>14, AllocUnused DEF BgPost
    <2>2. PICK k \in 0..Len(timer_queue) :
            /\ timer_queue' = InsertAfter(timer_queue, k, n)
            /\ IF k = 0 THEN Signal ELSE UNCHANGED <<pc, deadline>>
      BY <1>14 DEF BgPost
    <2>3. free_bg_queue' = free_bg_queue \ {n}
      BY <1>14 DEF BgPost
    <2> HIDE DEF n
    <2>4. UNCHANGED <<event_queue, free_queue, exit_event, running>>
      BY <1>14 DEF BgPost
    <2>5. n \notin Elems(event_queue) /\ n \notin Elems(timer_queue) /\ n # running
      BY <1>2, <2>1 DEF InUse, Pending
    <2>6. Elems(timer_queue') = Elems(timer_queue) \cup {n} /\ Injective(timer_queue')
      BY <2>1, <2>2, <2>5, InsertAfterElems DEF TypeOK, NodeOwnership
    <2>7. Pending' = Pending \cup {n} /\ InUse' = InUse \cup {n}
      BY <2>4, <2>6 DEF Pending, InUse
    <2>8. PcRunning'
      BY <2>2, <2>4 DEF Signal, PcRunning
    <2> QED BY <2>1, <2>3, <2>4, <2>5, <2>6, <2>7, <2>8 DEF NodeOwnership
  <1>15. CASE Tick
    BY <1>7, <1>15 DEF Tick, PcRunning
  <1>16. CASE RunEventLoop
    BY <1>7, <1>16 DEF RunEventLoop, PcRunning
  <1>17. CASE LoopScan
    <2>1. /\ running = NoNode /\ Scan /\ exit_event' = exit_event
          /\ free_queue' \cup free_bg_queue' = free_queue \cup free_bg_queue
          /\ free_queue' \cap free_bg_queue' = {}
      BY <1>17 DEF LoopScan, PcRunning, NodeOwnership
    <2> QED BY <2>1, ScanOwned
  <1>18. CASE LoopPop
    <2>1. /\ running = NoNode /\ event_queue # <<>> /\ Dispatch(event_queue, event_last, event_cnt)
          /\ UNCHANGED <<timer_queue, free_queue, free_bg_queue, exit_event>>
      BY <1>18 DEF LoopPop, PcRunning
    <2>2. /\ event_queue \in Seq(Nodes) /\ Injective(event_queue) /\ Injective(timer_queue')
          /\ Elems(event_queue) \cap Elems(timer_queue') = {}
          /\ Elems(event_queue) \cup Elems(timer_queue') = Pending
          /\ free_queue' \cap free_bg_queue' = {}
          /\ free_queue' \cup free_bg_queue' = free_queue \cup free_bg_queue
      BY <2>1 DEF TypeOK, NodeOwnership, Pending
    <2> QED BY <2>1, <2>2, DispatchOwned
  <1>19. CASE WaitTimeout \/ WaitSpurious
    BY <1>7, <1>19 DEF WaitTimeout, WaitSpurious, PcRunning
  <1>20. CASE Rescan
    <2>1. /\ running = NoNode /\ Scan /\ exit_event' = exit_event
          /\ free_queue' \cup free_bg_queue' = free_queue \cup free_bg_queue
          /\ free_queue' \cap free_bg_queue' = {}
      BY <1>20 DEF Rescan, PcRunning, NodeOwnership
    <2> QED BY <2>1, ScanOwned
  <1>21. CASE HandlerReturn \/ ExitHandlerStop
    <2>1. /\ UNCHANGED <<event_queue, timer_queue, free_bg_queue, exit_event>>
          /\ free_queue' = FreeNode(running, free_queue) /\ running' = NoNode /\ pc' = "loop"
          /\ running \in Nodes
      BY <1>21 DEF HandlerReturn, ExitHandlerStop, ReleaseRunning, PcRunning
    <2>2. Pending' = Pending /\ InUse' = Pending /\ InUse = Pending \cup {running}
      BY <1>2, <2>1 DEF Pending, InUse
    <2>3. NoNode \notin Pending
      BY <1>2 DEF Pending, Elems, TypeOK
    <2> QED BY <1>2, <2>1, <2>2, <2>3 DEF NodeOwnership, PcRunning, FreeNode
  <1>22. CASE ExitHandlerRepost
    <2> DEFINE n == Alloc(free_queue)
    <2>1. n \in Nodes \ InUse /\ n # exit_event /\ n \notin free_bg_queue \ free_queue
      BY <1>22, AllocUnused DEF ExitHandlerRepost
    <2>2. /\ event_queue' = Append(event_queue, n)
          /\ free_queue' = FreeNode(running, free_queue \ {n})
          /\ running' = NoNode /\ pc' = "loop" /\ running \in Nodes
      BY <1>22 DEF ExitHandlerRepost, ReleaseRunning, PcRunning
    <2> HIDE DEF n
    <2>3. UNCHANGED <<timer_queue, free_bg_queue, exit_event>>
      BY <1>22 DEF ExitHandlerRepost
    <2>4. n \notin Elems(event_queue) /\ n \notin Elems(timer_queue) /\ n # running
      BY <1>2, <2>1, <2>2 DEF InUse, Pending
    <2>5. Elems(event_queue') = Elems(event_queue) \cup {n} /\ Injective(event_queue')
      BY <2>1, <2>2, <2>4, AppendElems DEF TypeOK, NodeOwnership
    <2>6. Pending' = Pending \cup {n} /\ InUse' = Pending \cup {n} /\ InUse = Pending \cup {running}
      BY <1>2, <2>2, <2>3, <2>5 DEF Pending, InUse
    <2>7. NoNode \notin Pending'
      BY <1>1, <1>2 DEF Pending, Elems, TypeOK
    <2> QED BY <1>2, <2>1, <2>2, <2>3, <2>4, <2>5, <2>6, <2>7 DEF NodeOwnership, PcRunning, FreeNode
  <1>23. CASE LoopExit
    BY <1>7, <1>23 DEF LoopExit, PcRunning
  <1>24. CASE UNCHANGED vars
    BY <1>7, <1>24 DEF vars, PcRunning
  <1> QED BY <1>1, <1>3, <1>4, <1>5, <1>6, <1>8, <1>9, <1>10, <1>11, <1>12, <1>13, <1>14, <1>15,
             <1>16, <1>17, <1>18, <1>19, <1>20, <1>21, <1>22, <1>23, <1>24
          DEF Next, UserCode, LoopStep, BgInsert

\* The state after ini_events_queue() satisfies it.
LEMMA InitOwned == Init => Owned
  <1> SUFFICES ASSUME Init PROVE Owned
    OBVIOUS
  <1>1. TypeOK
    BY InitTypeOK
  <1>2. Elems(event_queue) = {} /\ Elems(timer_queue) = {}
    BY DEF Init, Elems
  <1>3. Pending = {} /\ InUse = {}
    BY <1>2 DEF Pending, InUse, Init
  <1>4. Injective(event_queue) /\ Injective(timer_queue)
    BY DEF Init, Injective
  <1> QED BY <1>1, <1>2, <1>3, <1>4 DEF Owned, NodeOwnership, PcRunning, Init

\* No node is ever in two places or lost, whatever the threads, the handlers and the
\* loop do: alloc_event_node, free_event_node and the hand-over between the free lists.
THEOREM OwnershipCorrect == Spec => []NodeOwnership
  <1>1. Owned => NodeOwnership
    BY DEF Owned
  <1> QED BY <1>1, InitOwned, OwnedStep, PTL DEF Spec

\* The loop moves and dispatches nodes, and takes none into use.
LEMMA LoopInUse ==
    ASSUME Owned, LoopScan \/ Rescan \/ LoopPop
    PROVE  InUse' \subseteq InUse
  <1> USE DEF Owned
  <1>1. running = NoNode
    BY DEF LoopScan, Rescan, LoopPop, PcRunning
  <1>2. ASSUME NEW q \in Seq(Nodes), q # <<>>, Injective(q), NEW last, NEW cnt, Dispatch(q, last, cnt),
               Elems(q) \subseteq Pending, Elems(timer_queue') \subseteq Pending
        PROVE  InUse' \subseteq InUse
    <2>1. Elems(event_queue') \subseteq Elems(q) /\ running' \in Elems(q)
      <3>1. /\ Head(q) = q[1] /\ 1 \in 1..Len(q) /\ Elems(Tail(q)) = Elems(q) \ {Head(q)}
        BY <1>2, TailElems
      <3>2. Head(q) \in Elems(q)
        BY <3>1, ElemsMember
      <3> QED BY <1>2, <3>1, <3>2 DEF Dispatch
    <2> QED BY <1>2, <2>1 DEF InUse, Pending
  <1>3. CASE LoopPop
    BY <1>2, <1>3 DEF LoopPop, Pending, TypeOK, NodeOwnership
  <1>4. ASSUME Scan PROVE InUse' \subseteq InUse
    <2>1. PICK k \in 0..Len(timer_queue) :
            \/ /\ k > 0 \/ event_queue # <<>>
               /\ timer_queue' = SubSeq(timer_queue, k + 1, Len(timer_queue))
               /\ Dispatch(SubSeq(timer_queue, 1, k) \o event_queue, MovedLast(k), 0)
            \/ UNCHANGED <<event_queue, timer_queue, running>>
      BY <1>4 DEF Scan
    <2>2. CASE UNCHANGED <<event_queue, timer_queue, running>>
      BY <2>2 DEF InUse, Pending
    <2>3. CASE /\ k > 0 \/ event_queue # <<>>
               /\ timer_queue' = SubSeq(timer_queue, k + 1, Len(timer_queue))
               /\ Dispatch(SubSeq(timer_queue, 1, k) \o event_queue, MovedLast(k), 0)
      <3> DEFINE all == SubSeq(timer_queue, 1, k) \o event_queue
      <3>1. all \in Seq(Nodes) /\ Len(all) = k + Len(event_queue)
        BY MoveElems DEF TypeOK
      <3>2. /\ Injective(all)
            /\ Elems(all) \cup Elems(timer_queue') = Elems(timer_queue) \cup Elems(event_queue)
        BY <2>3, MoveOwned DEF TypeOK, NodeOwnership
      <3>3. Dispatch(all, MovedLast(k), 0)
        BY <2>3
      <3> HIDE DEF all
      <3>4. all # <<>>
        BY <2>3, <3>1 DEF TypeOK
      <3> QED BY <1>2, <3>1, <3>2, <3>3, <3>4 DEF Pending
    <2> QED BY <2>1, <2>2, <2>3
  <1> QED BY <1>3, <1>4 DEF LoopScan, Rescan

\* A node that stays in use keeps its contents.
LEMMA NodeKept ==
    ASSUME Owned, [Next]_vars, NEW n \in InUse, n \in InUse'
    PROVE  node'[n] = node[n]
  <1> USE DEF Owned
  <1>1. NoNode \notin Nodes
    BY ConstantsAssumption DEF Nodes
  <1>2. n \in Nodes
    BY DEF InUse, Pending, Elems, TypeOK
  <1>3. ASSUME NEW cb \in Callbacks, PostEvent(cb) PROVE node'[n] = node[n]
    BY <1>2, <1>3, AllocUnused DEF PostEvent, AppendEvent, TypeOK
  <1>4. ASSUME NEW cb \in Callbacks, NEW d \in Delays, PostEventWithDelay(cb, d)
        PROVE  node'[n] = node[n]
    BY <1>2, <1>4, AllocUnused DEF PostEventWithDelay, TypeOK
  <1>5. ASSUME NEW cb \in Callbacks, CancelQueued(cb) PROVE node'[n] = node[n]
    <2>1. PICK i \in 1..Len(event_queue) :
            /\ event_queue' = DropAt(event_queue, i)
            /\ ForgetNode(event_queue[i])
      BY <1>5 DEF CancelQueued
    <2> DEFINE m == event_queue[i]
    <2>2. Elems(event_queue') = Elems(event_queue) \ {m} /\ m \in Elems(event_queue)
      BY <2>1, DropAtElems, ElemsMember DEF TypeOK, NodeOwnership
    <2>3. node' = [node EXCEPT ![m] = NoEvent]
      BY <2>1 DEF ForgetNode
    <2> HIDE DEF m
    <2>4. n # m
      BY <1>5, <2>2 DEF CancelQueued, InUse, Pending, NodeOwnership
    <2> QED BY <1>2, <2>3, <2>4 DEF TypeOK
  <1>6. ASSUME NEW cb \in Callbacks, CancelTimed(cb) PROVE node'[n] = node[n]
    <2>1. PICK i \in 1..Len(timer_queue) :
            /\ timer_queue' = DropAt(timer_queue, i)
            /\ ForgetNode(timer_queue[i])
      BY <1>6 DEF CancelTimed
    <2> DEFINE m == timer_queue[i]
    <2>2. Elems(timer_queue') = Elems(timer_queue) \ {m} /\ m \in Elems(timer_queue)
      BY <2>1, DropAtElems, ElemsMember DEF TypeOK, NodeOwnership
    <2>3. node' = [node EXCEPT ![m] = NoEvent]
      BY <2>1 DEF ForgetNode
    <2> HIDE DEF m
    <2>4. n # m
      BY <1>6, <2>2 DEF CancelTimed, InUse, Pending, NodeOwnership
    <2> QED BY <1>2, <2>3, <2>4 DEF TypeOK
  <1>7. CASE ExitEventLoop
    BY <1>2, <1>7 DEF ExitEventLoop, NodeOwnership, TypeOK
  <1>8. ASSUME NEW t \in Threads, BgPost(t) PROVE node'[n] = node[n]
    BY <1>2, <1>8, AllocUnused DEF BgPost, TypeOK
  <1>9. CASE HandlerReturn \/ ExitHandlerStop
    <2>1. running' = NoNode /\ running \notin Pending' /\ node' = [node EXCEPT ![running] = NoEvent]
      BY <1>9 DEF HandlerReturn, ExitHandlerStop, ReleaseRunning, Pending, NodeOwnership
    <2>2. n # running
      BY <1>1, <1>2, <2>1 DEF InUse
    <2> QED BY <1>2, <2>1, <2>2 DEF TypeOK
  <1>10. CASE ExitHandlerRepost
    <2> DEFINE m == Alloc(free_queue)
    <2>1. m \in Nodes \ InUse /\ running # NoNode
      BY <1>1, <1>10, AllocUnused DEF ExitHandlerRepost, PcRunning
    <2>2. /\ running' = NoNode /\ event_queue' = Append(event_queue, m) /\ timer_queue' = timer_queue
          /\ node' = [node EXCEPT ![m] = [cb |-> ExitCb, runtime |-> 0, delay |-> 0, by |-> Main],
                                  ![running] = NoEvent]
      BY <1>10 DEF ExitHandlerRepost, ReleaseRunning
    <2> HIDE DEF m
    <2>3. Pending' = Pending \cup {m}
      BY <2>1, <2>2, AppendElems DEF Pending, TypeOK
    <2>4. n # running
      <3>1. running \in InUse
        BY <2>1 DEF InUse
      <3> QED BY <1>1, <1>2, <2>1, <2>2, <2>3, <3>1 DEF InUse, NodeOwnership
    <2> QED BY <1>2, <2>1, <2>2, <2>4 DEF TypeOK
  <1>11. CASE UNCHANGED node
    BY <1>11
  <1> QED BY <1>3, <1>4, <1>5, <1>6, <1>7, <1>8, <1>9, <1>10, <1>11
          DEF Next, UserCode, LoopStep, BgInsert, vars, CancelWait, CancelReturn, CancelEventLoop,
              BgReadClock, BgPostCancelled, Tick, RunEventLoop, LoopScan, LoopPop, LoopExit,
              WaitTimeout, WaitSpurious, Rescan

\* The nodes a step takes into use: who posts them, and with what.
LEMMA NewNode ==
    ASSUME Owned, [Next]_vars, NEW n \in InUse', n \notin InUse
    PROVE  \/ /\ node'[n].cb \in Callbacks \cup {NoCb}
              /\ node'[n].delay = 0 =>
                   \/ node'[n].runtime = 0
                   \/ \E t \in Threads : bg[t].delay = 0 /\ node'[n].runtime = bg[t].runtime
           \/ ExitEventLoop /\ node'[n].runtime = 0
           \/ ExitHandlerRepost /\ node'[n].runtime = 0
  <1> USE DEF Owned
  <1> DEFINE Goal == \/ /\ node'[n].cb \in Callbacks \cup {NoCb}
                        /\ node'[n].delay = 0 =>
                             \/ node'[n].runtime = 0
                             \/ \E t \in Threads :
                                  bg[t].delay = 0 /\ node'[n].runtime = bg[t].runtime
                     \/ ExitEventLoop /\ node'[n].runtime = 0
                     \/ ExitHandlerRepost /\ node'[n].runtime = 0
  <1>1. NoNode \notin Nodes /\ ExitNode \in Nodes
    BY ConstantsAssumption DEF Nodes
  <1>2. ASSUME NEW cb \in Callbacks, PostEvent(cb) PROVE Goal
    <2> DEFINE m == Alloc(free_queue)
    <2>1. m \in Nodes
      BY <1>2, AllocUnused DEF PostEvent, AppendEvent
    <2>2. event_queue' = Append(event_queue, m)
      BY <1>2 DEF PostEvent, AppendEvent
    <2>3. Elems(event_queue') = Elems(event_queue) \cup {m}
      BY <2>1, <2>2, AppendElems DEF TypeOK
    <2>4. n = m
      BY <1>2, <2>3 DEF PostEvent, InUse, Pending
    <2> QED BY <1>2, <2>1, <2>4 DEF PostEvent, AppendEvent, TypeOK
  <1>3. ASSUME NEW cb \in Callbacks, NEW d \in Delays, PostEventWithDelay(cb, d) PROVE Goal
    <2> DEFINE m == Alloc(free_queue)
    <2>1. m \in Nodes
      BY <1>3, AllocUnused DEF PostEventWithDelay
    <2>2. PICK k \in 0..Len(timer_queue) : timer_queue' = InsertAfter(timer_queue, k, m)
      BY <1>3 DEF PostEventWithDelay
    <2>3. Elems(timer_queue') = Elems(timer_queue) \cup {m}
      BY <2>1, <2>2, InsertAfterElems DEF TypeOK
    <2>4. n = m
      BY <1>3, <2>3 DEF PostEventWithDelay, InUse, Pending
    <2>5. node'[n].cb = cb /\ node'[n].delay = d /\ d # 0
      BY <1>3, <2>1, <2>4, ConstantsAssumption DEF PostEventWithDelay, TypeOK
    <2> QED BY <2>5
  <1>4. ASSUME NEW t \in Threads, BgPost(t) PROVE Goal
    <2> DEFINE m == Alloc(free_bg_queue)
    <2>1. m \in Nodes
      BY <1>4, AllocUnused DEF BgPost
    <2>2. PICK k \in 0..Len(timer_queue) : timer_queue' = InsertAfter(timer_queue, k, m)
      BY <1>4 DEF BgPost
    <2>3. Elems(timer_queue') = Elems(timer_queue) \cup {m}
      BY <2>1, <2>2, InsertAfterElems DEF TypeOK
    <2>4. n = m
      BY <1>4, <2>3 DEF BgPost, InUse, Pending
    <2>5. node'[n] = [cb |-> bg[t].cb, runtime |-> bg[t].runtime, delay |-> bg[t].delay, by |-> t]
      BY <1>4, <2>1, <2>4 DEF BgPost, TypeOK
    <2>6. bg[t].cb \in Callbacks \cup {NoCb}
      BY DEF TypeOK, BgState
    <2> QED BY <2>5, <2>6
  <1>5. CASE ExitHandlerRepost
    <2> DEFINE m == Alloc(free_queue)
    <2>1. m \in Nodes \ InUse /\ running \in InUse
      BY <1>1, <1>5, AllocUnused DEF ExitHandlerRepost, PcRunning, InUse
    <2>2. /\ event_queue' = Append(event_queue, m) /\ running' = NoNode
          /\ node' = [node EXCEPT ![m] = [cb |-> ExitCb, runtime |-> 0, delay |-> 0, by |-> Main],
                                  ![running] = NoEvent]
      BY <1>5 DEF ExitHandlerRepost, ReleaseRunning
    <2> HIDE DEF m
    <2>3. Elems(event_queue') = Elems(event_queue) \cup {m}
      BY <2>1, <2>2, AppendElems DEF TypeOK
    <2>4. n = m
      BY <1>5, <2>2, <2>3 DEF ExitHandlerRepost, InUse, Pending
    <2>5. node'[n].runtime = 0
      BY <2>1, <2>2, <2>4 DEF TypeOK
    <2> QED BY <1>5, <2>5
  <1>6. CASE ExitEventLoop
    <2>1. exit_event \in Nodes /\ 0 \in 0..Len(timer_queue)
      BY <1>1, <1>6 DEF ExitEventLoop, TypeOK
    <2>2. timer_queue' = InsertAfter(timer_queue, 0, exit_event)
      BY <1>6, <2>1 DEF ExitEventLoop, InsertAfter, TypeOK
    <2>3. Elems(InsertAfter(timer_queue, 0, exit_event)) = Elems(timer_queue) \cup {exit_event}
      BY <2>1, InsertAfterElems DEF TypeOK
    <2>4. n = exit_event
      BY <1>6, <2>2, <2>3 DEF ExitEventLoop, InUse, Pending
    <2>5. node'[n].runtime = 0
      BY <1>6, <2>1, <2>4 DEF ExitEventLoop, TypeOK
    <2> QED BY <1>6, <2>5
  <1>7. ASSUME NEW cb \in Callbacks, CancelQueued(cb) PROVE FALSE
    <2>1. PICK i \in 1..Len(event_queue) : event_queue' = DropAt(event_queue, i)
      BY <1>7 DEF CancelQueued
    <2>2. Elems(event_queue') \subseteq Elems(event_queue)
      BY <2>1, DropAtElems DEF TypeOK, NodeOwnership
    <2> QED BY <1>7, <2>2 DEF CancelQueued, InUse, Pending
  <1>8. ASSUME NEW cb \in Callbacks, CancelTimed(cb) PROVE FALSE
    <2>1. PICK i \in 1..Len(timer_queue) : timer_queue' = DropAt(timer_queue, i)
      BY <1>8 DEF CancelTimed
    <2>2. Elems(timer_queue') \subseteq Elems(timer_queue)
      BY <2>1, DropAtElems DEF TypeOK, NodeOwnership
    <2> QED BY <1>8, <2>2 DEF CancelTimed, InUse, Pending
  <1>9. CASE HandlerReturn \/ ExitHandlerStop
    BY <1>9 DEF HandlerReturn, ExitHandlerStop, ReleaseRunning, InUse, Pending
  <1>10. CASE LoopScan \/ Rescan \/ LoopPop
    BY <1>10, LoopInUse
  <1>11. CASE UNCHANGED <<event_queue, timer_queue, running>>
    BY <1>11 DEF InUse, Pending
  <1> QED BY <1>2, <1>3, <1>4, <1>5, <1>6, <1>7, <1>8, <1>9, <1>10, <1>11
          DEF Next, UserCode, LoopStep, BgInsert, vars, CancelWait, CancelReturn, CancelEventLoop,
              BgReadClock, BgPostCancelled, Tick, RunEventLoop, LoopExit, WaitTimeout, WaitSpurious

-----------------------------------------------------------------------------
(***************************************************************************)
(* The order of timer_queue                                                *)
(***************************************************************************)

\* The ways a step changes timer_queue.
LEMMA TimerQueueStep ==
    ASSUME Owned, [Next]_vars
    PROVE  \/ timer_queue' = timer_queue
           \/ \E i \in 1..Len(timer_queue) : timer_queue' = DropAt(timer_queue, i)
           \/ \E k \in 0..Len(timer_queue) :
                timer_queue' = SubSeq(timer_queue, k + 1, Len(timer_queue))
           \/ \E n \in Nodes \ InUse : \E k \in 0..Len(timer_queue) :
                /\ timer_queue' = InsertAfter(timer_queue, k, n)
                /\ node'[n].runtime \in Nat
                /\ \A j \in 1..k : node[timer_queue[j]].runtime <= node'[n].runtime
                /\ k < Len(timer_queue) => node'[n].runtime <= node[timer_queue[k + 1]].runtime
  <1> USE DEF Owned
  <1>1. ASSUME NEW cb \in Callbacks, NEW d \in Delays, PostEventWithDelay(cb, d)
        PROVE  \E n \in Nodes \ InUse : \E k \in 0..Len(timer_queue) :
                /\ timer_queue' = InsertAfter(timer_queue, k, n)
                /\ node'[n].runtime \in Nat
                /\ \A j \in 1..k : node[timer_queue[j]].runtime <= node'[n].runtime
                /\ k < Len(timer_queue) => node'[n].runtime <= node[timer_queue[k + 1]].runtime
    <2> DEFINE n == Alloc(free_queue)
    <2>1. n \in Nodes \ InUse
      BY <1>1, AllocUnused DEF PostEventWithDelay
    <2>2. PICK k \in 0..Len(timer_queue) :
            /\ timer_queue' = InsertAfter(timer_queue, k, n)
            /\ InsertionPoint(timer_queue, now + d, k)
            /\ node' = [node EXCEPT ![n] = [cb |-> cb, runtime |-> now + d, delay |-> d, by |-> Main]]
      BY <1>1 DEF PostEventWithDelay
    <2> HIDE DEF n
    <2>3. node'[n].runtime = now + d /\ now + d \in Nat
      BY <2>1, <2>2, ConstantsAssumption DEF TypeOK
    <2>4. /\ \A j \in 1..k : node[timer_queue[j]].runtime <= node'[n].runtime
          /\ k < Len(timer_queue) => node'[n].runtime < node[timer_queue[k + 1]].runtime
      BY <2>2, <2>3 DEF InsertionPoint
    <2>5. k < Len(timer_queue) => node[timer_queue[k + 1]].runtime \in Nat
      BY DEF TypeOK, Event
    <2>6. k < Len(timer_queue) => node'[n].runtime <= node[timer_queue[k + 1]].runtime
      BY <2>3, <2>4, <2>5
    <2> QED BY <2>1, <2>2, <2>3, <2>4, <2>6
  <1>2. ASSUME NEW t \in Threads, BgPost(t)
        PROVE  \E n \in Nodes \ InUse : \E k \in 0..Len(timer_queue) :
                /\ timer_queue' = InsertAfter(timer_queue, k, n)
                /\ node'[n].runtime \in Nat
                /\ \A j \in 1..k : node[timer_queue[j]].runtime <= node'[n].runtime
                /\ k < Len(timer_queue) => node'[n].runtime <= node[timer_queue[k + 1]].runtime
    <2> DEFINE n == Alloc(free_bg_queue)
    <2>1. n \in Nodes \ InUse
      BY <1>2, AllocUnused DEF BgPost
    <2>2. PICK k \in 0..Len(timer_queue) :
            /\ timer_queue' = InsertAfter(timer_queue, k, n)
            /\ InsertionPoint(timer_queue, bg[t].runtime, k)
            /\ node' = [node EXCEPT ![n] = [cb |-> bg[t].cb, runtime |-> bg[t].runtime,
                                            delay |-> bg[t].delay, by |-> t]]
      BY <1>2 DEF BgPost
    <2> HIDE DEF n
    <2>3. node'[n].runtime = bg[t].runtime /\ bg[t].runtime \in Nat
      BY <2>1, <2>2 DEF TypeOK, BgState
    <2>4. /\ \A j \in 1..k : node[timer_queue[j]].runtime <= node'[n].runtime
          /\ k < Len(timer_queue) => node'[n].runtime < node[timer_queue[k + 1]].runtime
      BY <2>2, <2>3 DEF InsertionPoint
    <2>5. k < Len(timer_queue) => node[timer_queue[k + 1]].runtime \in Nat
      BY DEF TypeOK, Event
    <2>6. k < Len(timer_queue) => node'[n].runtime <= node[timer_queue[k + 1]].runtime
      BY <2>3, <2>4, <2>5
    <2> QED BY <2>1, <2>2, <2>3, <2>4, <2>6
  <1>3. ASSUME ExitEventLoop
        PROVE  \E n \in Nodes \ InUse : \E k \in 0..Len(timer_queue) :
                /\ timer_queue' = InsertAfter(timer_queue, k, n)
                /\ node'[n].runtime \in Nat
                /\ \A j \in 1..k : node[timer_queue[j]].runtime <= node'[n].runtime
                /\ k < Len(timer_queue) => node'[n].runtime <= node[timer_queue[k + 1]].runtime
    <2>1. exit_event \in Nodes \ InUse
      BY <1>3 DEF ExitEventLoop, TypeOK, NodeOwnership, Nodes
    <2>2. timer_queue' = InsertAfter(timer_queue, 0, exit_event) /\ 0 \in 0..Len(timer_queue)
      BY <1>3, <2>1 DEF ExitEventLoop, InsertAfter, TypeOK
    <2>3. node'[exit_event].runtime = 0
      BY <1>3, <2>1 DEF ExitEventLoop, TypeOK
    <2>4. 0 < Len(timer_queue) => 0 <= node[timer_queue[0 + 1]].runtime
      BY DEF TypeOK, Event
    <2> QED BY <2>1, <2>2, <2>3, <2>4
  <1>4. ASSUME NEW cb \in Callbacks, CancelTimed(cb)
        PROVE  \E i \in 1..Len(timer_queue) : timer_queue' = DropAt(timer_queue, i)
    BY <1>4 DEF CancelTimed
  <1>5. ASSUME Scan
        PROVE  \/ timer_queue' = timer_queue
               \/ \E k \in 0..Len(timer_queue) :
                    timer_queue' = SubSeq(timer_queue, k + 1, Len(timer_queue))
    BY <1>5 DEF Scan
  <1> QED BY <1>1, <1>2, <1>3, <1>4, <1>5
          DEF Next, UserCode, LoopStep, BgInsert, vars, PostEvent, CancelQueued, CancelWait,
              CancelReturn, CancelEventLoop, BgReadClock, BgPostCancelled, Tick, RunEventLoop,
              LoopScan, LoopPop, LoopExit, WaitTimeout, WaitSpurious, Rescan, HandlerReturn,
              ExitHandlerStop, ExitHandlerRepost

\* A step of any action keeps timer_queue sorted.
LEMMA SortedStep ==
    ASSUME Owned, TimersSorted, [Next]_vars
    PROVE  TimersSorted'
  <1> DEFINE q == timer_queue
             r(n) == node[n].runtime
  <1>1. Owned'
    BY OwnedStep
  <1>2. q \in Seq(Nodes) /\ q' \in Seq(Nodes) /\ \A i \in 1..Len(q) : q[i] \in Nodes
    BY <1>1 DEF Owned, TypeOK
  <1>3. \A i \in 1..Len(q) : r(q[i]) \in Nat
    BY <1>2 DEF Owned, TypeOK, Event
  <1>4. ASSUME NEW i \in 1..Len(q), q[i] \in Elems(q')
        PROVE  node'[q[i]] = node[q[i]]
    <2>1. q[i] \in InUse
      BY ElemsMember DEF InUse, Pending
    <2>2. q[i] \in InUse'
      BY <1>4 DEF InUse, Pending
    <2> QED BY <2>1, <2>2, NodeKept
  <1> SUFFICES ASSUME NEW i \in 1..Len(q'), NEW j \in 1..Len(q'), i < j
               PROVE  node'[q'[i]].runtime <= node'[q'[j]].runtime
    BY DEF TimersSorted
  <1>5. q'[i] \in Elems(q') /\ q'[j] \in Elems(q')
    BY ElemsMember
  <1>6. ASSUME NEW l \in 1..Len(q), NEW m \in 1..Len(q), l < m, q'[i] = q[l], q'[j] = q[m]
        PROVE  node'[q'[i]].runtime <= node'[q'[j]].runtime
    BY <1>4, <1>5, <1>6 DEF TimersSorted
  <1>7. CASE q' = q
    BY <1>6, <1>7
  <1>8. ASSUME NEW d \in 1..Len(q), q' = DropAt(q, d)
        PROVE  node'[q'[i]].runtime <= node'[q'[j]].runtime
    <2>1. /\ Len(q') = Len(q) - 1
          /\ q'[i] = IF i < d THEN q[i] ELSE q[i + 1]
          /\ q'[j] = IF j < d THEN q[j] ELSE q[j + 1]
      <3>1. /\ Len(DropAt(q, d)) = Len(q) - 1
            /\ \A l \in 1..(Len(q) - 1) : DropAt(q, d)[l] = IF l < d THEN q[l] ELSE q[l + 1]
        BY <1>2, DropAtIsSeq
      <3> QED BY <1>8, <3>1
    <2>2. CASE j < d
      BY <1>2, <1>6, <2>1, <2>2
    <2>3. CASE i < d /\ ~(j < d)
      <3>1. q'[i] = q[i] /\ q'[j] = q[j + 1] /\ i \in 1..Len(q) /\ j + 1 \in 1..Len(q) /\ i < j + 1
        BY <1>2, <2>1, <2>3
      <3> QED BY <1>6, <3>1
    <2>4. CASE ~(i < d)
      <3>1. /\ q'[i] = q[i + 1] /\ q'[j] = q[j + 1]
            /\ i + 1 \in 1..Len(q) /\ j + 1 \in 1..Len(q) /\ i + 1 < j + 1
        BY <1>2, <2>1, <2>4
      <3> QED BY <1>6, <3>1
    <2>5. j < d \/ (i < d /\ ~(j < d)) \/ ~(i < d)
      BY Zenon
    <2> QED BY <2>2, <2>3, <2>4, <2>5, Zenon
  <1>9. ASSUME NEW k \in 0..Len(q), q' = SubSeq(q, k + 1, Len(q))
        PROVE  node'[q'[i]].runtime <= node'[q'[j]].runtime
    <2>1. Len(q') = Len(q) - k /\ q'[i] = q[k + i] /\ q'[j] = q[k + j]
      <3>1. LET suf == SubSeq(q, k + 1, Len(q)) IN
              Len(suf) = Len(q) - k /\ \A l \in 1..Len(suf) : suf[l] = q[k + l]
        BY <1>2, MoveElems
      <3> QED BY <1>9, <3>1
    <2>2. k + i \in 1..Len(q) /\ k + j \in 1..Len(q) /\ k + i < k + j
      BY <1>2, <2>1
    <2> QED BY <1>6, <2>1, <2>2
  <1>10. ASSUME NEW n \in Nodes \ InUse, NEW k \in 0..Len(q), q' = InsertAfter(q, k, n),
                node'[n].runtime \in Nat,
                \A l \in 1..k : node[q[l]].runtime <= node'[n].runtime,
                k < Len(q) => node'[n].runtime <= node[q[k + 1]].runtime
         PROVE  node'[q'[i]].runtime <= node'[q'[j]].runtime
    <2>1. /\ Len(q') = Len(q) + 1
          /\ q'[i] = IF i <= k THEN q[i] ELSE IF i = k + 1 THEN n ELSE q[i - 1]
          /\ q'[j] = IF j <= k THEN q[j] ELSE IF j = k + 1 THEN n ELSE q[j - 1]
      <3>1. /\ Len(q') = Len(q) + 1
            /\ \A l \in 1..(Len(q) + 1) :
                 q'[l] = IF l <= k THEN q[l] ELSE IF l = k + 1 THEN n ELSE q[l - 1]
        <4> DEFINE w == InsertAfter(q, k, n)
        <4>0. q \in Seq(Nodes) /\ n \in Nodes
          BY <1>2
        <4>1. /\ w \in Seq(Nodes)
              /\ Len(w) = Len(q) + 1
              /\ \A l \in 1..(Len(q) + 1) :
                   w[l] = IF l <= k THEN q[l] ELSE IF l = k + 1 THEN n ELSE q[l - 1]
          BY <4>0, InsertAfterIsSeq
        <4> HIDE DEF w
        <4> QED BY <1>10, <4>1 DEF w
      <3> QED BY <3>1
    <2>2. CASE j <= k
      BY <1>2, <1>6, <2>1, <2>2
    <2>3. CASE j = k + 1
      <3>1. i \in 1..Len(q) /\ i \in 1..k /\ q'[i] = q[i] /\ q'[j] = n
        BY <1>2, <2>1, <2>3
      <3>2. node'[q[i]] = node[q[i]]
        BY <1>4, <1>5, <3>1
      <3> QED BY <1>10, <3>1, <3>2
    <2>4. CASE j > k + 1
      <3>1. q'[j] = q[j - 1] /\ j - 1 \in 1..Len(q) /\ k < Len(q) /\ k + 1 \in 1..Len(q) /\ k + 1 <= j - 1
        BY <1>2, <2>1, <2>4
      <3>2. CASE i <= k
        BY <1>2, <1>6, <2>1, <3>1, <3>2
      <3>3. CASE i = k + 1
        <4>1. q'[i] = n
          BY <2>1, <3>3
        <4>2. node[q[k + 1]].runtime <= node[q[j - 1]].runtime
          <5>1. CASE k + 1 = j - 1
            BY <1>3, <3>1, <5>1
          <5>2. CASE k + 1 < j - 1
            BY <3>1, <5>2 DEF TimersSorted
          <5>3. k + 1 \in Int /\ j - 1 \in Int /\ k + 1 <= j - 1
            BY <3>1
          <5>4. k + 1 = j - 1 \/ k + 1 < j - 1
            BY <5>3
          <5> QED BY <5>1, <5>2, <5>4, Zenon
        <4>3. node'[n].runtime <= node[q[j - 1]].runtime
          <5>1. node'[n].runtime <= node[q[k + 1]].runtime /\ node'[n].runtime \in Nat
            BY <1>10, <3>1, Zenon
          <5>2. node[q[k + 1]].runtime \in Nat /\ node[q[j - 1]].runtime \in Nat
            BY <1>3, <3>1, Zenon
          <5> QED BY <4>2, <5>1, <5>2, LeqTransitive, Zenon
        <4>4. node'[q[j - 1]] = node[q[j - 1]]
          BY <1>4, <1>5, <3>1
        <4> QED BY <3>1, <4>1, <4>3, <4>4
      <3>4. CASE i > k + 1
        <4>1. q'[i] = q[i - 1] /\ i - 1 \in 1..Len(q) /\ i - 1 < j - 1
          BY <1>2, <2>1, <3>1, <3>4
        <4> QED BY <1>6, <3>1, <4>1
      <3> QED BY <3>2, <3>3, <3>4
    <2> QED BY <2>2, <2>3, <2>4
  <1> QED BY <1>7, <1>8, <1>9, <1>10, TimerQueueStep

-----------------------------------------------------------------------------
(***************************************************************************)
(* cancel_event() and the threads that post                                *)
(***************************************************************************)

\* A step of any action keeps the handshake of cancel_event().
LEMMA HandshakeStep ==
    ASSUME Owned, CancelHandshake, [Next]_vars
    PROVE  CancelHandshake'
  <1> USE DEF Owned
  <1>1. Owned'
    BY OwnedStep
  <1>2. ASSUME NEW n \in Pending, n \in Pending' PROVE node'[n] = node[n]
    BY <1>2, NodeKept DEF InUse
  <1>3. CASE cancel_handler' = NoCb
    BY <1>3 DEF CancelHandshake
  <1>4. ASSUME NEW cb \in Callbacks, CancelWait(cb) PROVE CancelHandshake'
    <2>1. /\ UNCHANGED <<event_queue, timer_queue, node>> /\ pc' = "cancelwait"
          /\ cancel_handler' = cb /\ NoMatch(event_queue, cb) /\ NoMatch(timer_queue, cb)
      BY <1>4 DEF CancelWait
    <2>2. \A n \in Pending : node[n].cb # cb
      BY <2>1 DEF Pending, Elems, NoMatch
    <2>3. Pending' = Pending
      BY <2>1 DEF Pending
    <2> QED BY <2>1, <2>2, <2>3 DEF CancelHandshake
  <1>5. CASE pc # "cancelwait" /\ UNCHANGED cancel_handler
    BY <1>3, <1>5 DEF CancelHandshake
  <1>6. CASE ExitEventLoop /\ pc = "cancelwait"
    <2>1. /\ cancel_handler' = cancel_handler /\ pc' = "cancelwait" /\ exit_event \in Nodes
          /\ timer_queue' = <<exit_event>> \o timer_queue /\ event_queue' = event_queue
          /\ node'[exit_event].cb = ExitCb
      BY <1>6 DEF ExitEventLoop, Signal, TypeOK, Nodes
    <2>2. timer_queue' = InsertAfter(timer_queue, 0, exit_event) /\ 0 \in 0..Len(timer_queue)
      BY <2>1 DEF InsertAfter, TypeOK
    <2>3. Pending' = Pending \cup {exit_event}
      <3>1. timer_queue \in Seq(Nodes) /\ exit_event \in Nodes
        BY <2>1 DEF TypeOK
      <3>2. Elems(InsertAfter(timer_queue, 0, exit_event)) = Elems(timer_queue) \cup {exit_event}
        BY <2>2, <3>1, InsertAfterElems
      <3> QED BY <2>1, <2>2, <3>2 DEF Pending
    <2>4. cancel_handler # ExitCb
      BY ConstantsAssumption DEF TypeOK
    <2> QED BY <1>2, <2>1, <2>3, <2>4 DEF CancelHandshake
  <1>7. ASSUME NEW t \in Threads, BgPost(t), pc = "cancelwait" PROVE CancelHandshake'
    <2> DEFINE n == Alloc(free_bg_queue)
    <2>1. n \in Nodes \ InUse
      BY <1>7, AllocUnused DEF BgPost
    <2>2. PICK k \in 0..Len(timer_queue) :
            /\ timer_queue' = InsertAfter(timer_queue, k, n)
            /\ node' = [node EXCEPT ![n] = [cb |-> bg[t].cb, runtime |-> bg[t].runtime,
                                            delay |-> bg[t].delay, by |-> t]]
            /\ IF k = 0 THEN Signal ELSE UNCHANGED <<pc, deadline>>
      BY <1>7 DEF BgPost
    <2> HIDE DEF n
    <2>3. pc' = "cancelwait" /\ UNCHANGED <<cancel_handler, event_queue>> /\ cancel_handler # bg[t].cb
      BY <1>7, <2>2 DEF BgPost, Signal
    <2>4. Pending' = Pending \cup {n}
      BY <2>1, <2>2, <2>3, InsertAfterElems DEF Pending, TypeOK
    <2>5. node'[n].cb = bg[t].cb
      BY <2>1, <2>2 DEF TypeOK
    <2> QED BY <1>2, <2>3, <2>4, <2>5 DEF CancelHandshake
  <1>8. CASE UNCHANGED <<event_queue, timer_queue, node, cancel_handler, pc>>
    <2>1. Pending' = Pending
      BY <1>8 DEF Pending
    <2> QED BY <1>8, <2>1 DEF CancelHandshake
  <1>9. CASE UserCode
    BY <1>4, <1>5, <1>9 DEF UserCode, OnDispatchThread, PostEvent, PostEventWithDelay, CancelQueued,
                            CancelTimed, CancelEventLoop
  <1>10. CASE LoopStep \/ HandlerReturn \/ WaitSpurious
    BY <1>3, <1>5, <1>10 DEF LoopStep, RunEventLoop, LoopScan, LoopPop, LoopExit, WaitTimeout, Rescan,
                             ExitHandlerStop, ExitHandlerRepost, CancelReturn, HandlerReturn,
                             WaitSpurious
  <1>11. CASE ExitEventLoop
    BY <1>5, <1>6, <1>11 DEF ExitEventLoop
  <1>12. ASSUME NEW t \in Threads, BgInsert(t) PROVE CancelHandshake'
    BY <1>3, <1>5, <1>7, <1>12 DEF BgInsert, BgPost, BgPostCancelled
  <1>13. CASE Tick \/ UNCHANGED vars
    BY <1>8, <1>13 DEF Tick, vars
  <1>14. ASSUME NEW t \in Threads, NEW cb \in Callbacks, NEW d \in Delays \cup {0},
                BgReadClock(t, cb, d)
         PROVE  CancelHandshake'
    BY <1>8, <1>14 DEF BgReadClock
  <1> QED BY <1>9, <1>10, <1>11, <1>12, <1>13, <1>14 DEF Next

-----------------------------------------------------------------------------
(***************************************************************************)
(* The tail of event_queue                                                 *)
(***************************************************************************)

\* A step of any action leaves event_last at the last node of event_queue.
LEMMA TailStep ==
    ASSUME Owned, TailPointer, [Next]_vars
    PROVE  TailPointer'
  <1> USE DEF Owned
  <1> DEFINE LastOf(q) == IF q = <<>> THEN NoNode ELSE q[Len(q)]
  <1>1. ASSUME NEW q \in Seq(Nodes), q # <<>>, NEW last, last = LastOf(q), NEW cnt,
               Dispatch(q, last, cnt)
        PROVE  TailPointer'
    <2>1. /\ event_queue' = Tail(q)
          /\ event_last' = IF Len(q) = 1 THEN NoNode ELSE last
      BY <1>1 DEF Dispatch
    <2> DEFINE r == Tail(q)
    <2>2. /\ r \in Seq(Nodes) /\ Len(r) = Len(q) - 1
          /\ \A i \in 1..Len(r) : r[i] = q[i + 1]
      BY <1>1, TailElems
    <2> HIDE DEF r
    <2>3. CASE Len(q) = 1
      BY <2>1, <2>2, <2>3 DEF TailPointer, r
    <2>4. CASE Len(q) # 1
      <3>1. r # <<>> /\ Len(r) \in 1..Len(r) /\ r[Len(r)] = q[Len(q)]
        BY <1>1, <2>2, <2>4
      <3> QED BY <1>1, <2>1, <2>4, <3>1 DEF TailPointer, r
    <2> QED BY <2>3, <2>4
  <1>2. ASSUME Scan PROVE TailPointer'
    <2>1. PICK k \in 0..Len(timer_queue) :
            \/ /\ k > 0 \/ event_queue # <<>>
               /\ Dispatch(SubSeq(timer_queue, 1, k) \o event_queue, MovedLast(k), 0)
            \/ UNCHANGED <<event_queue, event_last>>
      BY <1>2 DEF Scan
    <2>2. CASE UNCHANGED <<event_queue, event_last>>
      BY <2>2 DEF TailPointer
    <2>3. CASE /\ k > 0 \/ event_queue # <<>>
               /\ Dispatch(SubSeq(timer_queue, 1, k) \o event_queue, MovedLast(k), 0)
      <3> DEFINE all == SubSeq(timer_queue, 1, k) \o event_queue
      <3>1. /\ all \in Seq(Nodes) /\ Len(all) = k + Len(event_queue)
            /\ \A i \in 1..Len(all) : all[i] = IF i <= k THEN timer_queue[i] ELSE event_queue[i - k]
        BY MoveElems DEF TypeOK
      <3>2. Dispatch(all, MovedLast(k), 0)
        BY <2>3
      <3> HIDE DEF all
      <3>3. all # <<>> /\ Len(all) \in 1..Len(all)
        BY <2>3, <3>1 DEF TypeOK
      <3>4. MovedLast(k) = all[Len(all)]
        <4>1. CASE event_queue = <<>>
          BY <2>3, <3>1, <3>3, <4>1 DEF MovedLast
        <4>2. CASE event_queue # <<>>
          BY <3>1, <3>3, <4>2 DEF MovedLast, TailPointer, TypeOK
        <4> QED BY <4>1, <4>2
      <3> QED BY <1>1, <3>1, <3>2, <3>3, <3>4
    <2> QED BY <2>1, <2>2, <2>3
  <1>3. ASSUME NEW cb \in Callbacks, PostEvent(cb) PROVE TailPointer'
    <2>1. Alloc(free_queue) \in Nodes
      BY <1>3, AllocUnused DEF PostEvent, AppendEvent
    <2> QED BY <1>3, <2>1, AppendElems DEF PostEvent, AppendEvent, TailPointer, TypeOK
  <1>4. CASE ExitHandlerRepost
    <2>1. Alloc(free_queue) \in Nodes
      BY <1>4, AllocUnused DEF ExitHandlerRepost
    <2> QED BY <1>4, <2>1, AppendElems, SMTT(30) DEF ExitHandlerRepost, TailPointer, TypeOK
  <1>5. ASSUME NEW cb \in Callbacks, CancelQueued(cb) PROVE TailPointer'
    <2>1. PICK i \in 1..Len(event_queue) :
            /\ event_queue' = DropAt(event_queue, i)
            /\ event_last' = IF i < Len(event_queue) THEN event_last
                             ELSE IF i = 1 THEN NoNode ELSE event_queue[i - 1]
      BY <1>5 DEF CancelQueued
    <2> DEFINE r == DropAt(event_queue, i)
    <2>2. /\ r \in Seq(Nodes) /\ Len(r) = Len(event_queue) - 1
          /\ \A j \in 1..(Len(event_queue) - 1) :
               r[j] = IF j < i THEN event_queue[j] ELSE event_queue[j + 1]
      BY DropAtIsSeq DEF TypeOK
    <2> HIDE DEF r
    <2>3. event_queue # <<>> /\ event_last = event_queue[Len(event_queue)]
      BY <2>1 DEF TailPointer, TypeOK
    <2>4. CASE i < Len(event_queue)
      <3>1. r # <<>> /\ r[Len(r)] = event_queue[Len(event_queue)]
        BY <2>2, <2>4 DEF TypeOK
      <3> QED BY <2>1, <2>3, <2>4, <3>1 DEF TailPointer, r
    <2>5. CASE i = Len(event_queue) /\ i = 1
      <3>1. r = <<>>
        BY <2>2, <2>5
      <3> QED BY <2>1, <2>5, <3>1 DEF TailPointer, r
    <2>6. CASE i = Len(event_queue) /\ i # 1
      <3>1. r # <<>> /\ r[Len(r)] = event_queue[i - 1]
        BY <2>2, <2>6 DEF TypeOK
      <3> QED BY <2>1, <2>6, <3>1 DEF TailPointer, r
    <2> QED BY <2>4, <2>5, <2>6 DEF TypeOK
  <1>6. CASE LoopPop
    BY <1>1, <1>6 DEF LoopPop, TailPointer, TypeOK
  <1>7. CASE UNCHANGED <<event_queue, event_last>>
    BY <1>7 DEF TailPointer
  <1> QED BY <1>2, <1>3, <1>4, <1>5, <1>6, <1>7
          DEF Next, UserCode, LoopStep, BgInsert, vars, PostEventWithDelay, CancelTimed, CancelWait,
              CancelReturn, CancelEventLoop, ExitEventLoop, BgReadClock, BgPost, BgPostCancelled,
              Tick, RunEventLoop, LoopScan, LoopExit, WaitTimeout, WaitSpurious, Rescan,
              HandlerReturn, ExitHandlerStop

-----------------------------------------------------------------------------
(***************************************************************************)
(* No event before its time                                                *)
(***************************************************************************)

\* What is in event_queue is due.
QueueDue == \A n \in Elems(event_queue) : node[n].runtime <= now

\* Where the nodes of event_queue come from.
LEMMA EventQueueStep ==
    ASSUME Owned, [Next]_vars, NEW n \in Elems(event_queue')
    PROVE  \/ n \in Elems(event_queue)
           \/ n \in Elems(timer_queue) /\ node[n].runtime <= now
           \/ n \notin InUse /\ node'[n].runtime = 0
  <1> USE DEF Owned
  <1>1. NoNode \notin Nodes
    BY ConstantsAssumption DEF Nodes
  <1>2. ASSUME NEW cb \in Callbacks, PostEvent(cb)
        PROVE  n \in Elems(event_queue) \/ (n \notin InUse /\ node'[n].runtime = 0)
    <2> DEFINE m == Alloc(free_queue)
    <2>1. m \in Nodes \ InUse
      BY <1>2, AllocUnused DEF PostEvent, AppendEvent
    <2>2. /\ event_queue' = Append(event_queue, m)
          /\ node' = [node EXCEPT ![m] = [cb |-> cb, runtime |-> 0, delay |-> 0, by |-> Main]]
      BY <1>2 DEF PostEvent, AppendEvent
    <2> HIDE DEF m
    <2>3. Elems(event_queue') = Elems(event_queue) \cup {m}
      BY <2>1, <2>2, AppendElems DEF TypeOK
    <2>4. node'[m].runtime = 0
      BY <2>1, <2>2 DEF TypeOK
    <2> QED BY <2>1, <2>3, <2>4
  <1>3. ASSUME ExitHandlerRepost
        PROVE  n \in Elems(event_queue) \/ (n \notin InUse /\ node'[n].runtime = 0)
    <2> DEFINE m == Alloc(free_queue)
    <2>1. m \in Nodes \ InUse
      BY <1>3, AllocUnused DEF ExitHandlerRepost
    <2>2. /\ event_queue' = Append(event_queue, m) /\ running \in Nodes
          /\ node' = [node EXCEPT ![m] = [cb |-> ExitCb, runtime |-> 0, delay |-> 0, by |-> Main],
                                  ![running] = NoEvent]
      BY <1>3 DEF ExitHandlerRepost, PcRunning
    <2> HIDE DEF m
    <2>3. Elems(event_queue') = Elems(event_queue) \cup {m}
      BY <2>1, <2>2, AppendElems DEF TypeOK
    <2>4. node'[m].runtime = 0
      BY <1>1, <2>1, <2>2 DEF TypeOK, InUse
    <2> QED BY <2>1, <2>3, <2>4
  <1>4. ASSUME NEW cb \in Callbacks, CancelQueued(cb) PROVE n \in Elems(event_queue)
    <2>1. PICK i \in 1..Len(event_queue) : event_queue' = DropAt(event_queue, i)
      BY <1>4 DEF CancelQueued
    <2> QED BY <2>1, DropAtElems DEF TypeOK, NodeOwnership
  <1>5. ASSUME NEW q \in Seq(Nodes), q # <<>>, Injective(q), NEW last, NEW cnt, Dispatch(q, last, cnt)
        PROVE  n \in Elems(q)
    BY <1>5, TailElems DEF Dispatch
  <1>6. ASSUME Scan
        PROVE  n \in Elems(event_queue) \/ (n \in Elems(timer_queue) /\ node[n].runtime <= now)
    <2>1. PICK k \in 0..Len(timer_queue) :
            /\ Ready(k)
            /\ \/ /\ k > 0 \/ event_queue # <<>>
                  /\ Dispatch(SubSeq(timer_queue, 1, k) \o event_queue, MovedLast(k), 0)
               \/ UNCHANGED event_queue
      BY <1>6 DEF Scan
    <2>2. CASE UNCHANGED event_queue
      BY <2>2
    <2>3. CASE /\ k > 0 \/ event_queue # <<>>
               /\ Dispatch(SubSeq(timer_queue, 1, k) \o event_queue, MovedLast(k), 0)
      <3> DEFINE all == SubSeq(timer_queue, 1, k) \o event_queue
      <3>1. all \in Seq(Nodes) /\ Len(all) = k + Len(event_queue)
        BY MoveElems DEF TypeOK
      <3>2. /\ Injective(all)
            /\ \A m \in Elems(all) : m \in Elems(event_queue) \/ \E i \in 1..k : m = timer_queue[i]
        BY MoveOwned DEF TypeOK, NodeOwnership
      <3>3. Dispatch(all, MovedLast(k), 0)
        BY <2>3
      <3> HIDE DEF all
      <3>4. all # <<>>
        BY <2>3, <3>1 DEF TypeOK
      <3>5. n \in Elems(all)
        BY <1>5, <3>1, <3>2, <3>3, <3>4
      <3>6. CASE n \notin Elems(event_queue)
        <4>1. PICK i \in 1..k : n = timer_queue[i]
          BY <3>2, <3>5, <3>6
        <4>2. i \in 1..Len(timer_queue)
          BY DEF TypeOK
        <4>3. node[n].runtime <= now
          BY <2>1, <4>1 DEF Ready
        <4> QED BY <4>1, <4>2, <4>3, ElemsMember
      <3> QED BY <3>6
    <2> QED BY <2>1, <2>2, <2>3
  <1>7. ASSUME LoopPop PROVE n \in Elems(event_queue)
    BY <1>5, <1>7 DEF LoopPop, TypeOK, NodeOwnership
  <1> QED BY <1>2, <1>3, <1>4, <1>6, <1>7
          DEF Next, UserCode, LoopStep, BgInsert, vars, PostEventWithDelay, CancelTimed, CancelWait,
              CancelReturn, CancelEventLoop, ExitEventLoop, BgReadClock, BgPost, BgPostCancelled,
              Tick, RunEventLoop, LoopScan, LoopExit, WaitTimeout, WaitSpurious, Rescan,
              HandlerReturn, ExitHandlerStop

\* The clock does not go back.
LEMMA ClockStep ==
    ASSUME Owned, [Next]_vars
    PROVE  now \in Nat /\ now' \in Nat /\ now <= now'
  <1>1. now \in Nat
    BY DEF Owned, TypeOK
  <1>2. now' = now \/ now' = now + 1
    BY DEF Next, UserCode, LoopStep, BgInsert, vars, PostEvent, PostEventWithDelay, CancelQueued,
           CancelTimed, CancelWait, CancelReturn, CancelEventLoop, ExitEventLoop, BgReadClock, BgPost,
           BgPostCancelled, Tick, RunEventLoop, LoopScan, LoopPop, LoopExit, WaitTimeout,
           WaitSpurious, Rescan, HandlerReturn, ExitHandlerStop, ExitHandlerRepost
  <1> QED BY <1>1, <1>2

\* A step of any action puts only nodes that are due into event_queue.
LEMMA QueueDueStep ==
    ASSUME Owned, QueueDue, [Next]_vars
    PROVE  QueueDue'
  <1>1. Owned'
    BY OwnedStep
  <1> SUFFICES ASSUME NEW n \in Elems(event_queue') PROVE node'[n].runtime <= now'
    BY DEF QueueDue
  <1>2. n \in Nodes /\ node'[n].runtime \in Nat /\ n \in InUse'
    <2>1. event_queue' \in Seq(Nodes) /\ node' \in [Nodes -> Event]
      BY <1>1 DEF Owned, TypeOK
    <2>2. n \in Nodes
      BY <2>1, ElemsMember
    <2>3. n \in InUse'
      BY DEF InUse, Pending
    <2> QED BY <2>1, <2>2, <2>3 DEF Event
  <1>3. CASE n \in InUse
    <2>1. node'[n] = node[n]
      BY <1>2, <1>3, NodeKept
    <2>2. node[n].runtime <= now
      BY <1>3, EventQueueStep DEF QueueDue
    <2> QED BY <1>2, <2>1, <2>2, ClockStep
  <1>4. CASE n \notin InUse
    <2>1. node'[n].runtime = 0
      BY <1>4, EventQueueStep DEF InUse, Pending
    <2> QED BY <2>1, ClockStep
  <1> QED BY <1>3, <1>4

\* A handler that is entered is due.
LEMMA DispatchDue ==
    ASSUME Owned, QueueDue, [Next]_vars, NEW n \in Nodes, Dispatched(n)
    PROVE  node[n].runtime <= now
  <1> USE DEF Owned
  <1>1. n # NoNode
    BY ConstantsAssumption DEF Nodes
  <1>2. ASSUME NEW q \in Seq(Nodes), q # <<>>, NEW last, NEW cnt, Dispatch(q, last, cnt)
        PROVE  n = q[1] /\ 1 \in 1..Len(q)
    BY <1>2, TailElems DEF Dispatch, Dispatched
  <1>3. ASSUME Scan PROVE node[n].runtime <= now
    <2>1. PICK k \in 0..Len(timer_queue) :
            /\ Ready(k)
            /\ \/ /\ k > 0 \/ event_queue # <<>>
                  /\ Dispatch(SubSeq(timer_queue, 1, k) \o event_queue, MovedLast(k), 0)
               \/ UNCHANGED running
      BY <1>3 DEF Scan
    <2>2. /\ k > 0 \/ event_queue # <<>>
          /\ Dispatch(SubSeq(timer_queue, 1, k) \o event_queue, MovedLast(k), 0)
      BY <2>1 DEF Dispatched
    <2> DEFINE all == SubSeq(timer_queue, 1, k) \o event_queue
    <2>3. /\ all \in Seq(Nodes) /\ Len(all) = k + Len(event_queue)
          /\ \A i \in 1..Len(all) : all[i] = IF i <= k THEN timer_queue[i] ELSE event_queue[i - k]
      BY MoveElems DEF TypeOK
    <2>4. Dispatch(all, MovedLast(k), 0)
      BY <2>2
    <2> HIDE DEF all
    <2>5. all # <<>>
      BY <2>2, <2>3 DEF TypeOK
    <2>6. n = all[1] /\ 1 \in 1..Len(all)
      BY <1>2, <2>3, <2>4, <2>5
    <2>7. CASE k > 0
      <3>1. n = timer_queue[1] /\ 1 \in 1..k
        BY <2>3, <2>6, <2>7
      <3> QED BY <2>1, <3>1 DEF Ready
    <2>8. CASE k = 0
      <3>1. n = event_queue[1] /\ 1 \in 1..Len(event_queue)
        BY <2>3, <2>6, <2>8
      <3> QED BY <3>1, ElemsMember DEF QueueDue
    <2> QED BY <2>7, <2>8
  <1>4. ASSUME LoopPop PROVE node[n].runtime <= now
    <2>1. n = event_queue[1] /\ 1 \in 1..Len(event_queue)
      BY <1>2, <1>4 DEF LoopPop, TypeOK
    <2> QED BY <2>1, ElemsMember DEF QueueDue
  <1> QED BY <1>1, <1>3, <1>4
          DEF Dispatched, Next, UserCode, LoopStep, BgInsert, vars, PostEvent, PostEventWithDelay,
              CancelQueued, CancelTimed, CancelWait, CancelReturn, CancelEventLoop, ExitEventLoop,
              BgReadClock, BgPost, BgPostCancelled, Tick, RunEventLoop, LoopScan, LoopExit,
              WaitTimeout, WaitSpurious, Rescan, HandlerReturn, ExitHandlerStop, ExitHandlerRepost,
              ReleaseRunning

-----------------------------------------------------------------------------
(***************************************************************************)
(* exit_event_loop()                                                       *)
(***************************************************************************)

\* The exit event exists once it has been queued, and the loop runs while it is dispatched.
ExitOnce ==
    /\ exit_event # NoNode => \A n \in InUse : node[n].cb # ExitCb
    /\ pc \in {"wait", "woken"} => process_events
    /\ running # NoNode /\ node[running].cb = ExitCb => process_events /\ pc = "handler"

\* An event without delay carries a time that has passed.
UntimedDue ==
    /\ \A n \in Pending : node[n].delay = 0 => node[n].runtime <= now
    /\ \A t \in Threads : bg[t].delay = 0 => bg[t].runtime <= now

\* The events that exit_event_loop() found are pending and due, and the exit event
\* does not leave timer_queue before them.
DrainInv ==
    /\ \A n \in drain : n \in Pending /\ node[n].runtime <= now
    /\ (\E n \in InUse \ Elems(timer_queue) : node[n].cb = ExitCb)
           => drain \cap Elems(timer_queue) = {}

\* A step of any action keeps what is said of the exit event.
LEMMA ExitOnceStep ==
    ASSUME Owned, ExitOnce, [Next]_vars
    PROVE  ExitOnce'
  <1> USE DEF Owned
  <1>1. Owned'
    BY OwnedStep
  <1>2. NoNode \notin Nodes /\ ExitNode \in Nodes
    BY ConstantsAssumption DEF Nodes
  <1>3. NoEvent.cb # ExitCb
    BY ConstantsAssumption DEF NoEvent
  <1>4. ASSUME exit_event' # NoNode, NEW n \in InUse' PROVE node'[n].cb # ExitCb
    <2>1. exit_event # NoNode
      BY <1>4 DEF Next, UserCode, LoopStep, BgInsert, vars, PostEvent, PostEventWithDelay,
           CancelQueued, CancelTimed, CancelWait, CancelReturn, CancelEventLoop, ExitEventLoop,
           BgReadClock, BgPost, BgPostCancelled, Tick, RunEventLoop, LoopScan, LoopPop, LoopExit,
           WaitTimeout, WaitSpurious, Rescan, HandlerReturn, ExitHandlerStop, ExitHandlerRepost
    <2>2. CASE n \in InUse
      BY <1>4, <2>1, <2>2, NodeKept DEF ExitOnce
    <2>3. CASE n \notin InUse
      <3>1. CASE ExitHandlerRepost
        <4>1. running \in InUse /\ node[running].cb = ExitCb
          BY <1>2, <3>1 DEF ExitHandlerRepost, InUse, PcRunning
        <4> QED BY <2>1, <4>1 DEF ExitOnce
      <3>2. ~ExitEventLoop
        BY <1>4 DEF ExitEventLoop
      <3> QED BY <1>4, <2>3, <3>1, <3>2, NewNode, ConstantsAssumption
    <2> QED BY <2>2, <2>3
  <1>5. pc' \in {"wait", "woken"} => process_events'
    BY DEF ExitOnce, Next, UserCode, LoopStep, BgInsert, vars, PostEvent, PostEventWithDelay,
           CancelQueued, CancelTimed, CancelWait, CancelReturn, CancelEventLoop, ExitEventLoop,
           BgReadClock, BgPost, BgPostCancelled, Tick, RunEventLoop, LoopScan, LoopPop, LoopExit,
           WaitTimeout, WaitSpurious, Rescan, HandlerReturn, ExitHandlerStop, ExitHandlerRepost,
           ReleaseRunning, Signal, OnDispatchThread
  <1>6. ASSUME running' # NoNode, node'[running'].cb = ExitCb
        PROVE  process_events' /\ pc' = "handler"
    <2>1. running' \in InUse'
      BY <1>6 DEF InUse
    <2>2. CASE LoopScan \/ LoopPop \/ Rescan
      <3>1. process_events' /\ process_events
        BY <2>2 DEF LoopScan, LoopPop, Rescan, ExitOnce
      <3>2. running = NoNode
        BY <2>2 DEF LoopScan, LoopPop, Rescan, PcRunning
      <3>3. pc' = "handler"
        BY <1>6, <2>2, <3>2 DEF LoopScan, LoopPop, Rescan, Scan, Dispatch
      <3> QED BY <3>1, <3>3
    <2>3. CASE running' = running
      <3>1. node[running].cb = ExitCb
        BY <1>6, <2>1, <2>3, NodeKept DEF InUse
      <3>2. process_events /\ pc = "handler"
        BY <1>6, <2>3, <3>1 DEF ExitOnce
      <3>3. ~OnDispatchThread
        BY <3>1, <3>2 DEF OnDispatchThread
      <3> QED BY <1>6, <2>3, <3>1, <3>2, <3>3
           DEF Next, UserCode, LoopStep, BgInsert, vars, PostEvent, PostEventWithDelay,
               CancelQueued, CancelTimed, CancelWait, CancelReturn, CancelEventLoop, ExitEventLoop,
               BgReadClock, BgPost, BgPostCancelled, Tick, RunEventLoop, LoopScan, LoopPop, LoopExit,
               WaitTimeout, WaitSpurious, Rescan, HandlerReturn, ExitHandlerStop, ExitHandlerRepost,
               ReleaseRunning, Signal
    <2> QED BY <1>6, <2>2, <2>3
         DEF Next, UserCode, LoopStep, BgInsert, vars, PostEvent, PostEventWithDelay,
             CancelQueued, CancelTimed, CancelWait, CancelReturn, CancelEventLoop, ExitEventLoop,
             BgReadClock, BgPost, BgPostCancelled, Tick, RunEventLoop, LoopExit,
             WaitTimeout, WaitSpurious, HandlerReturn, ExitHandlerStop, ExitHandlerRepost,
             ReleaseRunning
  <1> QED BY <1>4, <1>5, <1>6 DEF ExitOnce

\* A step of any action keeps the times of events without delay in the past.
LEMMA UntimedDueStep ==
    ASSUME Owned, UntimedDue, [Next]_vars
    PROVE  UntimedDue'
  <1> USE DEF Owned
  <1>1. Owned'
    BY OwnedStep
  <1>2. now \in Nat /\ now' \in Nat /\ now <= now'
    BY ClockStep
  <1>3. ASSUME NEW n \in Pending', node'[n].delay = 0 PROVE node'[n].runtime <= now'
    <2>1. n \in InUse'
      BY DEF InUse
    <2>2. n \in Nodes /\ node'[n].runtime \in Nat
      <3>1. event_queue' \in Seq(Nodes) /\ timer_queue' \in Seq(Nodes) /\ node' \in [Nodes -> Event]
        BY <1>1 DEF TypeOK
      <3>2. n \in Nodes
        BY <3>1, ElemsMember DEF Pending
      <3> QED BY <3>1, <3>2 DEF Event
    <2>3. CASE n \in Pending
      <3>1. node'[n] = node[n]
        BY <2>1, <2>3, NodeKept DEF InUse
      <3>2. node[n].runtime <= now
        BY <1>3, <2>3, <3>1 DEF UntimedDue
      <3> QED BY <1>2, <2>2, <3>1, <3>2
    <2>4. CASE n \in InUse \ Pending
      <3>1. n = running /\ running \notin Pending
        BY <2>4 DEF InUse
      <3>2. running \notin Pending'
        <4>1. CASE running' = running
          BY <1>1, <4>1 DEF NodeOwnership
        <4>2. CASE HandlerReturn \/ ExitHandlerStop
          BY <3>1, <4>2 DEF HandlerReturn, ExitHandlerStop, Pending
        <4>3. CASE ExitHandlerRepost
          <5>1. Alloc(free_queue) \in Nodes \ InUse
            BY <4>3, AllocUnused DEF ExitHandlerRepost
          <5>2. Elems(event_queue') = Elems(event_queue) \cup {Alloc(free_queue)}
            BY <4>3, <5>1, AppendElems DEF ExitHandlerRepost, TypeOK
          <5> QED BY <2>4, <3>1, <4>3, <5>1, <5>2 DEF ExitHandlerRepost, Pending
        <4>4. CASE LoopScan \/ LoopPop \/ Rescan
          BY <2>2, <3>1, <4>4, ConstantsAssumption DEF LoopScan, LoopPop, Rescan, PcRunning, Nodes
        <4> QED BY <4>1, <4>2, <4>3, <4>4
             DEF Next, UserCode, LoopStep, BgInsert, vars, PostEvent, PostEventWithDelay,
                 CancelQueued, CancelTimed, CancelWait, CancelReturn, CancelEventLoop, ExitEventLoop,
                 BgReadClock, BgPost, BgPostCancelled, Tick, RunEventLoop, LoopExit, WaitTimeout,
                 WaitSpurious
      <3> QED BY <3>1, <3>2
    <2>5. CASE n \notin InUse
      <3>1. \/ node'[n].runtime = 0
            \/ \E t \in Threads : bg[t].delay = 0 /\ node'[n].runtime = bg[t].runtime
        BY <1>3, <2>1, <2>5, NewNode
      <3>2. CASE node'[n].runtime = 0
        BY <1>2, <3>2
      <3>3. ASSUME NEW t \in Threads, bg[t].delay = 0, node'[n].runtime = bg[t].runtime
            PROVE  node'[n].runtime <= now'
        <4>1. bg[t].runtime <= now
          BY <3>3 DEF UntimedDue
        <4> QED BY <1>2, <2>2, <3>3, <4>1
      <3> QED BY <3>1, <3>2, <3>3
    <2> QED BY <2>3, <2>4, <2>5 DEF InUse
  <1>4. ASSUME NEW t \in Threads, bg'[t].delay = 0 PROVE bg'[t].runtime <= now'
    <2>1. CASE bg' = bg
      <3>1. bg[t].runtime \in Nat
        BY DEF TypeOK, BgState
      <3> QED BY <1>2, <1>4, <2>1, <3>1 DEF UntimedDue
    <2>2. ASSUME NEW u \in Threads, BgInsert(u) PROVE bg'[t].runtime <= now'
      <3>1. bg' = [bg EXCEPT ![u] = Idle]
        BY <2>2 DEF BgInsert, BgPost, BgPostCancelled
      <3>2. bg'[t] = Idle \/ bg'[t] = bg[t]
        BY <3>1 DEF TypeOK
      <3>3. bg[t].runtime \in Nat
        BY DEF TypeOK, BgState
      <3> QED BY <1>2, <1>4, <3>2, <3>3 DEF UntimedDue, Idle
    <2>3. ASSUME NEW u \in Threads, NEW cb \in Callbacks, NEW d \in Delays \cup {0},
                 BgReadClock(u, cb, d)
          PROVE  bg'[t].runtime <= now'
      <3>1. bg' = [bg EXCEPT ![u] = [cb |-> cb, runtime |-> now + d, delay |-> d]]
        BY <2>3 DEF BgReadClock
      <3>2. CASE t = u
        <4>1. bg'[t].runtime = now + d /\ bg'[t].delay = d
          BY <3>1, <3>2 DEF TypeOK
        <4> QED BY <1>2, <1>4, <4>1
      <3>3. CASE t # u
        <4>1. bg'[t] = bg[t] /\ bg[t].runtime \in Nat
          BY <3>1, <3>3 DEF TypeOK, BgState
        <4> QED BY <1>2, <1>4, <4>1 DEF UntimedDue
      <3> QED BY <3>2, <3>3
    <2> QED BY <2>1, <2>2, <2>3
         DEF Next, UserCode, LoopStep, vars, PostEvent, PostEventWithDelay, CancelQueued, CancelTimed,
             CancelWait, CancelReturn, CancelEventLoop, ExitEventLoop, Tick, RunEventLoop, LoopScan,
             LoopPop, LoopExit, WaitTimeout, WaitSpurious, Rescan, HandlerReturn, ExitHandlerStop,
             ExitHandlerRepost
  <1> QED BY <1>3, <1>4 DEF UntimedDue

\* What the loop dispatches leaves drain; the rest of drain stays pending and, when
\* the exit event is on its way, leaves timer_queue before it.
LEMMA LoopDrain ==
    ASSUME Owned, TimersSorted, DrainInv, LoopScan \/ Rescan \/ LoopPop
    PROVE  /\ drain' \subseteq drain /\ drain' \subseteq Pending'
           /\ (\E n \in InUse' \ Elems(timer_queue') : node'[n].cb = ExitCb)
                => drain' \cap Elems(timer_queue') = {}
  <1> USE DEF Owned
  <1>1. node' = node /\ running = NoNode /\ InUse' \subseteq InUse
    BY LoopInUse DEF LoopScan, Rescan, LoopPop, PcRunning
  <1>2. ASSUME NEW q \in Seq(Nodes), q # <<>>, Injective(q), NEW last, NEW cnt, Dispatch(q, last, cnt),
               drain \subseteq Elems(q) \cup Elems(timer_queue')
        PROVE  drain' \subseteq drain /\ drain' \subseteq Pending'
    <2>1. drain' = drain \ {Head(q)} /\ Elems(event_queue') = Elems(q) \ {Head(q)}
      BY <1>2, TailElems DEF Dispatch
    <2> QED BY <1>2, <2>1 DEF Pending
  <1>3. CASE LoopPop
    <2>1. drain' \subseteq drain /\ drain' \subseteq Pending' /\ timer_queue' = timer_queue
      <3>1. drain \subseteq Elems(event_queue) \cup Elems(timer_queue)
        BY DEF DrainInv, Pending
      <3> QED BY <1>2, <1>3, <3>1 DEF LoopPop, TypeOK, NodeOwnership
    <2> QED BY <1>1, <2>1 DEF DrainInv
  <1>4. ASSUME Scan
        PROVE  /\ drain' \subseteq drain /\ drain' \subseteq Pending'
               /\ (\E n \in InUse' \ Elems(timer_queue') : node'[n].cb = ExitCb)
                    => drain' \cap Elems(timer_queue') = {}
    <2>1. PICK k \in 0..Len(timer_queue) :
            /\ Ready(k)
            /\ \/ /\ k > 0 \/ event_queue # <<>>
                  /\ timer_queue' = SubSeq(timer_queue, k + 1, Len(timer_queue))
                  /\ Dispatch(SubSeq(timer_queue, 1, k) \o event_queue, MovedLast(k), 0)
               \/ UNCHANGED <<event_queue, timer_queue, running, drain>>
      BY <1>4 DEF Scan
    <2>2. CASE UNCHANGED <<event_queue, timer_queue, running, drain>>
      <3>1. Pending' = Pending /\ InUse' = InUse
        BY <2>2 DEF Pending, InUse
      <3> QED BY <1>1, <2>2, <3>1 DEF DrainInv
    <2>3. CASE /\ k > 0 \/ event_queue # <<>>
               /\ timer_queue' = SubSeq(timer_queue, k + 1, Len(timer_queue))
               /\ Dispatch(SubSeq(timer_queue, 1, k) \o event_queue, MovedLast(k), 0)
      <3> DEFINE all == SubSeq(timer_queue, 1, k) \o event_queue
      <3>1. all \in Seq(Nodes) /\ Len(all) = k + Len(event_queue)
        BY MoveElems DEF TypeOK
      <3>2. /\ Injective(all)
            /\ Elems(all) \cup Elems(timer_queue') = Elems(timer_queue) \cup Elems(event_queue)
            /\ \A n \in Elems(timer_queue') : \E i \in (k + 1)..Len(timer_queue) : n = timer_queue[i]
        BY <2>3, MoveOwned DEF TypeOK, NodeOwnership
      <3>3. Dispatch(all, MovedLast(k), 0)
        BY <2>3
      <3> HIDE DEF all
      <3>4. all # <<>>
        BY <2>3, <3>1 DEF TypeOK
      <3>5. drain \subseteq Elems(all) \cup Elems(timer_queue')
        BY <3>2 DEF DrainInv, Pending
      <3>6. drain' \subseteq drain /\ drain' \subseteq Pending'
        BY <1>2, <3>1, <3>2, <3>3, <3>4, <3>5
      <3>7. ASSUME NEW n \in drain, n \in Elems(timer_queue') PROVE FALSE
        <4>1. PICK i \in (k + 1)..Len(timer_queue) : n = timer_queue[i]
          BY <3>2, <3>7
        <4>2. k + 1 \in 1..Len(timer_queue) /\ i \in 1..Len(timer_queue) /\ k < Len(timer_queue)
          BY DEF TypeOK
        <4>3. now < node[timer_queue[k + 1]].runtime
          BY <2>1, <4>2 DEF Ready
        <4>4. node[timer_queue[k + 1]].runtime \in Nat /\ node[n].runtime \in Nat /\ now \in Nat
          <5>1. timer_queue[k + 1] \in Nodes /\ n \in Nodes
            BY <4>1, <4>2 DEF TypeOK
          <5> QED BY <5>1 DEF TypeOK, Event
        <4>5. node[timer_queue[k + 1]].runtime <= node[n].runtime
          <5>1. CASE i = k + 1
            BY <4>1, <4>4, <5>1
          <5>2. CASE k + 1 < i
            BY <4>1, <4>2, <5>2 DEF TimersSorted
          <5> QED BY <5>1, <5>2 DEF TypeOK
        <4>6. node[n].runtime <= now
          BY <3>7 DEF DrainInv
        <4> QED BY <4>3, <4>4, <4>5, <4>6
      <3> QED BY <3>6, <3>7
    <2> QED BY <2>1, <2>2, <2>3
  <1> QED BY <1>3, <1>4 DEF LoopScan, Rescan

\* A step of any action keeps what is said of drain.
LEMMA DrainStep ==
    ASSUME Owned, TimersSorted, ExitOnce, UntimedDue, DrainInv, [Next]_vars
    PROVE  DrainInv'
  <1> USE DEF Owned
  <1>1. Owned'
    BY OwnedStep
  <1>2. now \in Nat /\ now' \in Nat /\ now <= now'
    BY ClockStep
  <1>3. NoNode \notin Nodes /\ ExitNode \in Nodes
    BY ConstantsAssumption DEF Nodes
  <1>4. ASSUME drain' \subseteq drain, drain' \subseteq Pending', NEW n \in drain'
        PROVE  n \in Pending' /\ node'[n].runtime <= now'
    <2>1. n \in Pending /\ n \in Pending' /\ node[n].runtime <= now
      BY <1>4 DEF DrainInv
    <2>2. node'[n] = node[n]
      BY <2>1, NodeKept DEF InUse
    <2>3. node[n].runtime \in Nat
      <3>1. n \in Nodes
        BY <2>1, ElemsMember DEF Pending, TypeOK
      <3> QED BY <3>1 DEF TypeOK, Event
    <2> QED BY <1>2, <2>1, <2>2, <2>3
  <1>5. CASE LoopScan \/ Rescan \/ LoopPop
    BY <1>4, <1>5, LoopDrain DEF DrainInv
  <1>6. ASSUME drain' \subseteq drain, drain' \subseteq Pending',
               drain' \cap Elems(timer_queue') \subseteq Elems(timer_queue),
               \A n \in InUse' \ Elems(timer_queue') :
                  node'[n].cb = ExitCb =>
                     \E m \in InUse \ Elems(timer_queue) : node[m].cb = ExitCb
        PROVE  DrainInv'
    BY <1>4, <1>6 DEF DrainInv
  <1>7. ASSUME drain' \subseteq drain, drain' \subseteq Pending',
               drain' \cap Elems(timer_queue') \subseteq Elems(timer_queue),
               Elems(timer_queue) \cap InUse' \subseteq Elems(timer_queue'),
               ~ExitEventLoop, ~ExitHandlerRepost
        PROVE  DrainInv'
    <2>1. ASSUME NEW n \in InUse' \ Elems(timer_queue'), node'[n].cb = ExitCb
          PROVE  \E m \in InUse \ Elems(timer_queue) : node[m].cb = ExitCb
      <3>1. n \in InUse
        BY <1>7, <2>1, NewNode, ConstantsAssumption
      <3>2. node'[n] = node[n]
        BY <2>1, <3>1, NodeKept
      <3>3. n \notin Elems(timer_queue)
        BY <1>7, <2>1
      <3> QED BY <2>1, <3>1, <3>2, <3>3
    <2> QED BY <1>6, <1>7, <2>1
  <1>8. drain \subseteq Pending /\ drain \subseteq InUse
    BY DEF DrainInv, InUse
  <1>9. CASE ExitEventLoop
    <2>1. /\ exit_event \in Nodes \ InUse /\ exit_event # NoNode
          /\ drain' = {n \in Pending : Untimed(n)}
          /\ timer_queue' = <<exit_event>> \o timer_queue
          /\ UNCHANGED <<event_queue, running>>
      BY <1>3, <1>9 DEF ExitEventLoop, TypeOK, NodeOwnership
    <2>2. timer_queue' = InsertAfter(timer_queue, 0, exit_event) /\ 0 \in 0..Len(timer_queue)
      BY <2>1 DEF InsertAfter, TypeOK
    <2>3. Elems(InsertAfter(timer_queue, 0, exit_event)) = Elems(timer_queue) \cup {exit_event}
      BY <2>1, <2>2, InsertAfterElems DEF TypeOK
    <2>4. Pending' = Pending \cup {exit_event} /\ InUse' = InUse \cup {exit_event}
      BY <2>1, <2>2, <2>3 DEF Pending, InUse
    <2>5. ASSUME NEW n \in drain' PROVE n \in Pending' /\ node'[n].runtime <= now'
      <3>1. n \in Pending /\ node[n].delay = 0
        BY <2>1 DEF Untimed
      <3>2. node'[n] = node[n] /\ node[n].runtime <= now /\ n \in Pending'
        BY <2>4, <3>1, NodeKept DEF UntimedDue, InUse
      <3>3. node[n].runtime \in Nat
        <4>1. n \in Nodes
          BY <3>1, ElemsMember DEF Pending, TypeOK
        <4> QED BY <4>1 DEF TypeOK, Event
      <3> QED BY <1>2, <3>2, <3>3
    <2>6. ASSUME NEW n \in InUse' \ Elems(timer_queue') PROVE node'[n].cb # ExitCb
      <3>1. n \in InUse
        BY <2>2, <2>3, <2>4
      <3>2. node'[n] = node[n]
        BY <2>6, <3>1, NodeKept
      <3> QED BY <2>1, <3>1, <3>2 DEF ExitOnce
    <2> QED BY <2>5, <2>6 DEF DrainInv
  <1>10. CASE ExitHandlerRepost
    <2> DEFINE m == Alloc(free_queue)
    <2>1. m \in Nodes
      BY <1>10, AllocUnused DEF ExitHandlerRepost
    <2>2. event_queue' = Append(event_queue, m) /\ UNCHANGED <<timer_queue, drain>>
      BY <1>10 DEF ExitHandlerRepost
    <2>3. Elems(event_queue') = Elems(event_queue) \cup {m}
      BY <2>1, <2>2, AppendElems DEF TypeOK
    <2>4. drain' \subseteq Pending'
      BY <1>8, <2>2, <2>3 DEF Pending
    <2>5. running \in InUse \ Elems(timer_queue) /\ node[running].cb = ExitCb
      BY <1>3, <1>10 DEF ExitHandlerRepost, PcRunning, InUse, NodeOwnership, Pending
    <2> QED BY <1>6, <2>2, <2>4, <2>5
  <1>11. ASSUME NEW cb \in Callbacks, PostEvent(cb) PROVE DrainInv'
    <2> DEFINE m == Alloc(free_queue)
    <2>1. m \in Nodes
      BY <1>11, AllocUnused DEF PostEvent, AppendEvent
    <2>2. event_queue' = Append(event_queue, m) /\ UNCHANGED <<timer_queue, drain, running, exit_event, pc>>
      BY <1>11 DEF PostEvent, AppendEvent
    <2>3. Elems(event_queue') = Elems(event_queue) \cup {m}
      BY <2>1, <2>2, AppendElems DEF TypeOK
    <2>4. drain' \subseteq Pending'
      BY <1>8, <2>2, <2>3 DEF Pending
    <2>5. ~ExitEventLoop /\ ~ExitHandlerRepost
      BY <1>3, <2>2, <1>11 DEF ExitEventLoop, ExitHandlerRepost, PostEvent, OnDispatchThread
    <2> QED BY <1>7, <2>2, <2>4, <2>5
  <1>12. ASSUME NEW n \in Nodes \ InUse, NEW k \in 0..Len(timer_queue),
                timer_queue' = InsertAfter(timer_queue, k, n),
                UNCHANGED <<event_queue, drain>>, ~ExitEventLoop, ~ExitHandlerRepost
         PROVE  DrainInv'
    <2>1. Elems(timer_queue') = Elems(timer_queue) \cup {n}
      BY <1>12, InsertAfterElems DEF TypeOK
    <2>2. drain' \subseteq Pending' /\ n \notin drain'
      BY <1>8, <1>12, <2>1 DEF Pending
    <2> QED BY <1>7, <1>12, <2>1, <2>2
  <1>13. ASSUME NEW cb \in Callbacks, NEW d \in Delays, PostEventWithDelay(cb, d) PROVE DrainInv'
    <2>1. Alloc(free_queue) \in Nodes \ InUse
      BY <1>13, AllocUnused DEF PostEventWithDelay
    <2>2. PICK k \in 0..Len(timer_queue) :
            timer_queue' = InsertAfter(timer_queue, k, Alloc(free_queue))
      BY <1>13 DEF PostEventWithDelay
    <2>3. UNCHANGED <<event_queue, drain>> /\ ~ExitEventLoop /\ ~ExitHandlerRepost
      BY <1>13 DEF PostEventWithDelay, OnDispatchThread, ExitEventLoop, ExitHandlerRepost
    <2> QED BY <1>12, <2>1, <2>2, <2>3
  <1>14. ASSUME NEW t \in Threads, BgPost(t) PROVE DrainInv'
    <2>1. Alloc(free_bg_queue) \in Nodes \ InUse
      BY <1>14, AllocUnused DEF BgPost
    <2>2. PICK k \in 0..Len(timer_queue) :
            timer_queue' = InsertAfter(timer_queue, k, Alloc(free_bg_queue))
      BY <1>14 DEF BgPost
    <2>3. UNCHANGED <<event_queue, drain, exit_event, running>>
      BY <1>14 DEF BgPost
    <2>4. ~ExitEventLoop
      BY <2>3 DEF ExitEventLoop
    <2>5. ~ExitHandlerRepost
      BY <1>3, <2>3 DEF ExitHandlerRepost, ReleaseRunning, PcRunning
    <2> QED BY <1>12, <2>1, <2>2, <2>3, <2>4, <2>5
  <1>15. ASSUME NEW cb \in Callbacks, CancelQueued(cb) PROVE DrainInv'
    <2>1. PICK i \in 1..Len(event_queue) :
            event_queue' = DropAt(event_queue, i) /\ ForgetNode(event_queue[i])
      BY <1>15 DEF CancelQueued
    <2>2. Elems(event_queue') = Elems(event_queue) \ {event_queue[i]}
      BY <2>1, DropAtElems DEF TypeOK, NodeOwnership
    <2>3. drain' = drain \ {event_queue[i]} /\ timer_queue' = timer_queue
      BY <1>15, <2>1 DEF ForgetNode, CancelQueued
    <2>4. drain' \subseteq Pending'
      BY <1>8, <2>2, <2>3 DEF Pending
    <2>5. ~ExitEventLoop /\ ~ExitHandlerRepost
      BY <1>15 DEF CancelQueued, OnDispatchThread, ExitEventLoop, ExitHandlerRepost
    <2> QED BY <1>7, <2>3, <2>4, <2>5
  <1>16. ASSUME NEW cb \in Callbacks, CancelTimed(cb) PROVE DrainInv'
    <2>1. PICK i \in 1..Len(timer_queue) :
            timer_queue' = DropAt(timer_queue, i) /\ ForgetNode(timer_queue[i])
      BY <1>16 DEF CancelTimed
    <2> DEFINE m == timer_queue[i]
    <2>2. Elems(timer_queue') = Elems(timer_queue) \ {m} /\ m \in Elems(timer_queue)
      BY <2>1, DropAtElems, ElemsMember DEF TypeOK, NodeOwnership
    <2>3. drain' = drain \ {m} /\ UNCHANGED <<event_queue, running, exit_event>>
      BY <1>16, <2>1 DEF ForgetNode, CancelTimed
    <2> HIDE DEF m
    <2>4. drain' \subseteq Pending'
      BY <1>8, <2>2, <2>3 DEF Pending
    <2>5. ~ExitEventLoop /\ ~ExitHandlerRepost
      BY <1>16 DEF CancelTimed, OnDispatchThread, ExitEventLoop, ExitHandlerRepost
    <2>6. m \notin InUse'
      BY <2>2, <2>3 DEF InUse, Pending, NodeOwnership
    <2> QED BY <1>7, <2>2, <2>3, <2>4, <2>5, <2>6
  <1>17. ASSUME UNCHANGED <<event_queue, timer_queue, drain, exit_event>> PROVE DrainInv'
    <2>1. drain' \subseteq Pending'
      BY <1>8, <1>17 DEF Pending
    <2>2. ~ExitEventLoop
      BY <1>17 DEF ExitEventLoop
    <2>3. ~ExitHandlerRepost
      <3>1. ASSUME ExitHandlerRepost PROVE FALSE
        <4>1. Alloc(free_queue) \in Nodes \ InUse
          BY <3>1, AllocUnused DEF ExitHandlerRepost
        <4>2. Elems(event_queue') = Elems(event_queue) \cup {Alloc(free_queue)}
          BY <3>1, <4>1, AppendElems DEF ExitHandlerRepost, TypeOK
        <4> QED BY <1>17, <4>1, <4>2 DEF InUse, Pending
      <3> QED BY <3>1
    <2> QED BY <1>7, <1>17, <2>1, <2>2, <2>3
  <1> QED BY <1>5, <1>9, <1>10, <1>11, <1>13, <1>14, <1>15, <1>16, <1>17
          DEF Next, UserCode, LoopStep, BgInsert, vars, CancelWait, CancelReturn, CancelEventLoop,
              BgReadClock, BgPostCancelled, Tick, RunEventLoop, LoopExit, WaitTimeout, WaitSpurious,
              HandlerReturn, ExitHandlerStop

\* Only exit_event_handler() with an empty event_queue stops the loop while it runs.
LEMMA ExitStep ==
    ASSUME Owned, ExitOnce, DrainInv, [Next]_vars,
           pc = "handler", node[running].cb = ExitCb, ~process_events'
    PROVE  drain = {}
  <1> USE DEF Owned
  <1>1. running \in Nodes /\ running # NoNode /\ running \in InUse \ Elems(timer_queue)
    BY ConstantsAssumption DEF PcRunning, Nodes, InUse, NodeOwnership, Pending
  <1>2. process_events /\ ~OnDispatchThread
    BY <1>1 DEF ExitOnce, OnDispatchThread
  <1>3. drain \cap Elems(timer_queue) = {} /\ drain \subseteq Pending
    BY <1>1 DEF DrainInv
  <1>4. event_queue = <<>>
    BY <1>2 DEF Next, UserCode, LoopStep, BgInsert, vars, PostEvent, PostEventWithDelay, CancelQueued,
           CancelTimed, CancelWait, CancelReturn, CancelEventLoop, ExitEventLoop, BgReadClock, BgPost,
           BgPostCancelled, Tick, RunEventLoop, LoopScan, LoopPop, LoopExit, WaitTimeout,
           WaitSpurious, Rescan, HandlerReturn, ExitHandlerStop, ExitHandlerRepost
  <1>5. Elems(event_queue) = {}
    BY <1>4 DEF Elems
  <1> QED BY <1>3, <1>5 DEF Pending

-----------------------------------------------------------------------------
(***************************************************************************)
(* The order of the posts of a thread                                      *)
(***************************************************************************)

\* m is in front of n in q.
Precedes(q, m, n) == \E i, j \in 1..Len(q) : i < j /\ q[i] = m /\ q[j] = n

\* m is dispatched before n when event_queue is e and timer_queue is t, and no timer is
\* moved in front of m.
Ordered(e, t, m, n) ==
    \/ Precedes(e, m, n)
    \/ Precedes(t, m, n)
    \/ m \in Elems(e) /\ n \in Elems(t)

\* In event_queue the timers that were moved come first, then the events that the dispatch
\* thread posted (with runtime 0).  One of these has been counted only when no timer is left.
Batches(e, t, nd, cnt) ==
    /\ \A i, j \in 1..Len(e) : i < j /\ nd[e[i]].runtime = 0 => nd[e[j]].runtime = 0
    /\ cnt >= 1 => \A i \in 1..Len(e) : nd[e[i]].runtime = 0
    /\ \A i \in 1..Len(t) : nd[t[i]].runtime # 0

\* Runtime 0 is what the dispatch thread gives to an event without delay, and nobody else.
Sources(S, nd) ==
    \A n \in S : /\ nd[n].by = Main /\ nd[n].delay = 0 => nd[n].runtime = 0
                 /\ nd[n].by \in Threads => nd[n].runtime # 0

\* The events without delay that are pending are dispatched in the order of their posts, if one
\* thread posted them.
BeforeOK(e, t, nd, bf) ==
    \A m, n \in Nodes : <<m, n>> \in bf =>
        /\ m \in Elems(e) \cup Elems(t) /\ n \in Elems(e) \cup Elems(t)
        /\ nd[m].delay = 0 /\ nd[n].delay = 0
        /\ nd[m].by = nd[n].by => Ordered(e, t, m, n)

\* A thread that has read the clock has read no less than at its earlier posts.
Reads(S, nd, b) ==
    \A t \in Threads : b[t] # Idle /\ b[t].delay = 0 =>
        \A n \in S : nd[n].by = t /\ nd[n].delay = 0 => nd[n].runtime <= b[t].runtime

Clocked == now # 0 /\ \A t \in Threads : bg[t] # Idle => bg[t].runtime # 0

OrderInv ==
    /\ Clocked
    /\ Reads(Pending, node, bg)
    /\ pc \in {"wait", "woken"} => event_queue = <<>>
    /\ exit_event # NoNode =>
         /\ Batches(event_queue, timer_queue, node, event_cnt)
         /\ Sources(Pending, node)
         /\ BeforeOK(event_queue, timer_queue, node, before)

\* The order of two nodes survives whatever happens to other nodes.
LEMMA OrderedAppend ==
    ASSUME NEW e \in Seq(Nodes), NEW t \in Seq(Nodes), NEW x \in Nodes, NEW m, NEW n,
           Ordered(e, t, m, n)
    PROVE  Ordered(Append(e, x), t, m, n)
  <1> DEFINE r == Append(e, x)
  <1>1. /\ r \in Seq(Nodes) /\ Len(r) = Len(e) + 1
        /\ \A i \in 1..Len(e) : r[i] = e[i]
    BY AppendProperties
  <1>2. Elems(r) = Elems(e) \cup {x}
    BY AppendElems
  <1> HIDE DEF r
  <1>3. Precedes(e, m, n) => Precedes(r, m, n)
    BY <1>1 DEF Precedes
  <1>4. Ordered(r, t, m, n)
    BY <1>2, <1>3 DEF Ordered
  <1> QED BY <1>4 DEF r

LEMMA PrecedesInsert ==
    ASSUME NEW q \in Seq(Nodes), NEW x \in Nodes, NEW k \in 0..Len(q), NEW m, NEW n,
           Precedes(q, m, n)
    PROVE  Precedes(InsertAfter(q, k, x), m, n)
  <1> DEFINE r == InsertAfter(q, k, x)
  <1>1. /\ r \in Seq(Nodes) /\ Len(r) = Len(q) + 1
        /\ \A i \in 1..(Len(q) + 1) : r[i] = IF i <= k THEN q[i]
                                             ELSE IF i = k + 1 THEN x ELSE q[i - 1]
    BY InsertAfterIsSeq
  <1> HIDE DEF r
  <1>2. PICK i \in 1..Len(q), j \in 1..Len(q) : i < j /\ q[i] = m /\ q[j] = n
    BY DEF Precedes
  <1> DEFINE At(l) == IF l <= k THEN l ELSE l + 1
  <1>3. /\ At(i) \in 1..Len(r) /\ At(j) \in 1..Len(r) /\ At(i) < At(j)
        /\ r[At(i)] = m /\ r[At(j)] = n
    BY <1>1, <1>2
  <1> HIDE DEF At
  <1>4. Precedes(r, m, n)
    BY <1>3 DEF Precedes
  <1> QED BY <1>4 DEF r

LEMMA OrderedInsert ==
    ASSUME NEW e \in Seq(Nodes), NEW t \in Seq(Nodes), NEW x \in Nodes, NEW k \in 0..Len(t),
           NEW m, NEW n, Ordered(e, t, m, n)
    PROVE  Ordered(e, InsertAfter(t, k, x), m, n)
  <1>1. Elems(InsertAfter(t, k, x)) = Elems(t) \cup {x}
    BY InsertAfterElems
  <1>2. Precedes(t, m, n) => Precedes(InsertAfter(t, k, x), m, n)
    BY PrecedesInsert
  <1> QED BY <1>1, <1>2 DEF Ordered

LEMMA PrecedesDrop ==
    ASSUME NEW q \in Seq(Nodes), NEW k \in 1..Len(q), NEW m, NEW n,
           Precedes(q, m, n), q[k] # m, q[k] # n
    PROVE  Precedes(DropAt(q, k), m, n)
  <1> DEFINE r == DropAt(q, k)
  <1>1. /\ r \in Seq(Nodes) /\ Len(r) = Len(q) - 1
        /\ \A j \in 1..(Len(q) - 1) : r[j] = IF j < k THEN q[j] ELSE q[j + 1]
    BY DropAtIsSeq
  <1> HIDE DEF r
  <1>2. PICK i \in 1..Len(q), j \in 1..Len(q) : i < j /\ q[i] = m /\ q[j] = n
    BY DEF Precedes
  <1> DEFINE At(l) == IF l < k THEN l ELSE l - 1
  <1>3. i # k /\ j # k
    BY <1>2
  <1>4. /\ At(i) \in 1..Len(r) /\ At(j) \in 1..Len(r) /\ At(i) < At(j)
        /\ r[At(i)] = m /\ r[At(j)] = n
    BY <1>1, <1>2, <1>3
  <1> HIDE DEF At
  <1>5. Precedes(r, m, n)
    BY <1>4 DEF Precedes
  <1> QED BY <1>5 DEF r

LEMMA PrecedesTail ==
    ASSUME NEW q \in Seq(Nodes), q # <<>>, NEW m, NEW n,
           Precedes(q, m, n), Head(q) # m, Head(q) # n
    PROVE  Precedes(Tail(q), m, n)
  <1> DEFINE r == Tail(q)
  <1>1. /\ Head(q) = q[1] /\ r \in Seq(Nodes) /\ Len(r) = Len(q) - 1
        /\ \A j \in 1..Len(r) : r[j] = q[j + 1]
    BY TailElems
  <1> HIDE DEF r
  <1>2. PICK i \in 1..Len(q), j \in 1..Len(q) : i < j /\ q[i] = m /\ q[j] = n
    BY DEF Precedes
  <1>3. i # 1 /\ j # 1
    BY <1>1, <1>2
  <1> PICK i1, j1 : i1 = i - 1 /\ j1 = j - 1
    OBVIOUS
  <1>4. /\ i1 \in 1..Len(r) /\ j1 \in 1..Len(r) /\ i1 < j1
        /\ r[i1] = m /\ r[j1] = n
    BY <1>1, <1>2, <1>3
  <1>5. Precedes(r, m, n)
    BY <1>4 DEF Precedes
  <1> QED BY <1>5 DEF r

\* A pending node that stays pending keeps its contents.
LEMMA PendingKept ==
    ASSUME Owned, [Next]_vars, NEW n \in Pending, n \in Pending'
    PROVE  node'[n] = node[n]
  BY NodeKept DEF InUse

LEMMA PendingTyped ==
    ASSUME TypeOK, NEW n \in Pending
    PROVE  n \in Nodes /\ node[n] \in Event /\ node[n].runtime \in Nat
  <1>1. n \in Nodes
    BY ElemsMember, SMTT(30) DEF Pending, TypeOK
  <1> QED BY <1>1 DEF TypeOK, Event

\* post_event() on the dispatch thread: an event behind all others.
LEMMA OrderPostEvent ==
    ASSUME Owned, Owned', OrderInv, NEW cb \in Callbacks, PostEvent(cb)
    PROVE  OrderInv'
  <1> USE DEF Owned
  <1>0. [Next]_vars
    BY DEF Next, UserCode
  <1>1. PICK x : x = Alloc(free_queue)
    OBVIOUS
  <1>2. x \in Nodes \ InUse
    BY <1>1, AllocUnused DEF PostEvent, AppendEvent
  <1>3. /\ node' = [node EXCEPT ![x] = [cb |-> cb, runtime |-> 0, delay |-> 0, by |-> Main]]
        /\ event_queue' = Append(event_queue, x) /\ Posted(x)
        /\ UNCHANGED <<timer_queue, exit_event, pc, event_cnt, now, bg>>
        /\ pc \in {"ini", "handler"}
    BY <1>1 DEF PostEvent, AppendEvent, OnDispatchThread
  <1>4. /\ event_queue' \in Seq(Nodes) /\ Len(event_queue') = Len(event_queue) + 1
        /\ event_queue'[Len(event_queue) + 1] = x
        /\ \A i \in 1..Len(event_queue) : event_queue'[i] = event_queue[i]
    BY <1>2, <1>3, AppendProperties DEF TypeOK
  <1>5. Elems(event_queue') = Elems(event_queue) \cup {x}
    BY <1>2, <1>3, AppendElems DEF TypeOK
  <1>6. Pending' = Pending \cup {x} /\ x \notin Pending
    BY <1>2, <1>3, <1>5 DEF Pending, InUse
  <1>7. /\ \A n \in Pending : node'[n] = node[n]
        /\ node'[x].runtime = 0 /\ node'[x].delay = 0 /\ node'[x].by = Main
    <2>1. \A n \in Pending : n \in Nodes
      BY PendingTyped
    <2> QED BY <1>2, <1>3, <1>6, <2>1 DEF TypeOK
  <1>8. Clocked'
    BY <1>3 DEF OrderInv, Clocked
  <1>9. Reads(Pending', node', bg')
    BY <1>3, <1>6, <1>7, ConstantsAssumption DEF OrderInv, Reads
  <1>10. ASSUME exit_event # NoNode
         PROVE  /\ Batches(event_queue', timer_queue', node', event_cnt')
                /\ Sources(Pending', node')
                /\ BeforeOK(event_queue', timer_queue', node', before')
    <2>0. /\ Batches(event_queue, timer_queue, node, event_cnt) /\ Sources(Pending, node)
          /\ BeforeOK(event_queue, timer_queue, node, before)
      BY <1>10 DEF OrderInv
    <2>1. /\ \A i \in 1..Len(event_queue) : node'[event_queue[i]] = node[event_queue[i]]
          /\ \A i \in 1..Len(timer_queue) : node'[timer_queue[i]] = node[timer_queue[i]]
      BY <1>7, ElemsMember DEF Pending
    <2>2. Len(event_queue) \in Nat
      BY DEF TypeOK
    <2>3. Batches(event_queue', timer_queue', node', event_cnt')
      <3>1. \A i \in 1..Len(event_queue') :
               \/ i \in 1..Len(event_queue) /\ event_queue'[i] = event_queue[i]
               \/ i = Len(event_queue) + 1 /\ event_queue'[i] = x
        BY <1>4, <2>2
      <3>2. ASSUME NEW i \in 1..Len(event_queue'), NEW j \in 1..Len(event_queue'), i < j,
                   node'[event_queue'[i]].runtime = 0
            PROVE  node'[event_queue'[j]].runtime = 0
        <4>1. CASE j = Len(event_queue) + 1
          BY <1>4, <1>7, <4>1
        <4>2. CASE j # Len(event_queue) + 1
          <5>1. i \in 1..Len(event_queue) /\ j \in 1..Len(event_queue)
            BY <1>4, <2>2, <3>2, <4>2
          <5> QED BY <1>4, <2>0, <2>1, <3>2, <5>1 DEF Batches
        <4> QED BY <4>1, <4>2
      <3>3. ASSUME event_cnt' >= 1, NEW i \in 1..Len(event_queue')
            PROVE  node'[event_queue'[i]].runtime = 0
        BY <1>3, <1>7, <2>0, <2>1, <3>1, <3>3 DEF Batches
      <3>4. \A i \in 1..Len(timer_queue') : node'[timer_queue'[i]].runtime # 0
        BY <1>3, <2>0, <2>1 DEF Batches
      <3> QED BY <3>2, <3>3, <3>4 DEF Batches
    <2>4. Sources(Pending', node')
      BY <1>6, <1>7, <2>0, ConstantsAssumption DEF Sources
    <2>5. ASSUME NEW m \in Nodes, NEW n \in Nodes, <<m, n>> \in before'
          PROVE  /\ m \in Pending' /\ n \in Pending'
                 /\ node'[m].delay = 0 /\ node'[n].delay = 0
                 /\ node'[m].by = node'[n].by => Ordered(event_queue', timer_queue', m, n)
      <3>1. before' = before \cup {<<p, x>> : p \in {q \in Pending : Untimed(q)}}
        BY <1>3, <1>10 DEF Posted
      <3>2. CASE <<m, n>> \in before
        <4>1. /\ m \in Pending /\ n \in Pending /\ node[m].delay = 0 /\ node[n].delay = 0
              /\ node[m].by = node[n].by => Ordered(event_queue, timer_queue, m, n)
          BY <2>0, <3>2 DEF BeforeOK, Pending
        <4>2. node'[m] = node[m] /\ node'[n] = node[n]
          BY <1>7, <4>1
        <4>3. Ordered(event_queue, timer_queue, m, n) => Ordered(event_queue', timer_queue', m, n)
          BY <1>2, <1>3, OrderedAppend DEF TypeOK
        <4> QED BY <1>6, <4>1, <4>2, <4>3
      <3>3. CASE n = x /\ m \in Pending /\ Untimed(m)
        <4>1. node'[m] = node[m] /\ node[m].delay = 0
          BY <1>7, <3>3 DEF Untimed
        <4>2. ASSUME node'[m].by = node'[n].by
              PROVE  Ordered(event_queue', timer_queue', m, n)
          <5>1. node[m].by = Main /\ node[m].runtime = 0
            BY <1>7, <2>0, <3>3, <4>1, <4>2 DEF Sources
          <5>2. m \notin Elems(timer_queue)
            BY <2>0, <5>1, ElemsMember DEF Batches
          <5>3. PICK i \in 1..Len(event_queue) : event_queue[i] = m
            BY <3>3, <5>2, ElemsMember DEF Pending
          <5>4. Precedes(event_queue', m, n)
            <6> PICK j : j = Len(event_queue) + 1
              OBVIOUS
            <6>1. /\ i \in 1..Len(event_queue') /\ j \in 1..Len(event_queue') /\ i < j
                  /\ event_queue'[i] = m /\ event_queue'[j] = n
              BY <1>4, <2>2, <3>3, <5>3
            <6> QED BY <6>1 DEF Precedes
          <5> QED BY <5>4 DEF Ordered
        <4> QED BY <1>6, <1>7, <3>3, <4>1, <4>2
      <3> QED BY <2>5, <3>1, <3>2, <3>3
    <2>6. BeforeOK(event_queue', timer_queue', node', before')
      BY <2>5 DEF BeforeOK, Pending
    <2> QED BY <2>3, <2>4, <2>6
  <1>11. pc' \in {"wait", "woken"} => event_queue' = <<>>
    BY <1>3
  <1> QED BY <1>3, <1>8, <1>9, <1>10, <1>11 DEF OrderInv

\* What linking a node into timer_queue leaves alone.
LEMMA InsertKeeps ==
    ASSUME Owned, NEW x \in Nodes \ InUse, NEW k \in 0..Len(timer_queue), NEW ev,
           timer_queue' = InsertAfter(timer_queue, k, x), event_queue' = event_queue,
           node' = [node EXCEPT ![x] = ev]
    PROVE  /\ Pending' = Pending \cup {x} /\ x \notin Pending
           /\ \A n \in Pending : node'[n] = node[n]
           /\ node'[x] = ev
  <1> USE DEF Owned
  <1>1. Elems(timer_queue') = Elems(timer_queue) \cup {x}
    BY InsertAfterElems DEF TypeOK
  <1>2. Pending' = Pending \cup {x} /\ x \notin Pending
    BY <1>1 DEF Pending, InUse
  <1>3. \A n \in Pending : n \in Nodes
    BY PendingTyped
  <1> QED BY <1>2, <1>3 DEF TypeOK

\* A new timer is not the first of its thread's posts to be dispatched.
LEMMA OrderInsert ==
    ASSUME Owned, OrderInv, exit_event # NoNode,
           NEW x \in Nodes \ InUse, NEW k \in 0..Len(timer_queue), NEW ev \in Event,
           timer_queue' = InsertAfter(timer_queue, k, x), event_queue' = event_queue,
           node' = [node EXCEPT ![x] = ev], event_cnt' = event_cnt,
           ev.runtime # 0, ev.by = Main => ev.delay # 0,
           \A m, n \in Nodes : <<m, n>> \in before' =>
              \/ <<m, n>> \in before
              \/ /\ n = x /\ m \in Pending /\ node[m].delay = 0 /\ ev.delay = 0
                 /\ m \in Elems(timer_queue) /\ node[m].by = ev.by =>
                       \E i \in 1..k : timer_queue[i] = m
    PROVE  /\ Batches(event_queue', timer_queue', node', event_cnt')
           /\ Sources(Pending', node')
           /\ BeforeOK(event_queue', timer_queue', node', before')
  <1> USE DEF Owned
  <1>0. /\ Batches(event_queue, timer_queue, node, event_cnt) /\ Sources(Pending, node)
        /\ BeforeOK(event_queue, timer_queue, node, before)
    BY DEF OrderInv
  <1>1. /\ Pending' = Pending \cup {x} /\ x \notin Pending
        /\ \A n \in Pending : node'[n] = node[n]
        /\ node'[x] = ev
    BY InsertKeeps
  <1>2. /\ \A i \in 1..Len(event_queue) : node'[event_queue[i]] = node[event_queue[i]]
        /\ \A n \in Elems(timer_queue) : node'[n] = node[n]
    BY <1>1, ElemsMember DEF Pending
  <1>3. Elems(timer_queue') = Elems(timer_queue) \cup {x}
    BY InsertAfterElems DEF TypeOK
  <1>4. Batches(event_queue', timer_queue', node', event_cnt')
    <2>1. \A n \in Elems(timer_queue') : node'[n].runtime # 0
      <3>1. \A n \in Elems(timer_queue) : node[n].runtime # 0
        BY <1>0, ElemsMember DEF Batches
      <3> QED BY <1>1, <1>2, <1>3, <3>1
    <2>2. \A i \in 1..Len(timer_queue') : node'[timer_queue'[i]].runtime # 0
      BY <2>1, ElemsMember
    <2> QED BY <1>0, <1>2, <2>2 DEF Batches
  <1>5. Sources(Pending', node')
    BY <1>0, <1>1 DEF Sources
  <1>6. ASSUME NEW m \in Nodes, NEW n \in Nodes, <<m, n>> \in before'
        PROVE  /\ m \in Pending' /\ n \in Pending'
               /\ node'[m].delay = 0 /\ node'[n].delay = 0
               /\ node'[m].by = node'[n].by => Ordered(event_queue', timer_queue', m, n)
    <2>1. CASE <<m, n>> \in before
      <3>1. /\ m \in Pending /\ n \in Pending /\ node[m].delay = 0 /\ node[n].delay = 0
            /\ node[m].by = node[n].by => Ordered(event_queue, timer_queue, m, n)
        BY <1>0, <2>1 DEF BeforeOK, Pending
      <3>2. node'[m] = node[m] /\ node'[n] = node[n]
        BY <1>1, <3>1
      <3>3. Ordered(event_queue, timer_queue, m, n) => Ordered(event_queue', timer_queue', m, n)
        BY OrderedInsert DEF TypeOK
      <3> QED BY <1>1, <3>1, <3>2, <3>3
    <2>2. CASE <<m, n>> \notin before
      <3>1. /\ n = x /\ m \in Pending /\ node[m].delay = 0 /\ ev.delay = 0
            /\ m \in Elems(timer_queue) /\ node[m].by = ev.by => \E i \in 1..k : timer_queue[i] = m
        BY <1>6, <2>2
      <3>2. node'[m] = node[m] /\ node'[n] = ev
        BY <1>1, <3>1
      <3>3. ASSUME node[m].by = ev.by
            PROVE  Ordered(event_queue', timer_queue', m, n)
        <4>1. CASE m \in Elems(timer_queue)
          <5>1. PICK i \in 1..k : timer_queue[i] = m
            BY <3>1, <3>3, <4>1
          <5>2. /\ Len(timer_queue') = Len(timer_queue) + 1
                /\ \A j \in 1..(Len(timer_queue) + 1) :
                     timer_queue'[j] = IF j <= k THEN timer_queue[j]
                                       ELSE IF j = k + 1 THEN x ELSE timer_queue[j - 1]
            BY InsertAfterIsSeq, SMTT(30) DEF TypeOK
          <5>3. Len(timer_queue) \in Nat
            BY DEF TypeOK
          <5> PICK j : j = k + 1
            OBVIOUS
          <5>4. /\ i \in 1..Len(timer_queue') /\ j \in 1..Len(timer_queue') /\ i < j
                /\ timer_queue'[i] = m /\ timer_queue'[j] = n
            BY <3>1, <5>1, <5>2, <5>3
          <5> QED BY <5>4 DEF Precedes, Ordered
        <4>2. CASE m \notin Elems(timer_queue)
          BY <1>3, <3>1, <4>2 DEF Ordered, Pending
        <4> QED BY <4>1, <4>2
      <3> QED BY <1>1, <3>1, <3>2, <3>3
    <2> QED BY <2>1, <2>2
  <1>7. BeforeOK(event_queue', timer_queue', node', before')
    BY <1>6 DEF BeforeOK, Pending
  <1> QED BY <1>4, <1>5, <1>7

\* post_event_with_delay() on the dispatch thread.
LEMMA OrderPostDelay ==
    ASSUME Owned, OrderInv, NEW cb \in Callbacks, NEW d \in Delays, PostEventWithDelay(cb, d)
    PROVE  OrderInv'
  <1> USE DEF Owned
  <1>1. PICK x, ev : /\ x = Alloc(free_queue)
                     /\ ev = [cb |-> cb, runtime |-> now + d, delay |-> d, by |-> Main]
    OBVIOUS
  <1>2. x \in Nodes \ InUse
    BY <1>1, AllocUnused DEF PostEventWithDelay
  <1>3. PICK k \in 0..Len(timer_queue) : timer_queue' = InsertAfter(timer_queue, k, x)
    BY <1>1 DEF PostEventWithDelay
  <1>4. /\ node' = [node EXCEPT ![x] = ev]
        /\ UNCHANGED <<event_queue, exit_event, pc, event_cnt, now, bg, before>>
    BY <1>1 DEF PostEventWithDelay
  <1>5. d \in Nat /\ d # 0 /\ now \in Nat
    BY ConstantsAssumption DEF TypeOK
  <1>6. now + d \in Nat /\ now + d # 0
    BY <1>5
  <1>7. ev \in Event /\ ev.runtime # 0 /\ ev.by = Main /\ ev.delay # 0
    BY <1>1, <1>5, <1>6 DEF Event, Handlers, Posters
  <1>8. /\ Pending' = Pending \cup {x} /\ x \notin Pending
        /\ \A n \in Pending : node'[n] = node[n]
        /\ node'[x] = ev
    BY <1>2, <1>3, <1>4, InsertKeeps
  <1>9. Clocked' /\ (pc' \in {"wait", "woken"} => event_queue' = <<>>)
    BY <1>4 DEF OrderInv, Clocked
  <1>10. Reads(Pending', node', bg')
    BY <1>4, <1>7, <1>8, ConstantsAssumption DEF OrderInv, Reads
  <1>11. exit_event # NoNode => /\ Batches(event_queue', timer_queue', node', event_cnt')
                                /\ Sources(Pending', node')
                                /\ BeforeOK(event_queue', timer_queue', node', before')
    BY <1>2, <1>3, <1>4, <1>7, OrderInsert
  <1> QED BY <1>4, <1>9, <1>10, <1>11 DEF OrderInv

\* post_from_bg_thread(): behind the earlier posts of the thread, which carry earlier times.
LEMMA OrderBgPost ==
    ASSUME Owned, TimersSorted, OrderInv, NEW t \in Threads, BgPost(t)
    PROVE  OrderInv'
  <1> USE DEF Owned
  <1>1. PICK x, ev : /\ x = Alloc(free_bg_queue)
                     /\ ev = [cb |-> bg[t].cb, runtime |-> bg[t].runtime,
                              delay |-> bg[t].delay, by |-> t]
    OBVIOUS
  <1>2. x \in Nodes \ InUse
    BY <1>1, AllocUnused DEF BgPost
  <1>3. PICK k \in 0..Len(timer_queue) : /\ timer_queue' = InsertAfter(timer_queue, k, x)
                                         /\ InsertionPoint(timer_queue, bg[t].runtime, k)
    BY <1>1 DEF BgPost
  <1>4. /\ node' = [node EXCEPT ![x] = ev]
        /\ bg' = [bg EXCEPT ![t] = Idle]
        /\ UNCHANGED <<event_queue, exit_event, event_cnt, now>>
        /\ pc' = pc \/ (pc = "wait" /\ pc' = "woken")
        /\ IF bg[t].delay = 0 THEN Posted(x) ELSE before' = before
        /\ bg[t] # Idle
    BY <1>1 DEF BgPost, Signal
  <1>5. bg[t] \in BgState /\ bg[t].runtime \in Nat /\ bg[t].delay \in Nat
    BY DEF TypeOK, BgState
  <1>6. bg[t].runtime # 0
    BY <1>4 DEF OrderInv, Clocked
  <1>7. ev \in Event /\ ev.runtime = bg[t].runtime /\ ev.by = t /\ ev.delay = bg[t].delay
    BY <1>1, <1>5 DEF Event, Handlers, Posters, BgState
  <1>8. /\ Pending' = Pending \cup {x} /\ x \notin Pending
        /\ \A n \in Pending : node'[n] = node[n]
        /\ node'[x] = ev
    BY <1>2, <1>3, <1>4, InsertKeeps
  <1>9. Clocked' /\ (pc' \in {"wait", "woken"} => event_queue' = <<>>)
    BY <1>4 DEF OrderInv, Clocked, TypeOK
  <1>10. Reads(Pending', node', bg')
    <2>1. \A u \in Threads : bg'[u] # Idle => bg'[u] = bg[u] /\ u # t
      BY <1>4 DEF TypeOK
    <2> QED BY <1>7, <1>8, <2>1 DEF OrderInv, Reads
  <1>11. ASSUME exit_event # NoNode
         PROVE  /\ Batches(event_queue', timer_queue', node', event_cnt')
                /\ Sources(Pending', node')
                /\ BeforeOK(event_queue', timer_queue', node', before')
    <2>1. ASSUME NEW m \in Nodes, NEW n \in Nodes, <<m, n>> \in before', <<m, n>> \notin before
          PROVE  /\ n = x /\ m \in Pending /\ node[m].delay = 0 /\ ev.delay = 0
                 /\ m \in Elems(timer_queue) /\ node[m].by = ev.by =>
                       \E i \in 1..k : timer_queue[i] = m
      <3>1. bg[t].delay = 0 /\ Posted(x)
        BY <1>4, <2>1
      <3>2. n = x /\ m \in Pending /\ Untimed(m)
        BY <1>11, <2>1, <3>1 DEF Posted
      <3>3. ASSUME m \in Elems(timer_queue), node[m].by = ev.by
            PROVE  \E i \in 1..k : timer_queue[i] = m
        <4>1. PICK i \in 1..Len(timer_queue) : timer_queue[i] = m
          BY <3>3, ElemsMember
        <4>2. node[m].runtime <= bg[t].runtime
          BY <1>4, <1>7, <3>1, <3>2, <3>3 DEF OrderInv, Reads, Untimed
        <4>3. ASSUME i > k PROVE FALSE
          <5>1. k + 1 \in 1..Len(timer_queue) /\ k < Len(timer_queue)
            BY <4>3 DEF TypeOK
          <5>2. bg[t].runtime < node[timer_queue[k + 1]].runtime
            BY <1>3, <5>1 DEF InsertionPoint
          <5>3. node[timer_queue[k + 1]].runtime \in Nat /\ node[m].runtime \in Nat
            <6>1. timer_queue[k + 1] \in Pending
              BY <5>1, ElemsMember DEF Pending
            <6> QED BY <3>2, <6>1, PendingTyped
          <5>4. node[timer_queue[k + 1]].runtime <= node[m].runtime
            <6>1. CASE i = k + 1
              BY <4>1, <5>3, <6>1
            <6>2. CASE i # k + 1
              <7>1. k + 1 < i
                BY <4>3, <6>2 DEF TypeOK
              <7> QED BY <4>1, <5>1, <7>1 DEF TimersSorted
            <6> QED BY <6>1, <6>2
          <5> QED BY <1>5, <4>2, <5>2, <5>3, <5>4
        <4>4. i \in 1..k
          BY <4>3 DEF TypeOK
        <4> QED BY <4>1, <4>4
      <3> QED BY <1>7, <3>1, <3>2, <3>3 DEF Untimed
    <2>2. ev.by = Main => ev.delay # 0
      BY <1>7, ConstantsAssumption
    <2> QED BY <1>2, <1>3, <1>4, <1>6, <1>7, <1>11, <2>1, <2>2, OrderInsert, ZenonT(40)
  <1> QED BY <1>4, <1>9, <1>10, <1>11 DEF OrderInv

\* What is true of all the nodes of queues is true of those that are left.
LEMMA BatchesLeft ==
    ASSUME NEW e \in Seq(Nodes), NEW t \in Seq(Nodes), NEW nd, NEW nd2, NEW cnt,
           NEW e2 \in Seq(Nodes), NEW t2 \in Seq(Nodes), Batches(e, t, nd, cnt),
           \A i \in 1..Len(e2) : nd2[e2[i]] = nd[e2[i]],
           \A i \in 1..Len(t2) : nd2[t2[i]] = nd[t2[i]],
           Elems(t2) \subseteq Elems(t), Elems(e2) \subseteq Elems(e),
           \A i, j \in 1..Len(e2) : i < j =>
              \E a, b \in 1..Len(e) : a < b /\ e2[i] = e[a] /\ e2[j] = e[b]
    PROVE  Batches(e2, t2, nd2, cnt)
  <1>1. ASSUME NEW i \in 1..Len(e2), NEW j \in 1..Len(e2), i < j, nd2[e2[i]].runtime = 0
        PROVE  nd2[e2[j]].runtime = 0
    <2>1. PICK a \in 1..Len(e), b \in 1..Len(e) : a < b /\ e2[i] = e[a] /\ e2[j] = e[b]
      BY <1>1
    <2>2. nd[e[a]].runtime = 0
      BY <1>1, <2>1
    <2>3. nd[e[b]].runtime = 0
      BY <2>1, <2>2 DEF Batches
    <2> QED BY <2>1, <2>3
  <1>2. ASSUME cnt >= 1, NEW i \in 1..Len(e2) PROVE nd2[e2[i]].runtime = 0
    <2>0. e2[i] \in Elems(e)
      BY ElemsMember
    <2>1. PICK a \in 1..Len(e) : e2[i] = e[a]
      BY <2>0, ElemsMember
    <2> QED BY <1>2, <2>1 DEF Batches
  <1>3. ASSUME NEW i \in 1..Len(t2) PROVE nd2[t2[i]].runtime # 0
    <2>0. t2[i] \in Elems(t)
      BY ElemsMember
    <2>1. PICK a \in 1..Len(t) : t2[i] = t[a]
      BY <2>0, ElemsMember
    <2> QED BY <2>1 DEF Batches
  <1> QED BY <1>1, <1>2, <1>3 DEF Batches

\* cancel_event(): the order of the other events stays.
LEMMA OrderCancel ==
    ASSUME Owned, Owned', OrderInv, [Next]_vars, NEW x \in Pending,
           NEW q \in Seq(Nodes), NEW i \in 1..Len(q), q[i] = x,
           \/ q = event_queue /\ event_queue' = DropAt(q, i) /\ timer_queue' = timer_queue
           \/ q = timer_queue /\ timer_queue' = DropAt(q, i) /\ event_queue' = event_queue,
           Removed(x), UNCHANGED <<exit_event, pc, event_cnt, now, bg>>,
           pc \in {"ini", "handler"}
    PROVE  OrderInv'
  <1> USE DEF Owned
  <1>1. /\ DropAt(q, i) \in Seq(Nodes) /\ Len(DropAt(q, i)) = Len(q) - 1
        /\ \A j \in 1..(Len(q) - 1) : DropAt(q, i)[j] = IF j < i THEN q[j] ELSE q[j + 1]
    BY DropAtIsSeq
  <1>2. Injective(q) /\ Elems(DropAt(q, i)) = Elems(q) \ {x}
    BY DropAtElems DEF NodeOwnership
  <1>3. x \in Elems(q)
    BY ElemsMember
  <1>4. Pending' = Pending \ {x}
    BY <1>2, <1>3 DEF Pending, NodeOwnership
  <1>5. \A n \in Pending' : n \in Pending /\ node'[n] = node[n]
    BY <1>4, PendingKept
  <1>6. Clocked' /\ (pc' \in {"wait", "woken"} => event_queue' = <<>>)
    BY DEF OrderInv, Clocked
  <1>7. Reads(Pending', node', bg')
    BY <1>5 DEF OrderInv, Reads
  <1>8. ASSUME exit_event # NoNode
        PROVE  /\ Batches(event_queue', timer_queue', node', event_cnt')
               /\ Sources(Pending', node')
               /\ BeforeOK(event_queue', timer_queue', node', before')
    <2>0. /\ Batches(event_queue, timer_queue, node, event_cnt) /\ Sources(Pending, node)
          /\ BeforeOK(event_queue, timer_queue, node, before)
      BY <1>8 DEF OrderInv
    <2>1. Sources(Pending', node')
      BY <1>5, <2>0 DEF Sources
    <2>2. /\ \A j \in 1..Len(event_queue') : node'[event_queue'[j]] = node[event_queue'[j]]
          /\ \A j \in 1..Len(timer_queue') : node'[timer_queue'[j]] = node[timer_queue'[j]]
      BY <1>5, ElemsMember DEF Pending
    <2>3. Elems(timer_queue') \subseteq Elems(timer_queue) /\ Elems(event_queue') \subseteq Elems(event_queue)
      BY <1>2
    <2>4. ASSUME NEW a \in 1..Len(event_queue'), NEW b \in 1..Len(event_queue'), a < b
          PROVE  \E c, d \in 1..Len(event_queue) :
                    c < d /\ event_queue'[a] = event_queue[c] /\ event_queue'[b] = event_queue[d]
      <3>1. CASE event_queue' = event_queue
        BY <2>4, <3>1
      <3>2. CASE q = event_queue /\ event_queue' = DropAt(q, i)
        <4> DEFINE At(l) == IF l < i THEN l ELSE l + 1
        <4>1. /\ At(a) \in 1..Len(q) /\ At(b) \in 1..Len(q) /\ At(a) < At(b)
              /\ DropAt(q, i)[a] = q[At(a)] /\ DropAt(q, i)[b] = q[At(b)]
          BY <1>1, <2>4, <3>2
        <4> HIDE DEF At
        <4> QED BY <3>2, <4>1
      <3> QED BY <3>1, <3>2
    <2>5. Batches(event_queue', timer_queue', node', event_cnt)
      <3> PICK e2, t2, nd2 : e2 = event_queue' /\ t2 = timer_queue' /\ nd2 = node'
        OBVIOUS
      <3>1. e2 \in Seq(Nodes) /\ t2 \in Seq(Nodes)
        BY DEF TypeOK
      <3>2. Batches(e2, t2, nd2, event_cnt)
        BY <2>0, <2>2, <2>3, <2>4, <3>1, BatchesLeft, ZenonT(40) DEF TypeOK
      <3> QED BY <3>2
    <2>6. ASSUME NEW m \in Nodes, NEW n \in Nodes, <<m, n>> \in before'
          PROVE  /\ m \in Pending' /\ n \in Pending'
                 /\ node'[m].delay = 0 /\ node'[n].delay = 0
                 /\ node'[m].by = node'[n].by => Ordered(event_queue', timer_queue', m, n)
      <3>1. <<m, n>> \in before /\ m # x /\ n # x
        BY <2>6 DEF Removed
      <3>2. /\ m \in Pending /\ n \in Pending /\ node[m].delay = 0 /\ node[n].delay = 0
            /\ node[m].by = node[n].by => Ordered(event_queue, timer_queue, m, n)
        BY <2>0, <3>1 DEF BeforeOK, Pending
      <3>3. m \in Pending' /\ n \in Pending'
        BY <1>4, <3>1, <3>2
      <3>4. node'[m] = node[m] /\ node'[n] = node[n]
        BY <1>5, <3>3
      <3>5. ASSUME Ordered(event_queue, timer_queue, m, n)
            PROVE  Ordered(event_queue', timer_queue', m, n)
        <4>1. Precedes(q, m, n) => Precedes(DropAt(q, i), m, n)
          BY <3>1, PrecedesDrop
        <4>2. m \in Elems(q) => m \in Elems(DropAt(q, i))
          BY <1>2, <3>1
        <4>3. n \in Elems(q) => n \in Elems(DropAt(q, i))
          BY <1>2, <3>1
        <4> QED BY <3>5, <4>1, <4>2, <4>3 DEF Ordered
      <3> QED BY <3>2, <3>3, <3>4, <3>5
    <2>7. BeforeOK(event_queue', timer_queue', node', before')
      BY <2>6 DEF BeforeOK, Pending
    <2> QED BY <2>1, <2>5, <2>7
  <1> QED BY <1>6, <1>7, <1>8 DEF OrderInv

\* The loop takes the first event of all, where all is event_queue with the timers that are due
\* in front of it and rest is what is left of timer_queue.
LEMMA OrderDispatch ==
    ASSUME Owned, Owned', [Next]_vars, node' = node,
           NEW all \in Seq(Nodes), NEW rest \in Seq(Nodes), NEW last, NEW cnt \in Nat,
           all # <<>>, Injective(all), Elems(all) \cap Elems(rest) = {},
           Batches(all, rest, node, cnt), BeforeOK(all, rest, node, before),
           Dispatch(all, last, cnt), timer_queue' = rest
    PROVE  /\ Batches(event_queue', timer_queue', node', event_cnt')
           /\ BeforeOK(event_queue', timer_queue', node', before')
           /\ \A m \in Nodes : <<m, running'>> \in before => node[m].by # node[running'].by
  <1> DEFINE h == Head(all)
             r == Tail(all)
  <1>1. /\ h \in Nodes /\ h = all[1] /\ 1 \in 1..Len(all)
        /\ r \in Seq(Nodes) /\ Len(r) = Len(all) - 1
        /\ \A i \in 1..Len(r) : r[i] = all[i + 1]
        /\ Injective(r) /\ Elems(r) = Elems(all) \ {h}
    BY TailElems
  <1>2. /\ running' = h /\ event_queue' = r
        /\ event_cnt' = IF node[h].runtime = 0 THEN cnt + 1 ELSE cnt
        /\ Removed(h)
    BY DEF Dispatch
  <1> HIDE DEF h, r
  <1>3. Batches(r, rest, node, event_cnt')
    <2>1. ASSUME NEW i \in 1..Len(r), NEW j \in 1..Len(r), i < j, node[r[i]].runtime = 0
          PROVE  node[r[j]].runtime = 0
      <3>1. PICK a, b : a = i + 1 /\ b = j + 1
        OBVIOUS
      <3>2. a \in 1..Len(all) /\ b \in 1..Len(all) /\ a < b /\ r[i] = all[a] /\ r[j] = all[b]
        BY <1>1, <2>1, <3>1
      <3> QED BY <2>1, <3>2 DEF Batches
    <2>2. ASSUME event_cnt' >= 1, NEW i \in 1..Len(r) PROVE node[r[i]].runtime = 0
      <3>1. PICK a : a = i + 1
        OBVIOUS
      <3>2. a \in 1..Len(all) /\ 1 < a /\ r[i] = all[a]
        BY <1>1, <3>1
      <3>3. CASE node[h].runtime = 0
        BY <1>1, <3>2, <3>3 DEF Batches
      <3>4. CASE node[h].runtime # 0
        <4>1. cnt >= 1
          BY <1>2, <2>2, <3>4
        <4> QED BY <3>2, <4>1 DEF Batches
      <3> QED BY <3>3, <3>4
    <2>3. \A i \in 1..Len(rest) : node[rest[i]].runtime # 0
      BY DEF Batches
    <2> QED BY <2>1, <2>2, <2>3 DEF Batches
  <1>4. ASSUME NEW m \in Nodes, NEW n \in Nodes, <<m, n>> \in before'
        PROVE  /\ m \in Elems(r) \cup Elems(rest) /\ n \in Elems(r) \cup Elems(rest)
               /\ node[m].delay = 0 /\ node[n].delay = 0
               /\ node[m].by = node[n].by => Ordered(r, rest, m, n)
    <2>1. <<m, n>> \in before /\ m # h /\ n # h
      BY <1>2, <1>4 DEF Removed
    <2>2. /\ m \in Elems(all) \cup Elems(rest) /\ n \in Elems(all) \cup Elems(rest)
          /\ node[m].delay = 0 /\ node[n].delay = 0
          /\ node[m].by = node[n].by => Ordered(all, rest, m, n)
      BY <2>1 DEF BeforeOK
    <2>3. Precedes(all, m, n) => Precedes(r, m, n)
      BY <2>1, PrecedesTail DEF h, r
    <2>4. Ordered(all, rest, m, n) => Ordered(r, rest, m, n)
      BY <1>1, <2>1, <2>3 DEF Ordered
    <2> QED BY <1>1, <2>1, <2>2, <2>4
  <1>5. BeforeOK(r, rest, node, before')
    BY <1>4 DEF BeforeOK
  <1>6. ASSUME NEW m \in Nodes, <<m, h>> \in before, node[m].by = node[h].by
        PROVE  FALSE
    <2>1. Ordered(all, rest, m, h)
      BY <1>1, <1>6 DEF BeforeOK
    <2>2. h \in Elems(all) /\ h \notin Elems(rest)
      BY <1>1, ElemsMember
    <2>3. ~Precedes(rest, m, h)
      BY <2>2, ElemsMember DEF Precedes
    <2>4. ~Precedes(all, m, h)
      <3>1. ASSUME NEW i \in 1..Len(all), NEW j \in 1..Len(all), i < j, all[j] = h PROVE FALSE
        <4>1. j = 1
          BY <1>1, <3>1 DEF Injective
        <4> QED BY <3>1, <4>1
      <3> QED BY <3>1 DEF Precedes
    <2> QED BY <2>1, <2>2, <2>3, <2>4 DEF Ordered
  <1> QED BY <1>2, <1>3, <1>5, <1>6

\* Before the timers that are due are moved in front of event_queue, all that is left there has
\* runtime 0: no post of another thread is overtaken.
LEMMA OrderMove ==
    ASSUME Owned, OrderInv, exit_event # NoNode, NEW k \in 0..Len(timer_queue),
           event_queue = <<>> \/ event_cnt >= 1
    PROVE  LET all  == SubSeq(timer_queue, 1, k) \o event_queue
               rest == SubSeq(timer_queue, k + 1, Len(timer_queue))
           IN  Batches(all, rest, node, 0) /\ BeforeOK(all, rest, node, before)
  <1> USE DEF Owned
  <1> DEFINE all  == SubSeq(timer_queue, 1, k) \o event_queue
             rest == SubSeq(timer_queue, k + 1, Len(timer_queue))
  <1>0. /\ Batches(event_queue, timer_queue, node, event_cnt) /\ Sources(Pending, node)
        /\ BeforeOK(event_queue, timer_queue, node, before)
    BY DEF OrderInv
  <1>1. /\ rest \in Seq(Nodes) /\ all \in Seq(Nodes)
        /\ Len(rest) = Len(timer_queue) - k /\ Len(all) = k + Len(event_queue)
        /\ \A i \in 1..Len(rest) : rest[i] = timer_queue[k + i]
        /\ \A i \in 1..Len(all) : all[i] = IF i <= k THEN timer_queue[i] ELSE event_queue[i - k]
    BY MoveElems DEF TypeOK
  <1> HIDE DEF all, rest
  <1>2. Len(timer_queue) \in Nat /\ Len(event_queue) \in Nat /\ k \in Nat
    BY DEF TypeOK
  <1>3. \A i \in 1..Len(event_queue) : node[event_queue[i]].runtime = 0
    BY <1>0 DEF Batches
  <1>4. \A i \in 1..Len(all) : \/ i <= k /\ i \in 1..Len(timer_queue) /\ all[i] = timer_queue[i]
                               \/ i > k /\ node[all[i]].runtime = 0
    <2> TAKE i \in 1..Len(all)
    <2>1. CASE i <= k
      BY <1>1, <1>2, <2>1
    <2>2. CASE i > k
      <3>1. PICK j : j = i - k
        OBVIOUS
      <3>2. j \in 1..Len(event_queue) /\ all[i] = event_queue[j]
        BY <1>1, <1>2, <2>2, <3>1
      <3> QED BY <1>3, <2>2, <3>2
    <2> QED BY <1>2, <2>1, <2>2
  <1>5. Batches(all, rest, node, 0)
    <2>1. ASSUME NEW i \in 1..Len(all), NEW j \in 1..Len(all), i < j, node[all[i]].runtime = 0
          PROVE  node[all[j]].runtime = 0
      <3>1. ~(i <= k)
        BY <1>0, <1>4, <2>1 DEF Batches
      <3> QED BY <1>2, <1>4, <2>1, <3>1
    <2>2. ASSUME NEW i \in 1..Len(rest) PROVE node[rest[i]].runtime # 0
      <3>1. PICK j : j = k + i
        OBVIOUS
      <3>2. j \in 1..Len(timer_queue) /\ rest[i] = timer_queue[j]
        BY <1>1, <1>2, <3>1
      <3> QED BY <1>0, <3>2 DEF Batches
    <2> QED BY <2>1, <2>2 DEF Batches
  <1>6. ASSUME NEW i \in 1..Len(timer_queue)
        PROVE  \/ i <= k /\ i \in 1..Len(all) /\ all[i] = timer_queue[i]
               \/ i > k /\ i - k \in 1..Len(rest) /\ rest[i - k] = timer_queue[i]
    BY <1>1, <1>2, SMTT(20)
  <1>7. ASSUME NEW i \in 1..Len(event_queue)
        PROVE  i + k \in 1..Len(all) /\ all[i + k] = event_queue[i]
    BY <1>1, <1>2
  <1>8. ASSUME NEW m \in Nodes, NEW n \in Nodes, <<m, n>> \in before
        PROVE  /\ m \in Elems(all) \cup Elems(rest) /\ n \in Elems(all) \cup Elems(rest)
               /\ node[m].delay = 0 /\ node[n].delay = 0
               /\ node[m].by = node[n].by => Ordered(all, rest, m, n)
    <2>1. /\ m \in Pending /\ n \in Pending /\ node[m].delay = 0 /\ node[n].delay = 0
          /\ node[m].by = node[n].by => Ordered(event_queue, timer_queue, m, n)
      BY <1>0, <1>8 DEF BeforeOK, Pending
    <2>2. \A p \in Pending : p \in Elems(all) \cup Elems(rest)
      <3> TAKE p \in Pending
      <3>1. CASE p \in Elems(event_queue)
        <4>1. PICK i \in 1..Len(event_queue) : p = event_queue[i]
          BY <3>1, ElemsMember
        <4> QED BY <1>7, <4>1, ElemsMember
      <3>2. CASE p \in Elems(timer_queue)
        <4>1. PICK i \in 1..Len(timer_queue) : p = timer_queue[i]
          BY <3>2, ElemsMember
        <4> QED BY <1>6, <4>1, ElemsMember
      <3> QED BY <3>1, <3>2 DEF Pending
    <2>3. ASSUME node[m].by = node[n].by PROVE Ordered(all, rest, m, n)
      <3>1. CASE Precedes(event_queue, m, n)
        <4>1. PICK i \in 1..Len(event_queue), j \in 1..Len(event_queue) :
                 i < j /\ event_queue[i] = m /\ event_queue[j] = n
          BY <3>1 DEF Precedes
        <4>2. PICK a, b : a = i + k /\ b = j + k
          OBVIOUS
        <4>3. a \in 1..Len(all) /\ b \in 1..Len(all) /\ a < b /\ all[a] = m /\ all[b] = n
          BY <1>2, <1>7, <4>1, <4>2
        <4> QED BY <4>3 DEF Precedes, Ordered
      <3>2. CASE Precedes(timer_queue, m, n)
        <4>1. PICK i \in 1..Len(timer_queue), j \in 1..Len(timer_queue) :
                 i < j /\ timer_queue[i] = m /\ timer_queue[j] = n
          BY <3>2 DEF Precedes
        <4>2. CASE j <= k
          <5>1. i \in 1..Len(all) /\ j \in 1..Len(all) /\ all[i] = m /\ all[j] = n
            BY <1>2, <1>6, <4>1, <4>2
          <5> QED BY <4>1, <5>1 DEF Precedes, Ordered
        <4>3. CASE i <= k /\ j > k
          <5>1. PICK b : b = j - k
            OBVIOUS
          <5>2. i \in 1..Len(all) /\ all[i] = m
            BY <1>2, <1>6, <4>1, <4>3
          <5>3. b \in 1..Len(rest) /\ rest[b] = n
            BY <1>2, <1>6, <4>1, <4>3, <5>1
          <5>4. m \in Elems(all) /\ n \in Elems(rest)
            BY <5>2, <5>3, ElemsMember
          <5> QED BY <5>4 DEF Ordered
        <4>4. CASE i > k
          <5>1. PICK a, b : a = i - k /\ b = j - k
            OBVIOUS
          <5>2. a \in 1..Len(rest) /\ b \in 1..Len(rest) /\ a < b /\ rest[a] = m /\ rest[b] = n
            BY <1>2, <1>6, <4>1, <4>4, <5>1
          <5> QED BY <5>2 DEF Precedes, Ordered
        <4> QED BY <1>2, <4>1, <4>2, <4>3, <4>4
      <3>3. CASE m \in Elems(event_queue) /\ n \in Elems(timer_queue)
        <4>1. node[m].runtime = 0
          BY <1>3, <3>3, ElemsMember
        <4>2. node[n].runtime # 0
          BY <1>0, <3>3, ElemsMember DEF Batches
        <4>3. node[m].by \in Posters
          BY <2>1, PendingTyped DEF Event
        <4>4. node[m].by = Main
          BY <1>0, <2>1, <4>1, <4>3 DEF Sources, Posters
        <4>5. node[n].runtime = 0
          BY <1>0, <2>1, <2>3, <4>4 DEF Sources
        <4> QED BY <4>2, <4>5
      <3> QED BY <2>1, <2>3, <3>1, <3>2, <3>3 DEF Ordered
    <2> QED BY <2>1, <2>2, <2>3
  <1>9. BeforeOK(all, rest, node, before)
    BY <1>8 DEF BeforeOK
  <1> QED BY <1>5, <1>9 DEF all, rest

\* The loop keeps the order, and takes no event in front of an earlier post of its thread.
LEMMA OrderLoop ==
    ASSUME Owned, Owned', OrderInv, LoopScan \/ Rescan \/ LoopPop
    PROVE  /\ OrderInv'
           /\ exit_event # NoNode /\ running' # NoNode =>
                 \A m \in Nodes : <<m, running'>> \in before => node[m].by # node[running'].by
  <1> USE DEF Owned
  <1>0. [Next]_vars
    BY DEF Next, LoopStep
  <1>1. /\ node' = node /\ running = NoNode /\ InUse' \subseteq InUse
        /\ UNCHANGED <<exit_event, now, bg>>
    BY LoopInUse DEF LoopScan, Rescan, LoopPop, PcRunning
  <1>2. Pending' \subseteq Pending
    BY <1>1 DEF InUse
  <1>3. Clocked' /\ Reads(Pending', node', bg')
    BY <1>1, <1>2 DEF OrderInv, Clocked, Reads
  <1>4. exit_event # NoNode => Sources(Pending', node')
    BY <1>1, <1>2 DEF OrderInv, Sources
  <1>5. ASSUME NEW all \in Seq(Nodes), NEW rest \in Seq(Nodes), NEW last, NEW cnt \in Nat,
               all # <<>>, Injective(all), Elems(all) \cap Elems(rest) = {},
               exit_event # NoNode =>
                  Batches(all, rest, node, cnt) /\ BeforeOK(all, rest, node, before),
               Dispatch(all, last, cnt), timer_queue' = rest
        PROVE  /\ OrderInv'
               /\ exit_event # NoNode /\ running' # NoNode =>
                     \A m \in Nodes : <<m, running'>> \in before => node[m].by # node[running'].by
    <2>1. pc' = "handler"
      BY <1>5 DEF Dispatch
    <2>2. CASE exit_event = NoNode
      BY <1>1, <1>3, <2>1, <2>2 DEF OrderInv
    <2>3. CASE exit_event # NoNode
      <3>1. Batches(all, rest, node, cnt) /\ BeforeOK(all, rest, node, before)
        BY <1>5, <2>3
      <3>2. /\ Batches(event_queue', timer_queue', node', event_cnt')
            /\ BeforeOK(event_queue', timer_queue', node', before')
            /\ \A m \in Nodes : <<m, running'>> \in before => node[m].by # node[running'].by
        BY <1>0, <1>1, <1>5, <3>1, OrderDispatch
      <3> QED BY <1>3, <1>4, <2>1, <2>3, <3>2 DEF OrderInv
    <2> QED BY <2>2, <2>3
  <1>6. CASE LoopPop
    <2>1. /\ event_queue # <<>> /\ Dispatch(event_queue, event_last, event_cnt)
          /\ timer_queue' = timer_queue
      BY <1>6 DEF LoopPop
    <2>2. exit_event # NoNode => /\ Batches(event_queue, timer_queue, node, event_cnt)
                                 /\ BeforeOK(event_queue, timer_queue, node, before)
      BY DEF OrderInv
    <2> QED BY <1>5, <2>1, <2>2 DEF TypeOK, NodeOwnership
  <1>7. CASE LoopScan \/ Rescan
    <2>1. Scan /\ (event_queue = <<>> \/ event_cnt >= 1)
      BY <1>7 DEF LoopScan, Rescan, OrderInv
    <2>2. PICK k \in 0..Len(timer_queue) :
            \/ /\ k > 0 \/ event_queue # <<>>
               /\ timer_queue' = SubSeq(timer_queue, k + 1, Len(timer_queue))
               /\ Dispatch(SubSeq(timer_queue, 1, k) \o event_queue, MovedLast(k), 0)
            \/ /\ event_queue = <<>> /\ event_cnt' = 0
               /\ UNCHANGED <<event_queue, timer_queue, running, before>>
      BY <2>1 DEF Scan
    <2>3. CASE /\ event_queue = <<>> /\ event_cnt' = 0
               /\ UNCHANGED <<event_queue, timer_queue, running, before>>
      <3>1. ASSUME exit_event # NoNode
            PROVE  /\ Batches(event_queue', timer_queue', node', event_cnt')
                   /\ BeforeOK(event_queue', timer_queue', node', before')
        BY <1>1, <2>3, <3>1 DEF OrderInv, Batches, BeforeOK
      <3> QED BY <1>1, <1>3, <1>4, <2>3, <3>1 DEF OrderInv
    <2>4. CASE /\ k > 0 \/ event_queue # <<>>
               /\ timer_queue' = SubSeq(timer_queue, k + 1, Len(timer_queue))
               /\ Dispatch(SubSeq(timer_queue, 1, k) \o event_queue, MovedLast(k), 0)
      <3> DEFINE all  == SubSeq(timer_queue, 1, k) \o event_queue
                 rest == SubSeq(timer_queue, k + 1, Len(timer_queue))
      <3>1. all \in Seq(Nodes) /\ rest \in Seq(Nodes) /\ Len(all) = k + Len(event_queue)
        BY MoveElems DEF TypeOK
      <3>2. Injective(all) /\ Elems(all) \cap Elems(rest) = {}
        BY MoveOwned DEF TypeOK, NodeOwnership
      <3>3. exit_event # NoNode =>
               Batches(all, rest, node, 0) /\ BeforeOK(all, rest, node, before)
        BY <2>1, OrderMove
      <3>4. Dispatch(all, MovedLast(k), 0) /\ timer_queue' = rest
        BY <2>4
      <3> HIDE DEF all, rest
      <3>5. all # <<>>
        BY <2>4, <3>1 DEF TypeOK
      <3> QED BY <1>5, <3>1, <3>2, <3>3, <3>4, <3>5
    <2> QED BY <2>2, <2>3, <2>4
  <1> QED BY <1>6, <1>7

\* What leaves the queues alone keeps the order; a thread that reads the clock reads no less
\* than the time of any event without delay.
LEMMA OrderQuiet ==
    ASSUME Owned, UntimedDue, OrderInv, [Next]_vars,
           UNCHANGED <<event_queue, timer_queue, exit_event, before>>,
           event_cnt' \in {event_cnt, 0}, now' \in {now, now + 1},
           pc' \in {"wait", "woken"} => event_queue = <<>>,
           \A t \in Threads : \/ bg'[t] \in {bg[t], Idle}
                              \/ /\ bg'[t].runtime # 0
                                 /\ bg'[t].delay = 0 => bg'[t].runtime = now
    PROVE  OrderInv'
  <1> USE DEF Owned
  <1>1. Pending' = Pending
    BY DEF Pending
  <1>2. \A n \in Pending : node'[n] = node[n]
    BY <1>1, PendingKept
  <1>3. Clocked'
    BY DEF OrderInv, Clocked, TypeOK
  <1>4. ASSUME NEW t \in Threads, bg'[t] # Idle, bg'[t].delay = 0,
               NEW n \in Pending, node[n].by = t, node[n].delay = 0
        PROVE  node[n].runtime <= bg'[t].runtime
    BY <1>4 DEF OrderInv, Reads, UntimedDue
  <1>5. Reads(Pending', node', bg')
    BY <1>1, <1>2, <1>4 DEF Reads
  <1>6. ASSUME exit_event # NoNode
        PROVE  /\ Batches(event_queue', timer_queue', node', event_cnt')
               /\ Sources(Pending', node')
               /\ BeforeOK(event_queue', timer_queue', node', before')
    <2>0. /\ Batches(event_queue, timer_queue, node, event_cnt) /\ Sources(Pending, node)
          /\ BeforeOK(event_queue, timer_queue, node, before)
      BY <1>6 DEF OrderInv
    <2>1. /\ \A i \in 1..Len(event_queue) : node'[event_queue[i]] = node[event_queue[i]]
          /\ \A i \in 1..Len(timer_queue) : node'[timer_queue[i]] = node[timer_queue[i]]
      BY <1>2, ElemsMember DEF Pending
    <2>2. Batches(event_queue', timer_queue', node', event_cnt')
      BY <2>0, <2>1 DEF Batches
    <2>3. Sources(Pending', node')
      BY <1>1, <1>2, <2>0 DEF Sources
    <2>4. BeforeOK(event_queue', timer_queue', node', before')
      BY <1>2, <2>0 DEF BeforeOK, Pending
    <2> QED BY <2>2, <2>3, <2>4
  <1> QED BY <1>3, <1>5, <1>6 DEF OrderInv

\* The exit event: once exit_event_loop() has been called no order is promised.
LEMMA OrderExit ==
    ASSUME Owned, OrderInv, [Next]_vars, NEW x, Pending' \subseteq Pending \cup {x},
           node'[x].by = Main, UNCHANGED <<now, bg>>, exit_event' = NoNode,
           pc' \in {"wait", "woken"} => event_queue' = <<>>
    PROVE  OrderInv'
  <1>1. ASSUME NEW n \in Pending', n # x PROVE n \in Pending /\ node'[n] = node[n]
    BY <1>1, PendingKept
  <1>2. Main \notin Threads
    BY ConstantsAssumption
  <1>3. Reads(Pending', node', bg')
    BY <1>1, <1>2 DEF OrderInv, Reads
  <1> QED BY <1>3 DEF OrderInv, Clocked

\* A step of any action keeps the order of the posts of a thread.
LEMMA OrderStep ==
    ASSUME Owned, TimersSorted, ExitOnce, UntimedDue, OrderInv, [Next]_vars
    PROVE  OrderInv'
  <1> USE DEF Owned
  <1>1. Owned'
    BY OwnedStep
  <1>2. now \in Nat /\ now # 0 /\ (pc \in {"wait", "woken"} => event_queue = <<>>)
    BY DEF OrderInv, Clocked, TypeOK
  <1>3. NoNode \notin Nodes /\ ExitNode \in Nodes
    BY ConstantsAssumption DEF Nodes
  <1>4. CASE LoopScan \/ Rescan \/ LoopPop
    BY <1>1, <1>4, OrderLoop
  <1>5. ASSUME NEW cb \in Callbacks, PostEvent(cb) PROVE OrderInv'
    BY <1>1, <1>5, OrderPostEvent
  <1>6. ASSUME NEW cb \in Callbacks, NEW d \in Delays, PostEventWithDelay(cb, d) PROVE OrderInv'
    BY <1>1, <1>6, OrderPostDelay
  <1>7. ASSUME NEW t \in Threads, BgPost(t) PROVE OrderInv'
    BY <1>1, <1>7, OrderBgPost
  <1>8. ASSUME NEW cb \in Callbacks, CancelQueued(cb) PROVE OrderInv'
    <2>1. PICK i \in 1..Len(event_queue) :
            event_queue' = DropAt(event_queue, i) /\ ForgetNode(event_queue[i])
      BY <1>8 DEF CancelQueued
    <2>2. /\ UNCHANGED <<timer_queue, exit_event, pc, event_cnt, now, bg>>
          /\ pc \in {"ini", "handler"}
      BY <1>8 DEF CancelQueued, OnDispatchThread
    <2>3. PICK x : x = event_queue[i]
      OBVIOUS
    <2>4. x \in Pending /\ Removed(x)
      BY <2>1, <2>3, ElemsMember DEF Pending, ForgetNode
    <2> QED BY <1>1, <2>1, <2>2, <2>3, <2>4, OrderCancel DEF TypeOK
  <1>9. ASSUME NEW cb \in Callbacks, CancelTimed(cb) PROVE OrderInv'
    <2>1. PICK i \in 1..Len(timer_queue) :
            timer_queue' = DropAt(timer_queue, i) /\ ForgetNode(timer_queue[i])
      BY <1>9 DEF CancelTimed
    <2>2. /\ UNCHANGED <<event_queue, exit_event, pc, event_cnt, now, bg>>
          /\ pc \in {"ini", "handler"}
      BY <1>9 DEF CancelTimed, OnDispatchThread
    <2>3. PICK x : x = timer_queue[i]
      OBVIOUS
    <2>4. x \in Pending /\ Removed(x)
      BY <2>1, <2>3, ElemsMember DEF Pending, ForgetNode
    <2> QED BY <1>1, <2>1, <2>2, <2>3, <2>4, OrderCancel DEF TypeOK
  <1>10. CASE ExitEventLoop
    <2>1. /\ exit_event \in Nodes /\ exit_event' = NoNode
          /\ node' = [node EXCEPT ![exit_event] =
                         [cb |-> ExitCb, runtime |-> 0, delay |-> 0, by |-> Main]]
          /\ timer_queue' = <<exit_event>> \o timer_queue
          /\ UNCHANGED <<event_queue, now, bg>>
          /\ pc' \in {"wait", "woken"} => pc \in {"wait", "woken"}
      BY <1>3, <1>10 DEF ExitEventLoop, TypeOK, Signal
    <2>2. timer_queue' = InsertAfter(timer_queue, 0, exit_event) /\ 0 \in 0..Len(timer_queue)
      BY <2>1 DEF InsertAfter, TypeOK
    <2>3. Elems(InsertAfter(timer_queue, 0, exit_event)) = Elems(timer_queue) \cup {exit_event}
      BY <2>1, <2>2, InsertAfterElems DEF TypeOK
    <2>4. Pending' = Pending \cup {exit_event} /\ node'[exit_event].by = Main
      BY <2>1, <2>2, <2>3 DEF Pending, TypeOK
    <2> QED BY <1>2, <2>1, <2>4, OrderExit
  <1>11. CASE ExitHandlerRepost
    <2>1. PICK x : x = Alloc(free_queue)
      OBVIOUS
    <2>2. x \in Nodes \ InUse
      BY <1>11, <2>1, AllocUnused DEF ExitHandlerRepost
    <2>3. /\ node' = [node EXCEPT ![x] = [cb |-> ExitCb, runtime |-> 0, delay |-> 0, by |-> Main],
                                  ![running] = NoEvent]
          /\ event_queue' = Append(event_queue, x) /\ pc' = "loop"
          /\ UNCHANGED <<timer_queue, exit_event, now, bg>>
      BY <1>11, <2>1 DEF ExitHandlerRepost, ReleaseRunning
    <2>4. running \in InUse /\ node[running].cb = ExitCb
      BY <1>3, <1>11 DEF ExitHandlerRepost, InUse, PcRunning
    <2>5. exit_event = NoNode /\ x # running
      BY <2>2, <2>4 DEF ExitOnce
    <2>6. Elems(event_queue') = Elems(event_queue) \cup {x}
      BY <2>2, <2>3, AppendElems DEF TypeOK
    <2>7. Pending' \subseteq Pending \cup {x} /\ node'[x].by = Main
      BY <2>2, <2>3, <2>5, <2>6 DEF Pending, TypeOK
    <2> QED BY <2>3, <2>5, <2>7, OrderExit
  <1>12. ASSUME NEW t \in Threads, NEW cb \in Callbacks, NEW d \in Delays \cup {0},
                BgReadClock(t, cb, d)
         PROVE  OrderInv'
    <2>1. /\ bg' = [bg EXCEPT ![t] = [cb |-> cb, runtime |-> now + d, delay |-> d]]
          /\ UNCHANGED <<event_queue, timer_queue, exit_event, before, event_cnt, now, pc>>
      BY <1>12 DEF BgReadClock
    <2>2. now + d # 0 /\ (d = 0 => now + d = now)
      BY <1>2, ConstantsAssumption
    <2>3. ASSUME NEW u \in Threads
          PROVE  \/ bg'[u] = bg[u]
                 \/ bg'[u].runtime # 0 /\ (bg'[u].delay = 0 => bg'[u].runtime = now)
      BY <2>1, <2>2 DEF TypeOK
    <2> QED BY <1>2, <2>1, <2>3, OrderQuiet
  <1>13. ASSUME NEW t \in Threads, BgPostCancelled(t) PROVE OrderInv'
    <2>1. /\ bg' = [bg EXCEPT ![t] = Idle]
          /\ UNCHANGED <<event_queue, timer_queue, exit_event, before, event_cnt, now, pc>>
      BY <1>13 DEF BgPostCancelled
    <2>2. ASSUME NEW u \in Threads PROVE bg'[u] \in {bg[u], Idle}
      BY <2>1 DEF TypeOK
    <2> QED BY <1>2, <2>1, <2>2, OrderQuiet
  <1>14. ASSUME UNCHANGED <<event_queue, timer_queue, exit_event, before, bg>>,
                event_cnt' \in {event_cnt, 0}, now' \in {now, now + 1},
                pc' \in {"wait", "woken"} => pc \in {"wait", "woken"}
         PROVE  OrderInv'
    BY <1>2, <1>14, OrderQuiet
  <1>15. CASE \/ \E cb \in Callbacks : CancelWait(cb)
              \/ CancelReturn \/ CancelEventLoop \/ Tick \/ RunEventLoop \/ LoopExit
              \/ WaitTimeout \/ WaitSpurious \/ HandlerReturn \/ ExitHandlerStop
              \/ UNCHANGED vars
    <2>1. /\ UNCHANGED <<event_queue, timer_queue, exit_event, before, bg>>
          /\ event_cnt' \in {event_cnt, 0} /\ now' \in {now, now + 1}
          /\ pc' \in {"wait", "woken"} => pc \in {"wait", "woken"}
      BY <1>15 DEF vars, CancelWait, CancelReturn, CancelEventLoop, Tick, RunEventLoop, LoopExit,
                   WaitTimeout, WaitSpurious, HandlerReturn, ExitHandlerStop, ReleaseRunning
    <2> QED BY <1>14, <2>1
  <1> QED BY <1>4, <1>5, <1>6, <1>7, <1>8, <1>9, <1>10, <1>11, <1>12, <1>13, <1>15
          DEF Next, UserCode, LoopStep, BgInsert

\* Only the loop dispatches, and it takes the events of a thread in the order of the posts.
LEMMA DispatchOrder ==
    ASSUME Owned, OrderInv, [Next]_vars, NEW n \in Nodes, Dispatched(n), exit_event # NoNode,
           NEW m \in Nodes, <<m, n>> \in before
    PROVE  node[m].by # node[n].by
  <1>1. n # NoNode
    BY ConstantsAssumption DEF Nodes
  <1>2. LoopScan \/ Rescan \/ LoopPop
    BY <1>1 DEF Dispatched, Next, UserCode, LoopStep, BgInsert, vars, PostEvent, PostEventWithDelay,
        CancelQueued, CancelTimed, CancelWait, CancelReturn, CancelEventLoop, ExitEventLoop,
        BgReadClock, BgPost, BgPostCancelled, Tick, RunEventLoop, LoopExit, WaitTimeout,
        WaitSpurious, HandlerReturn, ExitHandlerStop, ExitHandlerRepost, ReleaseRunning
  <1>3. Owned'
    BY OwnedStep
  <1> QED BY <1>1, <1>2, <1>3, OrderLoop DEF Dispatched

LEMMA InitOrder == Init => OrderInv
  <1> SUFFICES ASSUME Init PROVE OrderInv
    OBVIOUS
  <1>1. event_queue = <<>> /\ timer_queue = <<>> /\ Len(event_queue) = 0 /\ Len(timer_queue) = 0
    BY DEF Init
  <1>2. Pending = {}
    BY <1>1 DEF Elems, Pending
  <1>3. Clocked
    BY DEF Init, Clocked
  <1>4. Reads(Pending, node, bg) /\ Sources(Pending, node)
    BY <1>2 DEF Reads, Sources
  <1>5. Batches(event_queue, timer_queue, node, event_cnt)
    BY <1>1 DEF Batches
  <1>6. BeforeOK(event_queue, timer_queue, node, before)
    BY DEF Init, BeforeOK
  <1> QED BY <1>1, <1>3, <1>4, <1>5, <1>6 DEF OrderInv

-----------------------------------------------------------------------------
(***************************************************************************)
(* The theorems                                                            *)
(***************************************************************************)

\* What holds in every state, and is preserved by every step.
QueueInv ==
    /\ Owned
    /\ TimersSorted
    /\ CancelHandshake
    /\ TailPointer
    /\ QueueDue
    /\ ExitOnce
    /\ UntimedDue
    /\ DrainInv
    /\ OrderInv

\* The invariant holds throughout.
LEMMA QueueInvariant == Spec => []QueueInv
  <1>1. Init => QueueInv
    <2> SUFFICES ASSUME Init PROVE QueueInv
      OBVIOUS
    <2>1. Elems(event_queue) = {} /\ Elems(timer_queue) = {} /\ Pending = {} /\ InUse = {}
      BY DEF Init, Elems, Pending, InUse
    <2>2. TimersSorted /\ CancelHandshake /\ TailPointer /\ QueueDue
      BY <2>1 DEF Init, TimersSorted, CancelHandshake, TailPointer, QueueDue
    <2>3. ExitOnce /\ UntimedDue /\ DrainInv
      BY <2>1 DEF Init, ExitOnce, UntimedDue, DrainInv, Idle
    <2> QED BY <2>2, <2>3, InitOwned, InitOrder DEF QueueInv
  <1>2. QueueInv /\ [Next]_vars => QueueInv'
    BY OwnedStep, SortedStep, HandshakeStep, TailStep, QueueDueStep, ExitOnceStep, UntimedDueStep,
       DrainStep, OrderStep
       DEF QueueInv
  <1> QED BY <1>1, <1>2, PTL DEF Spec

\* timer_queue stays sorted by runtime, whichever threads insert into it and however
\* the clock reads and the critical sections of post_from_bg_thread() interleave.
THEOREM TimersSortedCorrect == Spec => []TimersSorted
  <1>1. QueueInv => TimersSorted
    BY DEF QueueInv
  <1> QED BY <1>1, QueueInvariant, PTL

\* While cancel_event() waits, nothing it would cancel is pending.
THEOREM CancelHandshakeCorrect == Spec => []CancelHandshake
  <1>1. QueueInv => CancelHandshake
    BY DEF QueueInv
  <1> QED BY <1>1, QueueInvariant, PTL

\* event_last is the tail of event_queue: the assertions of post_event(), cancel_event()
\* and run_event_loop() hold.
THEOREM TailPointerCorrect == Spec => []TailPointer
  <1>1. QueueInv => TailPointer
    BY DEF QueueInv
  <1> QED BY <1>1, QueueInvariant, PTL

\* The lists of nodes hold together for any number of threads, nodes and callbacks:
\* one owner per node, the right tail, timers in order.
THEOREM QueuesIntactCorrect == Spec => []QueuesIntact
  <1>1. TypeOK /\ NodeOwnership /\ TailPointer /\ TimersSorted => QueuesIntact
    BY DEF QueuesIntact
  <1> QED BY <1>1, TypeCorrect, OwnershipCorrect, TailPointerCorrect, TimersSortedCorrect, PTL

\* No handler is entered before the runtime of its event.
THEOREM NeverEarlyCorrect == Spec => NeverEarly
  <1>1. QueueInv /\ [Next]_vars => [\A n \in Nodes : Dispatched(n) => node[n].runtime <= now]_vars
    BY DispatchDue DEF QueueInv
  <1> QED BY <1>1, QueueInvariant, PTL DEF Spec, NeverEarly

\* When exit_event_handler() stops the loop, every event that was pending without delay
\* at the call of exit_event_loop() has been dispatched or cancelled.
THEOREM ExitDrainsCorrect == Spec => ExitDrains
  <1>1. QueueInv /\ [Next]_vars =>
          [pc = "handler" /\ node[running].cb = ExitCb /\ ~process_events' => drain = {}]_vars
    BY ExitStep DEF QueueInv
  <1> QED BY <1>1, QueueInvariant, PTL DEF Spec, ExitDrains

\* Until exit_event_loop() is called, the events that one thread posts with post_event() are
\* dispatched in the order of the posts: the dispatch thread's through event_queue, another
\* thread's through timer_queue, also when a batch of timers is moved between two of them.
THEOREM PerThreadOrderCorrect == Spec => PerThreadOrder
  <1>1. QueueInv /\ [Next]_vars =>
          [\A n \in Nodes : Dispatched(n) /\ exit_event # NoNode =>
             \A m \in Nodes : <<m, n>> \in before => node[m].by # node[n].by]_vars
    BY DispatchOrder DEF QueueInv
  <1> QED BY <1>1, QueueInvariant, PTL DEF Spec, PerThreadOrder

=============================================================================

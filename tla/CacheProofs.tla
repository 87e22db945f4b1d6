----------------------------- MODULE CacheProofs -----------------------------
(***************************************************************************)
(* Proofs about Cache, for any number of caches, clients and channels, as  *)
(* long as no client calls cache_notify() itself (Nests = {}): a nested    *)
(* call overwrites the static buffer of the loop it is made from, and the  *)
(* bookkeeping below is lost.                                              *)
(***************************************************************************)
EXTENDS Cache, SequenceTheorems, FiniteSetTheorems, TLAPS

-----------------------------------------------------------------------------
(***************************************************************************)
(* The invariant                                                           *)
(***************************************************************************)

\* The buffer of the loop that frame f stands for, when the static buffer is b.
LoopBuf(f, b) == IF f.kind = "later" THEN f.buf ELSE b

\* At most one call of run_cache_client() is active, for the client the frame names; a
\* loop is inside its buffer; and the client waits somewhere exactly when it has missed.
OneFrame ==
    /\ Len(stack) <= 1
    /\ stack = <<>> => current_client = NoEntry
    /\ stack # <<>> =>
        /\ current_client \in Entry /\ current_client.client = stack[1].client
        /\ stack[1].kind = "enter" => stack[1].i = 1 /\ stack[1].cnt = 0
        /\ stack[1].kind # "enter" => /\ stack[1].i \in 1..stack[1].cnt
                                      /\ stack[1].cnt <= Len(LoopBuf(stack[1], wait_list_buf))
        /\ current_client.copy => stack[1].client \in HasArgs
        /\ stack[1].kind # "enter" \/ cache_miss_cnt > 0 =>
              (current_client.copy <=> stack[1].client \in HasArgs)
        /\ cache_miss_cnt = 0 <=> Waiting(stack[1].client) = {}

\* An entry that was queued holds a copy of its arguments, if it has any.
Copied == \A p \in Places : At(p).copy <=> At(p).client \in HasArgs

\* No event of cache_notify_later() has an empty buffer.
LaterFull == \A j \in 1..Len(later) : later[j] # <<>>

\* A client waits in one place at most.
Once == \A cl \in Clients : \A p, q \in Waiting(cl) : p = q

\* The clients with arguments that wait, or run after they have waited, own the copies.
HeapExact ==
    heap = {cl \in HasArgs : Waiting(cl) # {} \/ (current_client.client = cl /\ current_client.copy)}

CaInv ==
    /\ CaTypeOK /\ OneFrame /\ Copied /\ LaterFull /\ IsFiniteSet(Places)
    /\ Once /\ HeapExact /\ LocksHeld

-----------------------------------------------------------------------------
(***************************************************************************)
(* Places, as operators of the lists                                       *)
(***************************************************************************)

ListsOf(wl) == UNION {{<<"wait", c, i>> : i \in 1..Len(wl[c])} : c \in Caches}
LatersOf(lt) == UNION {{<<"later", j, i>> : i \in 1..Len(lt[j])} : j \in 1..Len(lt)}
LoopsOf(st) == UNION {{<<"loop", k, i>> : i \in st[k].i..st[k].cnt} : k \in 1..Len(st)}
PlacesOf(wl, lt, st) == ListsOf(wl) \cup LatersOf(lt) \cup LoopsOf(st)

LEMMA PlaceForms ==
    ASSUME NEW wl, NEW lt, NEW st, NEW p
    PROVE  p \in PlacesOf(wl, lt, st) <=>
              \/ \E c \in Caches : \E i \in 1..Len(wl[c]) : p = <<"wait", c, i>>
              \/ \E j \in 1..Len(lt) : \E i \in 1..Len(lt[j]) : p = <<"later", j, i>>
              \/ \E k \in 1..Len(st) : \E i \in st[k].i..st[k].cnt : p = <<"loop", k, i>>
  <1>1. p \in ListsOf(wl) <=> \E c \in Caches : \E i \in 1..Len(wl[c]) : p = <<"wait", c, i>>
    BY DEF ListsOf
  <1>2. p \in LatersOf(lt) <=> \E j \in 1..Len(lt) : \E i \in 1..Len(lt[j]) : p = <<"later", j, i>>
    BY DEF LatersOf
  <1>3. p \in LoopsOf(st) <=> \E k \in 1..Len(st) : \E i \in st[k].i..st[k].cnt : p = <<"loop", k, i>>
    BY DEF LoopsOf
  <1> QED BY <1>1, <1>2, <1>3, Zenon DEF PlacesOf

\* The places and what they hold, before a step and after it.
LEMMA PlacesNow == Places = PlacesOf(wait_list, later, stack)
  BY DEF Places, PlacesOf, ListsOf, LatersOf, LoopsOf, InLists, InLater, InLoops

\* A place that a loop has reached; the others are waiting.
Reached(st, p) == p[1] = "loop" /\ p[3] <= st[p[2]].i

LEMMA ReachedForm ==
    ASSUME NEW wl, NEW lt, NEW st \in Seq(Frame), NEW p \in PlacesOf(wl, lt, st)
    PROVE  (p \in LoopsOf(st) => p[3] > st[p[2]].i) <=> ~Reached(st, p)
  <1>1. CASE p \in LoopsOf(st)
    <2>1. PICK k \in 1..Len(st) : \E i \in st[k].i..st[k].cnt : p = <<"loop", k, i>>
      BY <1>1 DEF LoopsOf
    <2>2. PICK i \in st[k].i..st[k].cnt : p = <<"loop", k, i>>
      BY <2>1
    <2>3. p[1] = "loop" /\ p[2] = k /\ p[3] = i
      BY <2>2
    <2>4. st[k].i \in Nat /\ st[k].cnt \in Nat
      <3>1. st[k] \in Frame
        OBVIOUS
      <3> QED BY <3>1 DEF Frame
    <2>5. i \in Int
      BY <2>4
    <2> QED BY <1>1, <2>3, <2>4, <2>5 DEF Reached
  <1>2. CASE p \notin LoopsOf(st)
    <2>1. p[1] # "loop"
      BY <1>2, PlaceForms DEF LoopsOf
    <2> QED BY <1>2, <2>1 DEF Reached
  <1> QED BY <1>1, <1>2

LEMMA WaitingForm ==
    ASSUME CaTypeOK, NEW cl
    PROVE  Waiting(cl) = {p \in Places : At(p).client = cl /\ ~Reached(stack, p)}
  <1>1. \A p \in Places : (p \in LoopsOf(stack) => p[3] > stack[p[2]].i) <=> ~Reached(stack, p)
    BY ReachedForm, PlacesNow DEF CaTypeOK
  <1> QED BY <1>1 DEF Waiting, InLoops, LoopsOf

LEMMA WaitingFormNext ==
    ASSUME CaTypeOK', NEW cl
    PROVE  Waiting(cl)' = {p \in Places' : At(p)'.client = cl /\ ~Reached(stack', p)}
  <1>1. Places' = PlacesOf(wait_list', later', stack')
    BY DEF Places, PlacesOf, ListsOf, LatersOf, LoopsOf, InLists, InLater, InLoops
  <1>2. \A p \in Places' : (p \in LoopsOf(stack') => p[3] > stack'[p[2]].i) <=> ~Reached(stack', p)
    BY <1>1, ReachedForm DEF CaTypeOK
  <1> QED BY <1>2 DEF Waiting, InLoops, LoopsOf

\* Counting is not disturbed when places are renamed.
LEMMA RenamedCount ==
    ASSUME NEW A, NEW B, NEW h, IsFiniteSet(A), B = {h[p] : p \in A},
           \A p, q \in A : h[p] = h[q] => p = q
    PROVE  IsFiniteSet(B) /\ Cardinality(B) = Cardinality(A)
  <1> DEFINE g == [p \in A |-> h[p]]
  <1>1. g \in [A -> B]
    OBVIOUS
  <1>2. g \in Injection(A, B)
    BY <1>1 DEF Injection, IsInjective
  <1>3. g \in Surjection(A, B)
    BY <1>1 DEF Surjection
  <1>4. ExistsBijection(A, B)
    BY <1>2, <1>3 DEF ExistsBijection, Bijection
  <1> QED BY <1>4, FS_Bijection

LEMMA PlacesNext == Places' = PlacesOf(wait_list', later', stack')
  BY DEF Places, PlacesOf, ListsOf, LatersOf, LoopsOf, InLists, InLater, InLoops

\* What each kind of place holds.
LEMMA AtForms ==
    /\ \A c, i : At(<<"wait", c, i>>) = wait_list[c][i]
    /\ \A j, i : At(<<"later", j, i>>) = later[j][i]
    /\ \A k, i : At(<<"loop", k, i>>) = LoopEntry(stack[k], i)
    /\ \A c, i : At(<<"wait", c, i>>)' = wait_list'[c][i]
    /\ \A j, i : At(<<"later", j, i>>)' = later'[j][i]
    /\ \A k, i : At(<<"loop", k, i>>)' = LoopEntry(stack[k], i)'
  BY DEF At

\* With at most one frame, the places of its loop.
LEMMA PlacesOne ==
    ASSUME NEW wl, NEW lt, NEW st \in Seq(Frame), NEW p
    PROVE  /\ st = <<>> => ~Reached(st, p) \/ p \notin PlacesOf(wl, lt, st)
           /\ Len(st) = 1 =>
                /\ p \in LoopsOf(st) <=> \E i \in st[1].i..st[1].cnt : p = <<"loop", 1, i>>
                /\ p \in PlacesOf(wl, lt, st) => (Reached(st, p) <=> p = <<"loop", 1, st[1].i>>)
  <1>1. ASSUME st = <<>> PROVE ~Reached(st, p) \/ p \notin PlacesOf(wl, lt, st)
    BY <1>1, PlaceForms DEF Reached
  <1>2. ASSUME Len(st) = 1
        PROVE  p \in LoopsOf(st) <=> \E i \in st[1].i..st[1].cnt : p = <<"loop", 1, i>>
    BY <1>2 DEF LoopsOf
  <1>3. ASSUME Len(st) = 1, p \in PlacesOf(wl, lt, st)
        PROVE  Reached(st, p) <=> p = <<"loop", 1, st[1].i>>
    <2>1. st[1] \in Frame
      BY <1>3
    <2>2. st[1].i \in Nat /\ st[1].cnt \in Nat
      BY <2>1 DEF Frame
    <2>3. CASE p \in LoopsOf(st)
      <3>1. PICK i \in st[1].i..st[1].cnt : p = <<"loop", 1, i>>
        BY <1>2, <1>3, <2>3
      <3>2. i \in Int /\ i >= st[1].i
        BY <2>2
      <3> QED BY <2>2, <3>1, <3>2 DEF Reached
    <2>4. CASE p \notin LoopsOf(st)
      <3>1. p[1] # "loop"
        BY <1>3, <2>4, PlaceForms DEF LoopsOf
      <3> QED BY <3>1 DEF Reached
    <2> QED BY <2>3, <2>4
  <1> QED BY <1>1, <1>2, <1>3

\* At most one frame: none, or the one on top.
LEMMA TopFrame ==
    ASSUME CaTypeOK, OneFrame
    PROVE  \/ stack = <<>>
           \/ /\ Len(stack) = 1 /\ stack # <<>> /\ stack[1] \in Frame
              /\ Top = stack[1] /\ Popped = <<>>
  <1>1. stack \in Seq(Frame) /\ Len(stack) <= 1
    BY DEF CaTypeOK, OneFrame
  <1> DEFINE n == Len(stack)
  <1>2. n \in Nat /\ n <= 1
    BY <1>1
  <1>3. n = 0 \/ n = 1
    <2> HIDE DEF n
    <2> QED BY <1>2
  <1>4. CASE n = 0
    BY <1>1, <1>4
  <1>5. CASE n = 1
    <2>1. Len(stack) = 1 /\ stack # <<>>
      BY <1>1, <1>5
    <2>2. stack[1] \in Frame /\ Top = stack[1]
      BY <1>1, <2>1, ElementOfSeq DEF Top
    <2>3. Popped = <<>>
      BY <1>1, <2>1 DEF Popped
    <2> QED BY <2>1, <2>2, <2>3
  <1> QED BY <1>3, <1>4, <1>5

\* The entry of every place is an entry.
LEMMA AtType == ASSUME CaTypeOK, OneFrame, NEW p \in Places PROVE At(p) \in Entry
  <1>1. CASE \E c \in Caches : \E i \in 1..Len(wait_list[c]) : p = <<"wait", c, i>>
    BY <1>1, AtForms DEF CaTypeOK
  <1>2. CASE \E j \in 1..Len(later) : \E i \in 1..Len(later[j]) : p = <<"later", j, i>>
    <2>1. PICK j \in 1..Len(later) : \E i \in 1..Len(later[j]) : p = <<"later", j, i>>
      BY <1>2
    <2>2. later[j] \in Seq(Entry)
      BY DEF CaTypeOK
    <2> QED BY <2>1, <2>2, AtForms
  <1>3. CASE \E k \in 1..Len(stack) : \E i \in stack[k].i..stack[k].cnt : p = <<"loop", k, i>>
    <2>1. Len(stack) = 1 /\ stack # <<>> /\ stack[1] \in Frame /\ wait_list_buf \in Seq(Entry)
      <3>1. wait_list_buf \in Seq(Entry)
        BY DEF CaTypeOK
      <3> QED BY <1>3, <3>1, TopFrame
    <2>2. PICK i \in stack[1].i..stack[1].cnt : p = <<"loop", 1, i>>
      BY <1>3, <2>1
    <2>3. stack[1].i \in Nat /\ stack[1].cnt \in Nat /\ stack[1].buf \in Seq(Entry)
      BY <2>1 DEF Frame
    <2>4. stack[1].kind # "enter" /\ i \in 1..Len(LoopBuf(stack[1], wait_list_buf))
      BY <2>1, <2>3 DEF OneFrame, LoopBuf
    <2>5. At(p) = LoopBuf(stack[1], wait_list_buf)[i]
      BY <2>2, AtForms DEF LoopEntry, LoopBuf
    <2> QED BY <2>1, <2>3, <2>4, <2>5 DEF LoopBuf
  <1> QED BY <1>1, <1>2, <1>3, PlacesNow, PlaceForms

\* A client waits or runs: Outstanding, with at most one frame.
Live(cl) == Waiting(cl) # {} \/ (stack # <<>> /\ stack[1].client = cl)

\* A step that ends no transaction.
NoneEnds == \A x : Live(x) => Live(x)'

LEMMA LiveForm ==
    ASSUME CaInv, NEW cl
    PROVE  Outstanding(cl) <=> Live(cl)
  BY TopFrame DEF CaInv, Outstanding, Live

LEMMA LiveFormNext ==
    ASSUME CaInv', NEW cl
    PROVE  Outstanding(cl)' <=> Live(cl)'
  <1>1. stack' \in Seq(Frame) /\ Len(stack') <= 1
    BY DEF CaInv, CaTypeOK, OneFrame
  <1>n. PICK n : n = Len(stack')
    OBVIOUS
  <1>2. n \in Nat /\ n <= 1 /\ (n = 0 <=> stack' = <<>>)
    BY <1>1, <1>n
  <1>3. (\E k \in 1..n : stack'[k].client = cl) <=> (n # 0 /\ stack'[1].client = cl)
    BY <1>2
  <1> QED BY <1>2, <1>3, <1>n DEF Outstanding, Live

-----------------------------------------------------------------------------
(***************************************************************************)
(* Entries that move together, from a wait list to a posted buffer or to a *)
(* loop: h gives the new place of every entry.                             *)
(***************************************************************************)

\* h renames the places and takes their contents along.
Renames(h) ==
    /\ Places' = {h[p] : p \in Places}
    /\ \A p, q \in Places : h[p] = h[q] => p = q
    /\ \A p \in Places : At(h[p])' = At(p)

LEMMA MovedInv ==
    ASSUME CaInv, stack = <<>>, NEW h, Renames(h), UNCHANGED locks
    PROVE  /\ IsFiniteSet(Places') /\ Copied' /\ LocksHeld'
           /\ \A cl : Waiting(cl) = {p \in Places : At(p).client = cl}
           /\ \A p, q \in Places' : At(p)'.client = At(q)'.client => p = q
           /\ \A p \in Places' : At(p)'.client \in Clients /\ Waiting(At(p)'.client) # {}
  <1> USE DEF CaInv
  <1>1. \A cl : Waiting(cl) = {p \in Places : At(p).client = cl}
    <2>1. \A p \in Places : ~Reached(stack, p)
      BY PlacesOne, PlacesNow DEF CaTypeOK
    <2> QED BY <2>1, WaitingForm
  <1>2. IsFiniteSet(Places')
    BY RenamedCount DEF Renames
  <1>3. Copied'
    BY DEF Copied, Renames
  <1>4. LocksHeld'
    <2>1. ASSUME NEW ch \in Channels
          PROVE  Cardinality({p \in Places' : At(p)'.channel = ch}) =
                 Cardinality({p \in Places : At(p).channel = ch})
      <3> DEFINE A == {p \in Places : At(p).channel = ch}
                 B == {p \in Places' : At(p)'.channel = ch}
      <3>1. IsFiniteSet(A)
        BY FS_Subset
      <3>2. B = {h[p] : p \in A}
        BY DEF Renames
      <3>3. \A p, q \in A : h[p] = h[q] => p = q
        BY DEF Renames
      <3> HIDE DEF A, B
      <3>4. Cardinality(B) = Cardinality(A)
        BY <3>1, <3>2, <3>3, RenamedCount
      <3> QED BY <3>4 DEF A, B
    <2> QED BY <2>1 DEF LocksHeld
  <1>5. \A p \in Places : At(p).client \in Clients
    BY AtType DEF Entry
  <1>6. \A p, q \in Places : At(p).client = At(q).client => p = q
    BY <1>1, <1>5 DEF Once
  <1> QED BY <1>1, <1>2, <1>3, <1>4, <1>5, <1>6 DEF Renames

\* A loop over one or more entries starts with the first of them.
LEMMA LoopStartInv ==
    ASSUME CaInv, stack = <<>>, NEW h, Renames(h), CaTypeOK', LaterFull',
           NEW f \in Frame, stack' = <<f>>, f.kind # "enter", f.i = 1, f.cnt > 0,
           f.cnt <= Len(LoopBuf(f, wait_list_buf')),
           NEW e, e = LoopBuf(f, wait_list_buf')[1], f.client = e.client, StartRun(e),
           UNCHANGED <<locks, heap>>
    PROVE  CaInv' /\ NoneEnds
  <1> USE DEF CaInv
  <1>1. /\ IsFiniteSet(Places') /\ Copied' /\ LocksHeld'
        /\ \A cl : Waiting(cl) = {p \in Places : At(p).client = cl}
        /\ \A p, q \in Places' : At(p)'.client = At(q)'.client => p = q
        /\ \A p \in Places' : At(p)'.client \in Clients /\ Waiting(At(p)'.client) # {}
    BY MovedInv
  <1> DEFINE r == <<"loop", 1, 1>>
  <1>2. f.cnt \in Nat /\ stack' \in Seq(Frame) /\ Len(stack') = 1 /\ stack'[1] = f
    BY DEF Frame
  <1>3. r \in Places' /\ At(r)' = e
    <2>1. r \in LoopsOf(stack')
      <3>1. 1 \in stack'[1].i..stack'[1].cnt
        BY <1>2
      <3> QED BY <1>2, <3>1, PlacesOne
    <2>2. At(r)' = LoopBuf(stack'[1], wait_list_buf')[1]
      BY DEF At, LoopEntry, LoopBuf
    <2> QED BY <1>2, <2>1, <2>2, PlacesNext DEF PlacesOf
  <1>4. \A p \in Places' : Reached(stack', p) <=> p = r
    BY <1>2, PlacesOne, PlacesNext
  <1>5. e = current_client' /\ e.client = f.client /\ e.client \in Clients
        /\ (e.copy <=> e.client \in HasArgs) /\ cache_miss_cnt' = 0
    BY <1>1, <1>3 DEF StartRun, Copied
  <1>6. current_client' \in Entry
    <2>1. NoEntry.client = NoClient
      BY DEF NoEntry
    <2>2. current_client' # NoEntry
      BY <1>5, <2>1, CacheAssumption
    <2> QED BY <2>2 DEF CaTypeOK
  <1>7. \A cl : Waiting(cl)' = {p \in Places' : At(p)'.client = cl /\ p # r}
    BY <1>4, WaitingFormNext
  <1>8. Waiting(e.client)' = {}
    BY <1>1, <1>3, <1>5, <1>7
  <1>9. Once'
    BY <1>1, <1>7 DEF Once
  <1>10. HeapExact'
    <2>1. ASSUME NEW cl \in HasArgs
          PROVE  (Waiting(cl) # {}) <=> (Waiting(cl)' # {} \/ (current_client'.client = cl /\ current_client'.copy))
      <3>1. cl \in Clients
        BY CacheAssumption
      <3>2. CASE cl = e.client
        <4>1. Waiting(cl) # {} /\ e.copy
          BY <1>1, <1>3, <1>5, <3>2
        <4> QED BY <1>5, <3>2, <4>1
      <3>3. CASE cl # e.client
        <4>1. ASSUME Waiting(cl) # {} PROVE Waiting(cl)' # {}
          <5>1. PICK p \in Places : At(p).client = cl
            BY <1>1, <4>1
          <5>2. h[p] \in Places' /\ At(h[p])'.client = cl
            BY <5>1 DEF Renames
          <5> QED BY <1>3, <1>7, <3>3, <5>2
        <4>2. ASSUME Waiting(cl)' # {} PROVE Waiting(cl) # {}
          BY <1>1, <1>7, <4>2
        <4> QED BY <1>5, <3>3, <4>1, <4>2
      <3> QED BY <3>2, <3>3
    <2>2. current_client = NoEntry /\ NoClient \notin HasArgs
      BY CacheAssumption DEF OneFrame
    <2>3. heap = {cl \in HasArgs : Waiting(cl) # {}}
      BY <2>2 DEF HeapExact, NoEntry
    <2> QED BY <2>1, <2>3 DEF HeapExact
  <1>11. OneFrame'
    <2>1. stack' # <<>> /\ Len(stack') <= 1
      BY <1>2
    <2>3. f.i \in 1..f.cnt
      BY <1>2
    <2> QED BY <1>2, <1>5, <1>6, <1>8, <2>1, <2>3 DEF OneFrame
  <1>12. ASSUME NEW x, Live(x) PROVE Live(x)'
    <2>1. PICK p \in Places : At(p).client = x
      BY <1>1, <1>12 DEF Live
    <2>2. h[p] \in Places' /\ At(h[p])'.client = x
      BY <2>1 DEF Renames
    <2>3. CASE h[p] = r
      BY <1>2, <1>3, <2>2, <2>3 DEF Live
    <2>4. CASE h[p] # r
      BY <1>7, <2>2, <2>4 DEF Live
    <2> QED BY <2>3, <2>4
  <1> QED BY <1>1, <1>9, <1>10, <1>11, <1>12 DEF NoneEnds

\* A non-empty list of entries begins with an entry.
LEMMA FirstEntry ==
    ASSUME NEW q \in Seq(Entry), q # <<>>
    PROVE  Len(q) \in Nat /\ Len(q) > 0 /\ q[1] \in Entry
  <1>1. Len(q) \in Nat /\ Len(q) > 0
    OBVIOUS
  <1>2. 1 \in 1..Len(q)
    BY <1>1
  <1> QED BY <1>1, <1>2, ElementOfSeq

LEMMA SingleFrame ==
    ASSUME NEW f \in Frame
    PROVE  <<f>> \in Seq(Frame) /\ Len(<<f>>) = 1 /\ <<f>>[1] = f
  OBVIOUS

\* run_cache_client() starts with an entry.
LEMMA StartRunType ==
    ASSUME NEW e \in Entry, StartRun(e)
    PROVE  /\ current_client' \in Entry /\ current_client' = e
           /\ cache_miss_cnt' = 0 /\ cache_miss_cnt' \in 0..MaxMiss
           /\ client_exited' \in BOOLEAN
  <1>1. current_client' = e /\ cache_miss_cnt' = 0 /\ client_exited' = FALSE
    BY DEF StartRun
  <1>2. 0 \in 0..MaxMiss
    BY CacheAssumption
  <1> QED BY <1>1, <1>2

\* memcpy() into the static buffer.
LEMMA OverwriteIsSeq ==
    ASSUME NEW b \in Seq(Entry), NEW q \in Seq(Entry)
    PROVE  /\ Overwrite(b, q) \in Seq(Entry)
           /\ Len(q) <= Len(Overwrite(b, q))
           /\ \A i \in 1..Len(q) : Overwrite(b, q)[i] = q[i]
  <1> DEFINE n == IF Len(b) > Len(q) THEN Len(b) ELSE Len(q)
             r == [i \in 1..n |-> IF i <= Len(q) THEN q[i] ELSE b[i]]
  <1>1. Len(b) \in Nat /\ Len(q) \in Nat
    OBVIOUS
  <1>2. n \in Nat /\ n >= Len(q) /\ (n > Len(q) => n = Len(b))
    BY <1>1
  <1>3. \A i \in 1..n : (i <= Len(q) => i \in 1..Len(q)) /\ (~(i <= Len(q)) => i \in 1..Len(b))
    BY <1>1
  <1>4. Overwrite(b, q) = r
    BY DEF Overwrite
  <1> HIDE DEF n
  <1>5. \A i \in 1..n : r[i] \in Entry
    BY <1>1, <1>3, ElementOfSeq
  <1>6. r \in Seq(Entry) /\ Len(r) = n
    <2>1. r \in [1..n -> Entry]
      BY <1>5
    <2> HIDE DEF r
    <2> QED BY <1>2, <2>1, IsASeq, LenProperties
  <1> QED BY <1>1, <1>2, <1>4, <1>6

\* cache_notify(): the wait list becomes a loop over the static buffer.
LEMMA CacheNotifyInv ==
    ASSUME CaInv, Nests = {}, NEW c \in Caches, CacheNotify(c)
    PROVE  CaInv' /\ NoneEnds
  <1> DEFINE q == wait_list[c]
             f == [kind |-> "notify", client |-> q[1].client, i |-> 1,
                   cnt |-> Len(q), buf |-> <<>>, exited |-> FALSE]
  <1>1. stack = <<>>
    BY DEF CacheNotify
  <1>2. q \in Seq(Entry) /\ wait_list_buf \in Seq(Entry) /\ wait_list \in [Caches -> Seq(Entry)]
        /\ q # <<>>
    BY DEF CaInv, CaTypeOK, CacheNotify
  <1>3. Len(q) \in Nat /\ Len(q) > 0 /\ q[1] \in Entry /\ q[1].client \in Clients
    BY <1>2, FirstEntry DEF Entry
  <1>4. /\ wait_list_buf' \in Seq(Entry) /\ Len(q) <= Len(wait_list_buf')
        /\ \A i \in 1..Len(q) : wait_list_buf'[i] = q[i]
    BY <1>2, OverwriteIsSeq DEF CacheNotify
  <1>5. f \in Frame /\ f.kind = "notify" /\ f.i = 1 /\ f.cnt = Len(q) /\ f.client = q[1].client
    BY <1>3 DEF Frame
  <1>6. stack' = <<f>>
    BY <1>1 DEF CacheNotify
  <1>6a. stack' \in Seq(Frame) /\ Len(stack') = 1 /\ stack'[1] = f
    BY <1>5, <1>6, SingleFrame
  <1> HIDE DEF f
  <1>7. /\ wait_list' = [wait_list EXCEPT ![c] = <<>>] /\ StartRun(q[1])
        /\ UNCHANGED <<later, id_cnt, locks, heap>>
    BY DEF CacheNotify
  <1>8. /\ wait_list'[c] = <<>> /\ Len(wait_list'[c]) = 0
        /\ \A d \in Caches : d # c => wait_list'[d] = wait_list[d]
    BY <1>2, <1>7
  <1>9. CaTypeOK'
    <2>1. wait_list' \in [Caches -> Seq(Entry)]
      BY <1>2, <1>7
    <2>2. current_client' \in Entry /\ cache_miss_cnt' \in 0..MaxMiss /\ client_exited' \in BOOLEAN
      BY <1>3, <1>7, StartRunType
    <2> QED BY <1>4, <1>6a, <1>7, <2>1, <2>2 DEF CaInv, CaTypeOK
  <1>10. \A p \in Places : \/ \E d \in Caches : \E i \in 1..Len(wait_list[d]) : p = <<"wait", d, i>>
                           \/ \E j \in 1..Len(later) : \E i \in 1..Len(later[j]) : p = <<"later", j, i>>
    BY <1>1, PlacesNow, PlaceForms
  <1>11. /\ \A d \in Caches : \A i \in 1..Len(wait_list[d]) : <<"wait", d, i>> \in Places
         /\ \A j \in 1..Len(later) : \A i \in 1..Len(later[j]) : <<"later", j, i>> \in Places
    BY PlacesNow, PlaceForms
  <1>12. ASSUME NEW p
         PROVE  p \in Places' <=>
                  \/ \E d \in Caches \ {c} : \E i \in 1..Len(wait_list[d]) : p = <<"wait", d, i>>
                  \/ \E j \in 1..Len(later) : \E i \in 1..Len(later[j]) : p = <<"later", j, i>>
                  \/ \E i \in 1..Len(q) : p = <<"loop", 1, i>>
    <2>2. p \in LoopsOf(stack') <=> \E i \in 1..Len(q) : p = <<"loop", 1, i>>
      BY <1>5, <1>6a, PlacesOne
    <2>3. p \in ListsOf(wait_list') <=> \E d \in Caches \ {c} : \E i \in 1..Len(wait_list[d]) : p = <<"wait", d, i>>
      BY <1>8 DEF ListsOf
    <2>4. p \in LatersOf(later') <=> \E j \in 1..Len(later) : \E i \in 1..Len(later[j]) : p = <<"later", j, i>>
      BY <1>7 DEF LatersOf
    <2> QED BY <2>2, <2>3, <2>4, PlacesNext DEF PlacesOf
  <1>h. PICK h : h = [p \in Places |-> IF p[1] = "wait" /\ p[2] = c THEN <<"loop", 1, p[3]>> ELSE p]
    OBVIOUS
  <1>13. Renames(h)
    <2>1. ASSUME NEW p \in Places
          PROVE  h[p] \in Places' /\ At(h[p])' = At(p)
      <3>1. CASE \E i \in 1..Len(q) : p = <<"wait", c, i>>
        <4>1. PICK i \in 1..Len(q) : p = <<"wait", c, i>>
          BY <3>1
        <4>2. h[p] = <<"loop", 1, i>>
          BY <1>h, <4>1
        <4>3. At(<<"loop", 1, i>>)' = wait_list_buf'[i]
          BY <1>5, <1>6a DEF At, LoopEntry
        <4> QED BY <1>4, <1>12, <4>1, <4>2, <4>3, AtForms
      <3>2. CASE \E d \in Caches \ {c} : \E i \in 1..Len(wait_list[d]) : p = <<"wait", d, i>>
        <4>1. PICK d \in Caches \ {c} : \E i \in 1..Len(wait_list[d]) : p = <<"wait", d, i>>
          BY <3>2
        <4>2. h[p] = p
          BY <1>h, <4>1
        <4> QED BY <1>8, <1>12, <4>1, <4>2, AtForms
      <3>3. CASE \E j \in 1..Len(later) : \E i \in 1..Len(later[j]) : p = <<"later", j, i>>
        <4>1. h[p] = p
          BY <1>h, <3>3
        <4> QED BY <1>7, <1>12, <3>3, <4>1, AtForms
      <3> QED BY <1>10, <3>1, <3>2, <3>3
    <2>2. ASSUME NEW p \in Places' PROVE \E o \in Places : p = h[o]
      <3>1. CASE p \in Places
        <4>1. ~(p[1] = "wait" /\ p[2] = c)
          BY <1>12
        <4>2. p = h[p]
          BY <1>h, <3>1, <4>1
        <4> QED BY <3>1, <4>2
      <3>2. CASE \E i \in 1..Len(q) : p = <<"loop", 1, i>>
        <4>1. PICK i \in 1..Len(q) : p = <<"loop", 1, i>>
          BY <3>2
        <4>2. <<"wait", c, i>> \in Places /\ h[<<"wait", c, i>>] = p
          BY <1>h, <1>11, <4>1
        <4> QED BY <4>2
      <3> QED BY <1>11, <1>12, <3>1, <3>2
    <2>3. ASSUME NEW o \in Places, NEW p \in Places, h[o] = h[p] PROVE o = p
      <3>1. o[1] \in {"wait", "later"} /\ p[1] \in {"wait", "later"}
        BY <1>10
      <3>2. o = <<o[1], o[2], o[3]>> /\ p = <<p[1], p[2], p[3]>>
        BY <1>10
      <3>3. CASE o[1] = "wait" /\ o[2] = c
        <4>1. h[o] = <<"loop", 1, o[3]>>
          BY <1>h, <3>3
        <4>2. p[1] = "wait" /\ p[2] = c
          BY <1>h, <2>3, <3>1, <3>2, <4>1
        <4>3. h[p] = <<"loop", 1, p[3]>>
          BY <1>h, <4>2
        <4>4. <<"loop", 1, o[3]>>[3] = <<"loop", 1, p[3]>>[3]
          BY <2>3, <4>1, <4>3, Zenon
        <4>5. o[3] = p[3]
          BY <4>4
        <4> QED BY <3>2, <3>3, <4>2, <4>5, Zenon
      <3>4. CASE ~(o[1] = "wait" /\ o[2] = c)
        <4>1. h[o] = o
          BY <1>h, <3>4
        <4>2. h[p] = p \/ h[p][1] = "loop"
          BY <1>h
        <4> QED BY <2>3, <3>1, <4>1, <4>2
      <3> QED BY <3>3, <3>4
    <2>4. Places' = {h[p] : p \in Places}
      BY <2>1, <2>2
    <2> QED BY <2>1, <2>3, <2>4 DEF Renames
  <1>14. LaterFull'
    BY <1>7 DEF CaInv, LaterFull
  <1>15. LoopBuf(f, wait_list_buf') = wait_list_buf' /\ wait_list_buf'[1] = q[1]
    BY <1>3, <1>4, <1>5 DEF LoopBuf
  <1>16. f.kind # "enter" /\ f.cnt > 0 /\ f.cnt <= Len(LoopBuf(f, wait_list_buf'))
    BY <1>3, <1>4, <1>5, <1>15
  <1> DEFINE e == q[1]
  <1>17. e = LoopBuf(f, wait_list_buf')[1] /\ f.client = e.client /\ StartRun(e)
    BY <1>5, <1>7, <1>15
  <1> HIDE DEF e
  <1> QED BY <1>1, <1>5, <1>6, <1>7, <1>9, <1>13, <1>14, <1>16, <1>17, LoopStartInv

\* cache_notify_later(): the wait list becomes the last buffer that was posted.
LEMMA CacheNotifyLaterInv ==
    ASSUME CaInv, NEW c \in Caches, CacheNotifyLater(c)
    PROVE  CaInv' /\ NoneEnds
  <1> DEFINE q == wait_list[c]
             n == Len(later)
  <1>1. /\ stack = <<>> /\ stack' = <<>> /\ q # <<>>
        /\ wait_list' = [wait_list EXCEPT ![c] = <<>>] /\ later' = Append(later, q)
        /\ UNCHANGED <<current_client, client_exited, cache_miss_cnt, id_cnt, wait_list_buf, locks, heap>>
    BY DEF CacheNotifyLater
  <1>2. /\ q \in Seq(Entry) /\ wait_list \in [Caches -> Seq(Entry)] /\ later \in Seq(Seq(Entry))
        /\ stack \in Seq(Frame)
    BY DEF CaInv, CaTypeOK
  <1>3. n \in Nat
    BY <1>2
  <1>4. /\ later' \in Seq(Seq(Entry)) /\ Len(later') = n + 1 /\ later'[n + 1] = q
        /\ \A j \in 1..n : later'[j] = later[j]
    BY <1>1, <1>2, AppendProperties
  <1>5. /\ wait_list'[c] = <<>> /\ Len(wait_list'[c]) = 0
        /\ \A d \in Caches : d # c => wait_list'[d] = wait_list[d]
    BY <1>1, <1>2
  <1>6. CaTypeOK'
    <2>1. wait_list' \in [Caches -> Seq(Entry)]
      BY <1>1, <1>2
    <2> QED BY <1>1, <1>4, <2>1 DEF CaInv, CaTypeOK
  <1> HIDE DEF n
  <1>7. \A p \in Places : \/ \E d \in Caches : \E i \in 1..Len(wait_list[d]) : p = <<"wait", d, i>>
                          \/ \E j \in 1..n : \E i \in 1..Len(later[j]) : p = <<"later", j, i>>
    BY <1>1, PlacesNow, PlaceForms DEF n
  <1>8. /\ \A d \in Caches : \A i \in 1..Len(wait_list[d]) : <<"wait", d, i>> \in Places
        /\ \A j \in 1..n : \A i \in 1..Len(later[j]) : <<"later", j, i>> \in Places
    BY PlacesNow, PlaceForms DEF n
  <1>9. ASSUME NEW p
        PROVE  p \in Places' <=>
                  \/ \E d \in Caches \ {c} : \E i \in 1..Len(wait_list[d]) : p = <<"wait", d, i>>
                  \/ \E j \in 1..n : \E i \in 1..Len(later[j]) : p = <<"later", j, i>>
                  \/ \E i \in 1..Len(q) : p = <<"later", n + 1, i>>
    <2>1. p \notin LoopsOf(stack')
      BY <1>1 DEF LoopsOf
    <2>2. p \in ListsOf(wait_list') <=> \E d \in Caches \ {c} : \E i \in 1..Len(wait_list[d]) : p = <<"wait", d, i>>
      BY <1>5 DEF ListsOf
    <2>3. p \in LatersOf(later') <=> \E j \in 1..(n + 1) : \E i \in 1..Len(later'[j]) : p = <<"later", j, i>>
      <3>1. p \in LatersOf(later') <=> \E j \in 1..Len(later') : \E i \in 1..Len(later'[j]) : p = <<"later", j, i>>
        BY DEF LatersOf
      <3>2. Len(later') = n + 1
        BY <1>4
      <3> QED BY <3>1, <3>2, Zenon
    <2>4. \A j : j \in 1..(n + 1) <=> j \in 1..n \/ j = n + 1
      BY <1>3
    <2>5. p \in LatersOf(later') <=> \/ \E j \in 1..n : \E i \in 1..Len(later[j]) : p = <<"later", j, i>>
                                     \/ \E i \in 1..Len(q) : p = <<"later", n + 1, i>>
      BY <1>4, <2>3, <2>4
    <2> QED BY <2>1, <2>2, <2>5, PlacesNext DEF PlacesOf
  <1>h. PICK h : h = [p \in Places |-> IF p[1] = "wait" /\ p[2] = c THEN <<"later", n + 1, p[3]>> ELSE p]
    OBVIOUS
  <1>10. Renames(h)
    <2>1. ASSUME NEW p \in Places
          PROVE  h[p] \in Places' /\ At(h[p])' = At(p)
      <3>1. CASE \E i \in 1..Len(q) : p = <<"wait", c, i>>
        <4>1. PICK i \in 1..Len(q) : p = <<"wait", c, i>>
          BY <3>1
        <4>2. h[p] = <<"later", n + 1, i>>
          BY <1>h, <4>1
        <4> QED BY <1>4, <1>9, <4>1, <4>2, AtForms
      <3>2. CASE \E d \in Caches \ {c} : \E i \in 1..Len(wait_list[d]) : p = <<"wait", d, i>>
        <4>1. PICK d \in Caches \ {c} : \E i \in 1..Len(wait_list[d]) : p = <<"wait", d, i>>
          BY <3>2
        <4>2. h[p] = p
          BY <1>h, <4>1
        <4> QED BY <1>5, <1>9, <4>1, <4>2, AtForms
      <3>3. CASE \E j \in 1..n : \E i \in 1..Len(later[j]) : p = <<"later", j, i>>
        <4>1. h[p] = p
          BY <1>h, <3>3
        <4> QED BY <1>4, <1>9, <3>3, <4>1, AtForms
      <3> QED BY <1>7, <3>1, <3>2, <3>3
    <2>2. ASSUME NEW p \in Places' PROVE \E o \in Places : p = h[o]
      <3>1. CASE p \in Places
        <4>1. ~(p[1] = "wait" /\ p[2] = c)
          BY <1>9
        <4>2. p = h[p]
          BY <1>h, <3>1, <4>1
        <4> QED BY <3>1, <4>2
      <3>2. CASE \E i \in 1..Len(q) : p = <<"later", n + 1, i>>
        <4>1. PICK i \in 1..Len(q) : p = <<"later", n + 1, i>>
          BY <3>2
        <4>2. <<"wait", c, i>> \in Places /\ h[<<"wait", c, i>>] = p
          BY <1>h, <1>8, <4>1
        <4> QED BY <4>2
      <3> QED BY <1>8, <1>9, <3>1, <3>2
    <2>3. ASSUME NEW o \in Places, NEW p \in Places, h[o] = h[p] PROVE o = p
      <3>1. /\ o[1] = "later" => o[2] \in 1..n
            /\ p[1] = "later" => p[2] \in 1..n
        BY <1>7
      <3>2. o = <<o[1], o[2], o[3]>> /\ p = <<p[1], p[2], p[3]>>
        BY <1>7
      <3>3. /\ h[o] = o \/ (o[1] = "wait" /\ o[2] = c /\ h[o] = <<"later", n + 1, o[3]>>)
            /\ h[p] = p \/ (p[1] = "wait" /\ p[2] = c /\ h[p] = <<"later", n + 1, p[3]>>)
        BY <1>h
      <3>4. ASSUME NEW x \in {o, p}, NEW y \in {o, p}, h[x] = <<"later", n + 1, x[3]>>, h[y] = y
            PROVE  h[x] # h[y]
        <4>1. y[1] = "later" => y[2] # n + 1
          BY <1>3, <3>1
        <4> QED BY <3>4, <4>1
      <3>5. CASE h[o] = o /\ h[p] = p
        BY <2>3, <3>5
      <3>6. CASE /\ o[1] = "wait" /\ o[2] = c /\ h[o] = <<"later", n + 1, o[3]>>
                 /\ p[1] = "wait" /\ p[2] = c /\ h[p] = <<"later", n + 1, p[3]>>
        <4>1. <<"later", n + 1, o[3]>>[3] = <<"later", n + 1, p[3]>>[3]
          BY <2>3, <3>6, Zenon
        <4>2. o[3] = p[3]
          BY <4>1
        <4> QED BY <3>2, <3>6, <4>2, Zenon
      <3> QED BY <2>3, <3>3, <3>4, <3>5, <3>6
    <2>4. Places' = {h[p] : p \in Places}
      BY <2>1, <2>2
    <2> QED BY <2>1, <2>3, <2>4 DEF Renames
  <1>11. /\ IsFiniteSet(Places') /\ Copied' /\ LocksHeld'
         /\ \A cl : Waiting(cl) = {p \in Places : At(p).client = cl}
         /\ \A p, q1 \in Places' : At(p)'.client = At(q1)'.client => p = q1
    BY <1>1, <1>10, MovedInv
  <1>12. \A cl : Waiting(cl)' = {p \in Places' : At(p)'.client = cl}
    <2>1. stack' \in Seq(Frame)
      BY <1>1, <1>2
    <2>2. \A p \in Places' : ~Reached(stack', p)
      BY <1>1, <2>1, PlacesOne, PlacesNext
    <2> QED BY <1>6, <2>2, WaitingFormNext
  <1>13. \A cl : Waiting(cl) # {} <=> Waiting(cl)' # {}
    BY <1>10, <1>11, <1>12 DEF Renames
  <1>14. OneFrame' /\ HeapExact' /\ Once'
    BY <1>1, <1>11, <1>12, <1>13 DEF CaInv, OneFrame, HeapExact, Once
  <1>15. LaterFull'
    <2>1. ASSUME NEW j \in 1..Len(later') PROVE later'[j] # <<>>
      <3>1. j \in 1..n \/ j = n + 1
        BY <1>3, <1>4
      <3> QED BY <1>1, <1>4, <3>1 DEF CaInv, LaterFull, n
    <2> QED BY <2>1 DEF LaterFull
  <1>16. NoneEnds
    BY <1>1, <1>13 DEF NoneEnds, Live
  <1> QED BY <1>6, <1>11, <1>14, <1>15, <1>16 DEF CaInv

\* cache_notify_event(): the first buffer that was posted becomes a loop.
LEMMA CacheNotifyEventInv ==
    ASSUME CaInv, CacheNotifyEvent
    PROVE  CaInv' /\ NoneEnds
  <1> DEFINE q == later[1]
             n == Len(later)
             f == [kind |-> "later", client |-> q[1].client, i |-> 1, cnt |-> Len(q),
                   buf |-> q, exited |-> FALSE]
  <1>1. /\ later \in Seq(Seq(Entry)) /\ wait_list \in [Caches -> Seq(Entry)]
    BY DEF CaInv, CaTypeOK
  <1>2. later # <<>> /\ stack = <<>>
    BY DEF CacheNotifyEvent
  <1>3. /\ n \in Nat /\ n > 0 /\ q = Head(later) /\ q \in Seq(Entry) /\ q # <<>>
        /\ Tail(later) \in Seq(Seq(Entry)) /\ Len(Tail(later)) = n - 1
        /\ \A j \in 1..(n - 1) : Tail(later)[j] = later[j + 1]
    <2>1. /\ n \in Nat /\ n > 0 /\ q = Head(later)
          /\ Tail(later) \in Seq(Seq(Entry)) /\ Len(Tail(later)) = n - 1
      BY <1>1, <1>2
    <2>2. \A j \in 1..(n - 1) : Tail(later)[j] = later[j + 1]
      BY <1>1, <1>2
    <2>3. 1 \in 1..Len(later)
      BY <2>1
    <2>4. q \in Seq(Entry) /\ q # <<>>
      BY <1>1, <2>3, ElementOfSeq DEF CaInv, LaterFull
    <2> QED BY <2>1, <2>2, <2>4
  <1>4. Len(q) \in Nat /\ Len(q) > 0 /\ q[1] \in Entry /\ q[1].client \in Clients
    BY <1>3, FirstEntry DEF Entry
  <1>5. /\ f \in Frame /\ f.kind = "later" /\ f.i = 1 /\ f.cnt = Len(q) /\ f.client = q[1].client
        /\ f.buf = q
    BY <1>3, <1>4 DEF Frame
  <1>6. /\ stack' = <<f>> /\ later' = Tail(later) /\ StartRun(q[1])
        /\ UNCHANGED <<id_cnt, wait_list, wait_list_buf, locks, heap>>
    BY <1>3 DEF CacheNotifyEvent
  <1>7. stack' \in Seq(Frame) /\ Len(stack') = 1 /\ stack'[1] = f
    BY <1>5, <1>6, SingleFrame
  <1> HIDE DEF f, n
  <1>8. /\ later' \in Seq(Seq(Entry)) /\ Len(later') = n - 1
        /\ \A j \in 1..(n - 1) : later'[j] = later[j + 1]
    BY <1>3, <1>6
  <1>9. CaTypeOK'
    <2>1. current_client' \in Entry /\ cache_miss_cnt' \in 0..MaxMiss /\ client_exited' \in BOOLEAN
      BY <1>4, <1>6, StartRunType
    <2> QED BY <1>6, <1>7, <1>8, <2>1 DEF CaInv, CaTypeOK
  <1> HIDE DEF q
  <1>10. \A p \in Places : \/ \E d \in Caches : \E i \in 1..Len(wait_list[d]) : p = <<"wait", d, i>>
                           \/ \E j \in 1..n : \E i \in 1..Len(later[j]) : p = <<"later", j, i>>
    BY <1>2, PlacesNow, PlaceForms DEF n
  <1>11. /\ \A d \in Caches : \A i \in 1..Len(wait_list[d]) : <<"wait", d, i>> \in Places
         /\ \A j \in 1..n : \A i \in 1..Len(later[j]) : <<"later", j, i>> \in Places
    BY PlacesNow, PlaceForms DEF n
  <1>12. ASSUME NEW p
         PROVE  p \in Places' <=>
                  \/ \E d \in Caches : \E i \in 1..Len(wait_list[d]) : p = <<"wait", d, i>>
                  \/ \E j \in 1..(n - 1) : \E i \in 1..Len(later[j + 1]) : p = <<"later", j, i>>
                  \/ \E i \in 1..Len(q) : p = <<"loop", 1, i>>
    <2>1. p \in LoopsOf(stack') <=> \E i \in 1..Len(q) : p = <<"loop", 1, i>>
      BY <1>5, <1>7, PlacesOne
    <2>2. p \in ListsOf(wait_list') <=> \E d \in Caches : \E i \in 1..Len(wait_list[d]) : p = <<"wait", d, i>>
      BY <1>6 DEF ListsOf
    <2>3. p \in LatersOf(later') <=> \E j \in 1..Len(later') : \E i \in 1..Len(later'[j]) : p = <<"later", j, i>>
      BY DEF LatersOf
    <2>4. p \in LatersOf(later') <=> \E j \in 1..(n - 1) : \E i \in 1..Len(later[j + 1]) : p = <<"later", j, i>>
      BY <1>8, <2>3
    <2> QED BY <2>1, <2>2, <2>4, PlacesNext DEF PlacesOf
  <1>h. PICK h : h = [p \in Places |->
                        IF p[1] # "later" THEN p
                        ELSE IF p[2] = 1 THEN <<"loop", 1, p[3]>> ELSE <<"later", p[2] - 1, p[3]>>]
    OBVIOUS
  <1>13. Renames(h)
    <2>1. ASSUME NEW p \in Places
          PROVE  h[p] \in Places' /\ At(h[p])' = At(p)
      <3>1. CASE \E d \in Caches : \E i \in 1..Len(wait_list[d]) : p = <<"wait", d, i>>
        <4>1. h[p] = p
          BY <1>h, <3>1
        <4> QED BY <1>6, <1>12, <3>1, <4>1, AtForms
      <3>2. CASE \E j \in 1..n : \E i \in 1..Len(later[j]) : p = <<"later", j, i>>
        <4>1. PICK j \in 1..n : \E i \in 1..Len(later[j]) : p = <<"later", j, i>>
          BY <3>2
        <4>2. PICK i \in 1..Len(later[j]) : p = <<"later", j, i>>
          BY <4>1
        <4>3. CASE j = 1
          <5>1. h[p] = <<"loop", 1, i>> /\ i \in 1..Len(q)
            BY <1>h, <4>2, <4>3 DEF q
          <5>2. At(<<"loop", 1, i>>)' = q[i]
            BY <1>5, <1>7 DEF At, LoopEntry
          <5> QED BY <1>12, <4>2, <4>3, <5>1, <5>2, AtForms DEF q
        <4>4. CASE j # 1
          <5>1. j - 1 \in 1..(n - 1) /\ (j - 1) + 1 = j
            BY <1>3, <4>4
          <5>2. h[p] = <<"later", j - 1, i>>
            BY <1>h, <4>2, <4>4
          <5>3. At(<<"later", j - 1, i>>)' = later'[j - 1][i]
            BY AtForms
          <5>4. At(p) = later[j][i]
            BY <4>2, AtForms
          <5>5. later'[j - 1] = later[j]
            BY <1>8, <5>1
          <5>6. i \in 1..Len(later[(j - 1) + 1])
            BY <5>1
          <5>7. h[p] \in Places'
            BY <1>12, <5>1, <5>2, <5>6
          <5> QED BY <5>2, <5>3, <5>4, <5>5, <5>7
        <4> QED BY <4>3, <4>4
      <3> QED BY <1>10, <3>1, <3>2
    <2>2. ASSUME NEW p \in Places' PROVE \E o \in Places : p = h[o]
      <3>1. CASE \E d \in Caches : \E i \in 1..Len(wait_list[d]) : p = <<"wait", d, i>>
        <4>1. p \in Places /\ p = h[p]
          BY <1>h, <1>11, <3>1
        <4> QED BY <4>1
      <3>2. CASE \E j \in 1..(n - 1) : \E i \in 1..Len(later[j + 1]) : p = <<"later", j, i>>
        <4>1. PICK j \in 1..(n - 1) : \E i \in 1..Len(later[j + 1]) : p = <<"later", j, i>>
          BY <3>2
        <4>2. PICK i \in 1..Len(later[j + 1]) : p = <<"later", j, i>>
          BY <4>1
        <4>3. j + 1 \in 1..n /\ (j + 1) - 1 = j /\ j + 1 # 1
          BY <1>3
        <4>4. <<"later", j + 1, i>> \in Places
          BY <1>11, <4>3
        <4>5. h[<<"later", j + 1, i>>] = <<"later", (j + 1) - 1, i>>
          BY <1>h, <4>3, <4>4
        <4> QED BY <4>2, <4>3, <4>4, <4>5
      <3>3. CASE \E i \in 1..Len(q) : p = <<"loop", 1, i>>
        <4>1. PICK i \in 1..Len(q) : p = <<"loop", 1, i>>
          BY <3>3
        <4>2. <<"later", 1, i>> \in Places
          BY <1>3, <1>11 DEF q
        <4>3. h[<<"later", 1, i>>] = p
          BY <1>h, <4>1, <4>2
        <4> QED BY <4>2, <4>3
      <3> QED BY <1>12, <3>1, <3>2, <3>3
    <2>3. ASSUME NEW o \in Places, NEW p \in Places, h[o] = h[p] PROVE o = p
      <3>1. ASSUME NEW x \in Places
            PROVE  /\ x = <<x[1], x[2], x[3]>>
                   /\ x[1] = "wait" \/ (x[1] = "later" /\ x[2] \in Int)
                   /\ x[1] = "wait" => h[x] = x
                   /\ x[1] = "later" /\ x[2] = 1 => h[x] = <<"loop", 1, x[3]>>
                   /\ x[1] = "later" /\ x[2] # 1 => h[x] = <<"later", x[2] - 1, x[3]>>
        <4>1. /\ x = <<x[1], x[2], x[3]>>
              /\ x[1] = "wait" \/ (x[1] = "later" /\ x[2] \in Int)
          BY <1>10, <3>1
        <4> QED BY <1>h, <3>1, <4>1
      <3>2. CASE o[1] = "wait"
        <4>1. h[o][1] = "wait"
          BY <3>1, <3>2
        <4>2. p[1] = "wait"
          BY <2>3, <3>1, <4>1
        <4> QED BY <2>3, <3>1, <3>2, <4>2
      <3>3. CASE o[1] = "later" /\ o[2] = 1
        <4>1. h[o][1] = "loop" /\ h[o][3] = o[3]
          BY <3>1, <3>3
        <4>2. p[1] = "later" /\ p[2] = 1
          BY <2>3, <3>1, <4>1
        <4>3. h[p][3] = p[3]
          BY <3>1, <4>2
        <4>4. o[3] = p[3]
          BY <2>3, <4>1, <4>3
        <4> QED BY <3>1, <3>3, <4>2, <4>4, Zenon
      <3>4. CASE o[1] = "later" /\ o[2] # 1
        <4>1. h[o][1] = "later" /\ h[o][2] = o[2] - 1 /\ h[o][3] = o[3]
          BY <3>1, <3>4
        <4>2. p[1] = "later" /\ p[2] # 1
          BY <2>3, <3>1, <4>1
        <4>3. h[p][2] = p[2] - 1 /\ h[p][3] = p[3]
          BY <3>1, <4>2
        <4>4. o[3] = p[3] /\ o[2] - 1 = p[2] - 1 /\ o[2] \in Int /\ p[2] \in Int
          BY <2>3, <3>1, <3>4, <4>1, <4>2, <4>3
        <4>5. o[2] = p[2]
          BY <4>4
        <4> QED BY <3>1, <3>4, <4>2, <4>4, <4>5, Zenon
      <3> QED BY <3>1, <3>2, <3>3, <3>4
    <2>4. Places' = {h[p] : p \in Places}
      BY <2>1, <2>2
    <2> QED BY <2>1, <2>3, <2>4 DEF Renames
  <1>14. LaterFull'
    <2>1. ASSUME NEW j \in 1..Len(later') PROVE later'[j] # <<>>
      <3>1. j + 1 \in 1..n /\ later'[j] = later[j + 1]
        BY <1>3, <1>8, SMTT(20)
      <3> QED BY <3>1 DEF CaInv, LaterFull, n
    <2> QED BY <2>1 DEF LaterFull
  <1>15. LoopBuf(f, wait_list_buf') = q
    BY <1>5 DEF LoopBuf
  <1>16. f.kind # "enter" /\ f.cnt > 0 /\ f.cnt <= Len(LoopBuf(f, wait_list_buf'))
    BY <1>4, <1>5, <1>15
  <1> DEFINE e == q[1]
  <1>17. e = LoopBuf(f, wait_list_buf')[1] /\ f.client = e.client /\ StartRun(e)
    BY <1>5, <1>6, <1>15
  <1> HIDE DEF e
  <1> QED BY <1>2, <1>5, <1>6, <1>9, <1>13, <1>14, <1>16, <1>17, LoopStartInv

-----------------------------------------------------------------------------
(***************************************************************************)
(* A client runs                                                           *)
(***************************************************************************)

LEMMA SamePlaces ==
    ASSUME CaInv, CaTypeOK', Places' = Places, \A p \in Places : At(p)' = At(p),
           \A p \in Places : Reached(stack', p) <=> Reached(stack, p), UNCHANGED locks
    PROVE  /\ IsFiniteSet(Places') /\ Copied' /\ LocksHeld' /\ Once'
           /\ \A cl : Waiting(cl)' = Waiting(cl)
  <1>1. \A cl : Waiting(cl)' = Waiting(cl)
    BY WaitingForm, WaitingFormNext DEF CaInv
  <1>2. Once'
    BY <1>1 DEF CaInv, Once
  <1>3. ASSUME NEW ch PROVE {p \in Places' : At(p)'.channel = ch} = {p \in Places : At(p).channel = ch}
    OBVIOUS
  <1>4. LocksHeld'
    BY <1>3 DEF CaInv, LocksHeld
  <1>5. IsFiniteSet(Places') /\ Copied'
    BY DEF CaInv, Copied
  <1> QED BY <1>1, <1>2, <1>4, <1>5

\* An entry that is not the null entry.
LEMMA NotNull == \A e \in Entry : e # NoEntry
  <1>1. NoEntry.client = NoClient
    BY DEF NoEntry
  <1>2. \A e \in Entry : e.client \in Clients
    BY DEF Entry
  <1> QED BY <1>1, <1>2, CacheAssumption

LEMMA CacheEnterInv ==
    ASSUME CaInv, NEW cl \in Clients, NEW ch \in Channels \cup {NoChannel}, CacheEnter(cl, ch)
    PROVE  CaInv' /\ NoneEnds
  <1> DEFINE e == [client |-> cl, id |-> NextId(id_cnt), channel |-> ch, copy |-> FALSE]
             f == [kind |-> "enter", client |-> cl, i |-> 1, cnt |-> 0, buf |-> <<>>, exited |-> FALSE]
  <1>1. /\ stack = <<>> /\ ~Outstanding(cl) /\ StartRun(e) /\ stack' = <<f>>
        /\ id_cnt' = (NextId(id_cnt) + 1) % IdMod
        /\ UNCHANGED <<wait_list, wait_list_buf, later, locks, heap>>
    BY DEF CacheEnter
  <1>2. id_cnt' \in 0..IdMod - 1 /\ NextId(id_cnt) \in 0..IdMod - 1
    BY <1>1, CacheAssumption DEF CaInv, CaTypeOK, NextId
  <1>3. e \in Entry /\ e.client = cl /\ e.copy = FALSE
    BY <1>2 DEF Entry
  <1>4. f \in Frame /\ f.kind = "enter" /\ f.i = 1 /\ f.cnt = 0 /\ f.client = cl
    <2>1. <<>> \in Seq(Entry)
      OBVIOUS
    <2> QED BY <2>1 DEF Frame
  <1>5. stack' \in Seq(Frame) /\ Len(stack') = 1 /\ stack'[1] = f
    BY <1>1, <1>4, SingleFrame
  <1>6. /\ current_client' \in Entry /\ current_client' = e
        /\ cache_miss_cnt' = 0 /\ cache_miss_cnt' \in 0..MaxMiss /\ client_exited' \in BOOLEAN
    BY <1>1, <1>3, StartRunType
  <1> HIDE DEF e, f
  <1>7. CaTypeOK'
    BY <1>1, <1>2, <1>5, <1>6 DEF CaInv, CaTypeOK
  <1>8. LoopsOf(stack) = {} /\ LoopsOf(stack') = {}
    <2>1. \A p : p \notin LoopsOf(stack')
      BY <1>4, <1>5, PlacesOne
    <2>2. \A p : p \notin LoopsOf(stack)
      BY <1>1 DEF LoopsOf
    <2> QED BY <2>1, <2>2
  <1>9. Places' = Places
    BY <1>1, <1>8, PlacesNow, PlacesNext DEF PlacesOf
  <1>10. \A p \in Places : p[1] # "loop" /\ At(p)' = At(p)
    <2>1. ASSUME NEW p \in Places
          PROVE  \/ \E d \in Caches : \E i \in 1..Len(wait_list[d]) : p = <<"wait", d, i>>
                 \/ \E j \in 1..Len(later) : \E i \in 1..Len(later[j]) : p = <<"later", j, i>>
      BY <1>1, PlacesNow, PlaceForms
    <2> QED BY <1>1, <2>1, AtForms
  <1>11. \A p \in Places : Reached(stack', p) <=> Reached(stack, p)
    BY <1>10 DEF Reached
  <1>12. /\ IsFiniteSet(Places') /\ Copied' /\ LocksHeld' /\ Once'
         /\ \A x : Waiting(x)' = Waiting(x)
    BY <1>1, <1>7, <1>9, <1>10, <1>11, SamePlaces
  <1>13. Waiting(cl)' = {}
    BY <1>1, <1>12 DEF Outstanding
  <1>14. OneFrame'
    <2>1. stack' # <<>> /\ Len(stack') <= 1
      BY <1>5
    <2> QED BY <1>3, <1>4, <1>5, <1>6, <1>13, <2>1 DEF OneFrame
  <1>15. HeapExact'
    <2>1. NoEntry.copy = FALSE
      BY DEF NoEntry
    <2> QED BY <1>1, <1>3, <1>6, <1>12, <2>1 DEF CaInv, HeapExact, OneFrame
  <1>16. LaterFull'
    BY <1>1 DEF CaInv, LaterFull
  <1>17. NoneEnds
    BY <1>1, <1>12 DEF NoneEnds, Live
  <1> QED BY <1>7, <1>12, <1>14, <1>15, <1>16, <1>17 DEF CaInv

LEMMA CacheExitInv ==
    ASSUME CaInv, CacheExit
    PROVE  CaInv' /\ NoneEnds
  <1>1. /\ stack # <<>> /\ client_exited' = TRUE
        /\ stack' = [stack EXCEPT ![Len(stack)].exited = TRUE]
        /\ UNCHANGED <<current_client, cache_miss_cnt, id_cnt, wait_list, wait_list_buf, later, locks, heap>>
    BY DEF CacheExit
  <1>2. stack \in Seq(Frame) /\ Len(stack) = 1 /\ stack[1] \in Frame
    BY <1>1, TopFrame DEF CaInv, CaTypeOK
  <1> DEFINE g == [stack[1] EXCEPT !.exited = TRUE]
  <1>3. /\ g \in Frame /\ g.kind = stack[1].kind /\ g.i = stack[1].i /\ g.cnt = stack[1].cnt
        /\ g.buf = stack[1].buf /\ g.client = stack[1].client
    BY <1>2 DEF Frame
  <1>4. stack' = [stack EXCEPT ![1] = g]
    BY <1>1, <1>2
  <1> HIDE DEF g
  <1>5. stack' \in Seq(Frame) /\ Len(stack') = 1 /\ stack'[1] = g
    <2>1. 1 \in 1..Len(stack)
      BY <1>2
    <2>2. /\ [stack EXCEPT ![1] = g] \in Seq(Frame) /\ Len([stack EXCEPT ![1] = g]) = Len(stack)
          /\ [stack EXCEPT ![1] = g][1] = g
      BY <1>2, <1>3, <2>1, ExceptSeq
    <2> QED BY <1>2, <1>4, <2>2
  <1>6. CaTypeOK'
    BY <1>1, <1>5 DEF CaInv, CaTypeOK
  <1>7. LoopsOf(stack') = LoopsOf(stack)
    <2>1. ASSUME NEW p PROVE p \in LoopsOf(stack') <=> p \in LoopsOf(stack)
      <3>1. p \in LoopsOf(stack') <=> \E i \in g.i..g.cnt : p = <<"loop", 1, i>>
        BY <1>5, PlacesOne
      <3>2. p \in LoopsOf(stack) <=> \E i \in stack[1].i..stack[1].cnt : p = <<"loop", 1, i>>
        BY <1>2, PlacesOne
      <3> QED BY <1>3, <3>1, <3>2
    <2> QED BY <2>1
  <1>8. Places' = Places
    BY <1>1, <1>7, PlacesNow, PlacesNext DEF PlacesOf
  <1>9. \A p \in Places : At(p)' = At(p)
    <2>1. \A i : LoopEntry(stack[1], i)' = LoopEntry(stack[1], i)
      BY <1>1, <1>3, <1>5 DEF LoopEntry
    <2>2. ASSUME NEW p \in Places PROVE At(p)' = At(p)
      <3>1. CASE p \in LoopsOf(stack)
        <4>1. PICK i : p = <<"loop", 1, i>>
          BY <1>2, <3>1, PlacesOne
        <4> QED BY <2>1, <4>1, AtForms
      <3>2. CASE p \notin LoopsOf(stack)
        <4>1. \/ \E d \in Caches : \E i \in 1..Len(wait_list[d]) : p = <<"wait", d, i>>
              \/ \E j \in 1..Len(later) : \E i \in 1..Len(later[j]) : p = <<"later", j, i>>
          BY <3>2, PlacesNow, PlaceForms DEF LoopsOf
        <4> QED BY <1>1, <4>1, AtForms
      <3> QED BY <3>1, <3>2
    <2> QED BY <2>2
  <1>10. \A p \in Places : Reached(stack', p) <=> Reached(stack, p)
    BY <1>2, <1>3, <1>5, <1>8, PlacesOne, PlacesNow, PlacesNext
  <1>11. /\ IsFiniteSet(Places') /\ Copied' /\ LocksHeld' /\ Once'
         /\ \A x : Waiting(x)' = Waiting(x)
    BY <1>1, <1>6, <1>8, <1>9, <1>10, SamePlaces
  <1>12. OneFrame'
    <2>1. stack' # <<>> /\ Len(stack') <= 1
      BY <1>5
    <2>2. LoopBuf(stack'[1], wait_list_buf') = LoopBuf(stack[1], wait_list_buf)
      BY <1>1, <1>3, <1>5 DEF LoopBuf
    <2> QED BY <1>1, <1>3, <1>5, <1>11, <2>1, <2>2 DEF CaInv, OneFrame
  <1>13. HeapExact' /\ LaterFull'
    BY <1>1, <1>11 DEF CaInv, HeapExact, LaterFull
  <1>14. NoneEnds
    <2>1. stack' # <<>>
      BY <1>5
    <2> QED BY <1>3, <1>5, <1>11, <2>1 DEF NoneEnds, Live
  <1> QED BY <1>6, <1>11, <1>12, <1>13, <1>14 DEF CaInv

\* cache_wait(): the first miss of a run adds one waiting entry, a lock and a copy.
LEMMA CacheWaitInv ==
    ASSUME CaInv, NEW c \in Caches, CacheWait(c)
    PROVE  CaInv' /\ NoneEnds
  <1>1. /\ stack # <<>> /\ cache_miss_cnt < MaxMiss /\ cache_miss_cnt' = cache_miss_cnt + 1
        /\ UNCHANGED <<client_exited, id_cnt, wait_list_buf, later, stack>>
    BY DEF CacheWait
  <1>2. /\ stack \in Seq(Frame) /\ Len(stack) = 1 /\ stack[1] \in Frame
        /\ current_client \in Entry /\ current_client.client = stack[1].client
        /\ current_client # NoEntry
    BY <1>1, TopFrame, NotNull DEF CaInv, CaTypeOK, OneFrame
  <1>3. cache_miss_cnt \in Nat /\ cache_miss_cnt' \in 0..MaxMiss /\ cache_miss_cnt' > 0
    BY <1>1, CacheAssumption DEF CaInv, CaTypeOK
  <1>4. CASE cache_miss_cnt = 0
    <2>e. PICK e : e = Kept(current_client)
      OBVIOUS
    <2>n. PICK n : n = Len(wait_list[c])
      OBVIOUS
    <2>r. PICK r : r = <<"wait", c, n + 1>>
      OBVIOUS
    <2>1. /\ current_client' = e /\ heap' = heap \cup ({e.client} \cap HasArgs)
          /\ wait_list' = [wait_list EXCEPT ![c] = Append(@, e)] /\ Lock(e.channel, 1)
      BY <1>2, <1>4, <2>e DEF CacheWait
    <2>2. /\ e \in Entry /\ e.client = stack[1].client /\ e.client \in Clients
          /\ e.channel = current_client.channel /\ (e.copy <=> e.client \in HasArgs)
      <3> DEFINE b == current_client.client \in HasArgs
      <3>1. e = [current_client EXCEPT !.copy = b] /\ b \in BOOLEAN
        BY <2>e DEF Kept
      <3> HIDE DEF b
      <3>2. e \in Entry /\ e.client = current_client.client /\ e.channel = current_client.channel
            /\ e.copy = b /\ e.client \in Clients
        BY <1>2, <3>1 DEF Entry
      <3> QED BY <1>2, <3>2 DEF b
    <2>3. wait_list \in [Caches -> Seq(Entry)] /\ wait_list[c] \in Seq(Entry) /\ n \in Nat
      BY <2>n DEF CaInv, CaTypeOK
    <2>4. /\ wait_list' \in [Caches -> Seq(Entry)]
          /\ \A d \in Caches : d # c => wait_list'[d] = wait_list[d]
          /\ Len(wait_list'[c]) = n + 1 /\ wait_list'[c][n + 1] = e
          /\ \A i \in 1..n : wait_list'[c][i] = wait_list[c][i]
      <3>1. wait_list' = [wait_list EXCEPT ![c] = Append(wait_list[c], e)]
        BY <2>1
      <3>2. /\ Append(wait_list[c], e) \in Seq(Entry) /\ Len(Append(wait_list[c], e)) = n + 1
            /\ Append(wait_list[c], e)[n + 1] = e
            /\ \A i \in 1..n : Append(wait_list[c], e)[i] = wait_list[c][i]
        BY <2>2, <2>3, <2>n, AppendProperties
      <3> QED BY <2>3, <3>1, <3>2
    <2>5. locks' \in [Channels -> Nat] /\ \A ch \in Channels : locks'[ch] = IF ch = e.channel THEN locks[ch] + 1 ELSE locks[ch]
      BY <2>1, CacheAssumption, SMTT(30) DEF Lock, CaInv, CaTypeOK
    <2>6. CaTypeOK'
      <3>1. heap' \subseteq Clients
        BY <2>1, <2>2 DEF CaInv, CaTypeOK
      <3> QED BY <1>1, <1>3, <2>1, <2>2, <2>4, <2>5, <3>1 DEF CaInv, CaTypeOK
    <2>7. ASSUME NEW p
          PROVE  p \in Places' <=> p \in Places \/ p = r
      <3>1. p \in ListsOf(wait_list) <=> \E d \in Caches : \E i \in 1..Len(wait_list[d]) : p = <<"wait", d, i>>
        BY DEF ListsOf
      <3>2. p \in ListsOf(wait_list') <=> \E d \in Caches : \E i \in 1..Len(wait_list'[d]) : p = <<"wait", d, i>>
        BY DEF ListsOf
      <3>3. \A i : i \in 1..Len(wait_list'[c]) <=> i \in 1..Len(wait_list[c]) \/ i = n + 1
        BY <2>3, <2>4, <2>n
      <3>4. p \in ListsOf(wait_list') <=> p \in ListsOf(wait_list) \/ p = r
        BY <2>4, <2>r, <3>1, <3>2, <3>3
      <3> QED BY <1>1, <3>4, PlacesNow, PlacesNext DEF PlacesOf
    <2>8. r \notin Places
      <3>1. n + 1 \notin 1..Len(wait_list[c])
        BY <2>3, <2>n
      <3> QED BY <2>r, <3>1, PlacesNow, PlaceForms
    <2>9. At(r)' = e
      BY <2>4, <2>r, AtForms
    <2>10. ASSUME NEW p \in Places PROVE At(p)' = At(p)
      <3>1. CASE \E d \in Caches : \E i \in 1..Len(wait_list[d]) : p = <<"wait", d, i>>
        BY <2>4, <2>n, <3>1, AtForms
      <3>2. CASE \E j \in 1..Len(later) : \E i \in 1..Len(later[j]) : p = <<"later", j, i>>
        BY <1>1, <3>2, AtForms
      <3>3. CASE \E k \in 1..Len(stack) : \E i \in stack[k].i..stack[k].cnt : p = <<"loop", k, i>>
        <4>1. PICK k, i : p = <<"loop", k, i>>
          BY <3>3
        <4>2. At(p)' = LoopEntry(stack[k], i)' /\ At(p) = LoopEntry(stack[k], i)
          BY <4>1, AtForms
        <4> QED BY <1>1, <4>2 DEF LoopEntry
      <3> QED BY <3>1, <3>2, <3>3, PlacesNow, PlaceForms
    <2>11. ~Reached(stack', r)
      BY <2>r DEF Reached
    <2>12. \A x : Waiting(x)' = IF x = e.client THEN Waiting(x) \cup {r} ELSE Waiting(x)
      <3>1. \A x : Waiting(x)' = {p \in Places' : At(p)'.client = x /\ ~Reached(stack', p)}
        BY <2>6, WaitingFormNext
      <3>2. \A x : Waiting(x) = {p \in Places : At(p).client = x /\ ~Reached(stack, p)}
        BY WaitingForm DEF CaInv
      <3>3. \A p \in Places : Reached(stack', p) <=> Reached(stack, p)
        BY <1>1
      <3>4. ASSUME NEW x, NEW p
            PROVE  p \in Waiting(x)' <=> p \in Waiting(x) \/ (p = r /\ x = e.client)
        <4>1. CASE p = r
          BY <2>7, <2>8, <2>9, <2>11, <3>1, <3>2, <4>1
        <4>2. CASE p # r
          BY <2>7, <2>10, <3>1, <3>2, <3>3, <4>2
        <4> QED BY <4>1, <4>2
      <3> QED BY <3>4
    <2>13. Waiting(e.client) = {} /\ Waiting(e.client)' = {r}
      BY <1>1, <1>2, <1>4, <2>2, <2>12 DEF CaInv, OneFrame
    <2>14. IsFiniteSet(Places')
      <3>1. Places' = Places \cup {r}
        BY <2>7
      <3> QED BY <3>1, FS_AddElement DEF CaInv
    <2>15. Copied'
      BY <2>2, <2>7, <2>9, <2>10 DEF CaInv, Copied
    <2>16. Once'
      BY <2>12, <2>13 DEF CaInv, Once
    <2>17. LocksHeld'
      <3>1. ASSUME NEW ch \in Channels
            PROVE  locks'[ch] = Cardinality({p \in Places' : At(p)'.channel = ch})
        <4> DEFINE A == {p \in Places : At(p).channel = ch}
                   B == {p \in Places' : At(p)'.channel = ch}
        <4>1. IsFiniteSet(A) /\ locks[ch] = Cardinality(A)
          BY FS_Subset DEF CaInv, LocksHeld
        <4>2. r \notin A
          BY <2>8
        <4>3. B = IF ch = e.channel THEN A \cup {r} ELSE A
          BY <2>7, <2>8, <2>9, <2>10
        <4> HIDE DEF A, B
        <4>4. Cardinality(A \cup {r}) = Cardinality(A) + 1
          BY <4>1, <4>2, FS_AddElement
        <4>5. Cardinality(B) = locks'[ch]
          BY <2>5, <4>1, <4>3, <4>4
        <4> QED BY <4>5 DEF B
      <3> QED BY <3>1 DEF LocksHeld
    <2>18. HeapExact'
      <3>1. ASSUME NEW x \in HasArgs
            PROVE  x \in heap' <=> (Waiting(x)' # {} \/ (current_client'.client = x /\ current_client'.copy))
        <4>1. CASE x = e.client
          BY <2>1, <2>13, <4>1
        <4>2. CASE x # e.client
          <5>1. x \in heap <=> Waiting(x) # {}
            BY <1>2, <2>2, <4>2 DEF CaInv, HeapExact
          <5> QED BY <2>1, <2>12, <4>2, <5>1
        <4> QED BY <4>1, <4>2
      <3>2. heap' \subseteq HasArgs
        BY <2>1 DEF CaInv, HeapExact
      <3> QED BY <3>1, <3>2 DEF HeapExact
    <2>19. OneFrame'
      BY <1>1, <1>2, <1>3, <2>1, <2>2, <2>13 DEF CaInv, OneFrame
    <2>20. LaterFull'
      BY <1>1 DEF CaInv, LaterFull
    <2>21. NoneEnds
      BY <1>1, <2>12 DEF NoneEnds, Live
    <2> QED BY <2>6, <2>14, <2>15, <2>16, <2>17, <2>18, <2>19, <2>20, <2>21 DEF CaInv
  <1>5. CASE cache_miss_cnt # 0
    <2>1. UNCHANGED <<current_client, heap, wait_list, locks>>
      BY <1>5 DEF CacheWait
    <2>2. CaTypeOK'
      BY <1>1, <1>3, <2>1 DEF CaInv, CaTypeOK
    <2>3. Places' = Places
      BY <1>1, <2>1 DEF Places, InLists, InLater, InLoops
    <2>4. \A p \in Places : At(p)' = At(p) /\ (Reached(stack', p) <=> Reached(stack, p))
      BY <1>1, <2>1 DEF At, LoopEntry
    <2>5. /\ IsFiniteSet(Places') /\ Copied' /\ LocksHeld' /\ Once'
          /\ \A x : Waiting(x)' = Waiting(x)
      BY <2>1, <2>2, <2>3, <2>4, SamePlaces
    <2>6. OneFrame'
      BY <1>1, <1>3, <1>5, <2>1, <2>5 DEF CaInv, OneFrame
    <2>7. HeapExact' /\ LaterFull'
      BY <1>1, <2>1, <2>5 DEF CaInv, HeapExact, LaterFull
    <2>8. NoneEnds
      BY <1>1, <2>5 DEF NoneEnds, Live
    <2> QED BY <2>2, <2>5, <2>6, <2>7, <2>8 DEF CaInv
  <1> QED BY <1>4, <1>5

\* run_cache_client() has returned: the entry the loop had reached is gone, with its lock,
\* and the copied arguments are freed unless the client waits again.
LEMMA ClientEndsInv ==
    ASSUME CaInv, ClientEnds
    PROVE  /\ CaInv'
           /\ \A x : Live(x) /\ ~Live(x)' => current_client.client = x /\ cache_miss_cnt = 0
  <1>1. stack # <<>> /\ FreeArgs /\ UNCHANGED <<id_cnt, wait_list, wait_list_buf, later>>
    BY DEF ClientEnds
  <1>f. PICK f : f = stack[1]
    OBVIOUS
  <1>2. /\ stack \in Seq(Frame) /\ Len(stack) = 1 /\ stack[1] = f /\ f \in Frame
        /\ Top = f /\ Popped = <<>>
        /\ current_client \in Entry /\ current_client.client = f.client
    BY <1>1, <1>f, TopFrame DEF CaInv, CaTypeOK, OneFrame
  <1>3. f.i \in Nat /\ f.cnt \in Nat /\ f.client \in Clients /\ f.buf \in Seq(Entry)
    BY <1>2 DEF Frame
  <1>4. /\ f.kind = "enter" => f.i = 1 /\ f.cnt = 0
        /\ f.kind # "enter" => f.i \in 1..f.cnt /\ f.cnt <= Len(LoopBuf(f, wait_list_buf))
        /\ cache_miss_cnt = 0 <=> Waiting(f.client) = {}
    BY <1>1, <1>f DEF CaInv, OneFrame
  <1>r. PICK r : r = <<"loop", 1, f.i>>
    OBVIOUS
  <1>5. \A x : Waiting(x) = {p \in Places : At(p).client = x /\ p # r}
    <2>1. \A p \in Places : Reached(stack, p) <=> p = r
      BY <1>2, <1>r, PlacesOne, PlacesNow
    <2> QED BY <2>1, WaitingForm DEF CaInv
  <1>6. heap' \subseteq HasArgs /\ \A x \in HasArgs : x \in heap' <=> Waiting(x) # {}
    BY <1>1, <1>2, <1>4 DEF FreeArgs, CaInv, HeapExact
  <1>7. CASE f.kind = "enter"
    <2>1. /\ locks' = locks /\ current_client' = NoEntry /\ cache_miss_cnt' = 0
          /\ client_exited' = FALSE /\ stack' = <<>>
      BY <1>2, <1>7 DEF ClientEnds, Lock, StartRun
    <2>2. CaTypeOK'
      <3>1. stack' \in Seq(Frame) /\ cache_miss_cnt' \in 0..MaxMiss
        BY <2>1, CacheAssumption
      <3>2. heap' \subseteq Clients
        BY <1>6, CacheAssumption
      <3> QED BY <1>1, <2>1, <3>1, <3>2 DEF CaInv, CaTypeOK
    <2>3. \A p : p \notin LoopsOf(stack) /\ p \notin LoopsOf(stack')
      <3>1. ASSUME NEW p PROVE p \notin LoopsOf(stack)
        <4>1. p \in LoopsOf(stack) <=> \E i \in f.i..f.cnt : p = <<"loop", 1, i>>
          BY <1>2, PlacesOne
        <4>2. \A i : i \notin f.i..f.cnt
          BY <1>4, <1>7
        <4> QED BY <4>1, <4>2
      <3>2. \A p : p \notin LoopsOf(stack')
        BY <2>1 DEF LoopsOf
      <3> QED BY <3>1, <3>2
    <2>4. Places' = Places
      BY <1>1, <2>3, PlacesNow, PlacesNext DEF PlacesOf
    <2>5. \A p \in Places : p[1] # "loop" /\ At(p)' = At(p)
      <3>1. ASSUME NEW p \in Places
            PROVE  \/ \E d \in Caches : \E i \in 1..Len(wait_list[d]) : p = <<"wait", d, i>>
                   \/ \E j \in 1..Len(later) : \E i \in 1..Len(later[j]) : p = <<"later", j, i>>
        BY <2>3, PlacesNow, PlaceForms DEF LoopsOf
      <3> QED BY <1>1, <3>1, AtForms
    <2>6. \A p \in Places : Reached(stack', p) <=> Reached(stack, p)
      BY <2>5 DEF Reached
    <2>7. /\ IsFiniteSet(Places') /\ Copied' /\ LocksHeld' /\ Once'
          /\ \A x : Waiting(x)' = Waiting(x)
      BY <2>1, <2>2, <2>4, <2>5, <2>6, SamePlaces
    <2>8. HeapExact'
      <3>1. NoEntry.copy = FALSE
        BY DEF NoEntry
      <3> QED BY <1>6, <2>1, <2>7, <3>1 DEF HeapExact
    <2>9. OneFrame' /\ LaterFull'
      BY <1>1, <2>1 DEF CaInv, OneFrame, LaterFull
    <2>10. \A x : Live(x) /\ ~Live(x)' => current_client.client = x /\ cache_miss_cnt = 0
      BY <1>2, <1>4, <2>1, <2>7 DEF Live
    <2> QED BY <2>2, <2>7, <2>8, <2>9, <2>10 DEF CaInv
  <1>8. CASE f.kind # "enter"
    <2>1. /\ r \in Places
          /\ \A p : p \in LoopsOf(stack) <=> \E i \in f.i..f.cnt : p = <<"loop", 1, i>>
      <3>1. \A p : p \in LoopsOf(stack) <=> \E i \in f.i..f.cnt : p = <<"loop", 1, i>>
        BY <1>2, PlacesOne
      <3>2. f.i \in f.i..f.cnt
        BY <1>3, <1>4, <1>8
      <3> QED BY <1>r, <3>1, <3>2, PlacesNow DEF PlacesOf
    <2>2. \A i : At(<<"loop", 1, i>>) = LoopEntry(f, i)
      BY <1>2, AtForms
    <2>3. Lock(At(r).channel, -1)
      BY <1>2, <1>8, <1>r, <2>2 DEF ClientEnds
    <2>4. ASSUME CaTypeOK', Places' = Places \ {r}, \A p \in Places' : At(p)' = At(p)
          PROVE  IsFiniteSet(Places') /\ Copied' /\ LocksHeld'
      <3>1. IsFiniteSet(Places')
        BY <2>4, FS_Subset DEF CaInv
      <3>2. Copied'
        BY <2>4 DEF CaInv, Copied
      <3>3. ASSUME NEW ch \in Channels
            PROVE  locks'[ch] = Cardinality({p \in Places' : At(p)'.channel = ch})
        <4> DEFINE A == {p \in Places : At(p).channel = ch}
                   B == {p \in Places' : At(p)'.channel = ch}
        <4>1. IsFiniteSet(A) /\ locks[ch] = Cardinality(A)
          BY FS_Subset DEF CaInv, LocksHeld
        <4>2. B = A \ {r} /\ (r \in A <=> At(r).channel = ch)
          BY <2>1, <2>4
        <4>3. locks'[ch] = IF At(r).channel = ch THEN locks[ch] - 1 ELSE locks[ch]
          BY <2>3, CacheAssumption DEF Lock, CaInv, CaTypeOK
        <4> HIDE DEF A, B
        <4>4. Cardinality(A \ {r}) = IF r \in A THEN Cardinality(A) - 1 ELSE Cardinality(A)
          BY <4>1, FS_RemoveElement
        <4>5. Cardinality(B) = locks'[ch]
          BY <4>1, <4>2, <4>3, <4>4
        <4> QED BY <4>5 DEF B
      <3>4. LocksHeld'
        BY <3>3 DEF LocksHeld
      <3> QED BY <3>1, <3>2, <3>4
    <2>5. locks' \in [Channels -> Nat]
      <3>1. ASSUME NEW ch \in Channels, ch = At(r).channel PROVE locks[ch] \in Nat /\ locks[ch] > 0
        <4> DEFINE A == {p \in Places : At(p).channel = ch}
        <4>1. IsFiniteSet(A) /\ r \in A
          BY <2>1, <3>1, FS_Subset DEF CaInv
        <4>2. locks[ch] = Cardinality(A)
          BY DEF CaInv, LocksHeld
        <4> HIDE DEF A
        <4>3. Cardinality(A) \in Nat /\ Cardinality(A) # 0
          BY <4>1, FS_CardinalityType, FS_EmptySet
        <4> QED BY <4>2, <4>3
      <3>2. locks \in [Channels -> Nat] /\ (At(r).channel = NoChannel \/ At(r).channel \in Channels)
        BY <2>1, AtType DEF CaInv, CaTypeOK, Entry
      <3> QED BY <2>3, <3>1, <3>2 DEF Lock
    <2>6. heap' \subseteq Clients
      BY <1>6, CacheAssumption
    <2>7. CASE ~(f.i < f.cnt)
      <3>1. /\ current_client' = NoEntry /\ cache_miss_cnt' = 0
            /\ client_exited' = FALSE /\ stack' = <<>>
        BY <1>2, <2>7 DEF ClientEnds, StartRun
      <3>2. CaTypeOK'
        <4>1. stack' \in Seq(Frame) /\ cache_miss_cnt' \in 0..MaxMiss
          BY <3>1, CacheAssumption
        <4> QED BY <1>1, <2>5, <2>6, <3>1, <4>1 DEF CaInv, CaTypeOK
      <3>3. Places' = Places \ {r}
        <4>1. \A p : p \notin LoopsOf(stack')
          BY <3>1 DEF LoopsOf
        <4>2. f.i = f.cnt
          BY <1>3, <1>4, <1>8, <2>7
        <4>3. \A p : p \in LoopsOf(stack) <=> p = r
          BY <1>3, <1>r, <2>1, <4>2
        <4>4. r \notin ListsOf(wait_list) /\ r \notin LatersOf(later)
          BY <1>r DEF ListsOf, LatersOf
        <4> QED BY <1>1, <4>1, <4>3, <4>4, PlacesNow, PlacesNext DEF PlacesOf
      <3>4. ASSUME NEW p \in Places' PROVE p[1] # "loop" /\ At(p)' = At(p)
        <4>1. \/ \E d \in Caches : \E i \in 1..Len(wait_list[d]) : p = <<"wait", d, i>>
              \/ \E j \in 1..Len(later) : \E i \in 1..Len(later[j]) : p = <<"later", j, i>>
          BY <1>1, <3>1, PlacesNext, PlaceForms
        <4> QED BY <1>1, <4>1, AtForms
      <3>5. \A x : Waiting(x)' = Waiting(x)
        <4>1. \A p \in Places' : ~Reached(stack', p)
          BY <3>4 DEF Reached
        <4>2. \A x : Waiting(x)' = {p \in Places' : At(p)'.client = x}
          BY <3>2, <4>1, WaitingFormNext
        <4> QED BY <1>5, <3>3, <3>4, <4>2
      <3>6. Once' /\ LaterFull' /\ OneFrame'
        BY <1>1, <3>1, <3>5 DEF CaInv, Once, LaterFull, OneFrame
      <3>7. HeapExact'
        <4>1. NoEntry.copy = FALSE
          BY DEF NoEntry
        <4> QED BY <1>6, <3>1, <3>5, <4>1 DEF HeapExact
      <3>8. \A x : Live(x) /\ ~Live(x)' => current_client.client = x /\ cache_miss_cnt = 0
        BY <1>2, <1>4, <3>1, <3>5 DEF Live
      <3> QED BY <2>4, <3>2, <3>3, <3>4, <3>6, <3>7, <3>8 DEF CaInv
    <2>8. CASE f.i < f.cnt
      <3>s. PICK s : s = <<"loop", 1, f.i + 1>>
        OBVIOUS
      <3>e. PICK e : e = LoopEntry(f, f.i + 1)
        OBVIOUS
      <3>g. PICK g : g = [f EXCEPT !.i = @ + 1, !.client = e.client, !.exited = FALSE]
        OBVIOUS
      <3>1. s \in Places /\ At(s) = e /\ s # r
        <4>1. f.i + 1 \in f.i..f.cnt /\ f.i + 1 # f.i
          BY <1>3, <2>8
        <4>2. s \in LoopsOf(stack)
          BY <2>1, <3>s, <4>1
        <4> QED BY <1>r, <2>2, <3>s, <3>e, <4>1, <4>2, PlacesNow DEF PlacesOf
      <3>2. e \in Entry /\ e.client \in Clients
        BY <3>1, AtType DEF CaInv, Entry
      <3>3. /\ g \in Frame /\ g.kind = f.kind /\ g.i = f.i + 1 /\ g.cnt = f.cnt /\ g.buf = f.buf
            /\ g.client = e.client
        <4>1. g = [f EXCEPT !.i = f.i + 1, !.client = e.client, !.exited = FALSE]
          BY <1>2, <3>g DEF Frame
        <4>2. f.i + 1 \in Nat
          BY <1>3
        <4> QED BY <1>2, <3>2, <4>1, <4>2 DEF Frame
      <3>4. StartRun(e) /\ stack' = <<g>>
        <4>1. StartRun(e) /\ stack' = Append(<<>>, g)
          BY <1>2, <1>8, <2>8, <3>e, <3>g DEF ClientEnds
        <4> QED BY <4>1
      <3>5. stack' \in Seq(Frame) /\ Len(stack') = 1 /\ stack'[1] = g
        BY <3>3, <3>4, SingleFrame
      <3>6. /\ current_client' = e /\ current_client' \in Entry /\ cache_miss_cnt' = 0
            /\ cache_miss_cnt' \in 0..MaxMiss /\ client_exited' \in BOOLEAN
        BY <3>2, <3>4, StartRunType
      <3>7. CaTypeOK'
        BY <1>1, <2>5, <2>6, <3>5, <3>6 DEF CaInv, CaTypeOK
      <3>8. ASSUME NEW p PROVE p \in LoopsOf(stack') <=> p \in LoopsOf(stack) /\ p # r
        <4>1. p \in LoopsOf(stack') <=> \E i \in (f.i + 1)..f.cnt : p = <<"loop", 1, i>>
          BY <3>3, <3>5, PlacesOne
        <4>2. \A i : i \in (f.i + 1)..f.cnt <=> i \in f.i..f.cnt /\ i # f.i
          BY <1>3
        <4>3. \A i : <<"loop", 1, i>> = r <=> i = f.i
          BY <1>r
        <4> QED BY <2>1, <4>1, <4>2, <4>3
      <3>9. Places' = Places \ {r}
        <4>1. r \notin ListsOf(wait_list) /\ r \notin LatersOf(later)
          BY <1>r DEF ListsOf, LatersOf
        <4> QED BY <1>1, <3>8, <4>1, PlacesNow, PlacesNext DEF PlacesOf
      <3>10. ASSUME NEW p \in Places' PROVE At(p)' = At(p)
        <4>1. \A i : LoopEntry(stack[1], i)' = LoopEntry(f, i)
          BY <1>1, <3>3, <3>5 DEF LoopEntry
        <4>2. CASE p \in LoopsOf(stack')
          <5>1. PICK i : p = <<"loop", 1, i>>
            BY <3>5, <4>2, PlacesOne
          <5> QED BY <2>2, <4>1, <5>1, AtForms
        <4>3. CASE p \notin LoopsOf(stack')
          <5>1. \/ \E d \in Caches : \E i \in 1..Len(wait_list[d]) : p = <<"wait", d, i>>
                \/ \E j \in 1..Len(later) : \E i \in 1..Len(later[j]) : p = <<"later", j, i>>
            BY <1>1, <4>3, PlacesNext, PlaceForms DEF LoopsOf
          <5> QED BY <1>1, <5>1, AtForms
        <4> QED BY <4>2, <4>3
      <3>11. \A x : Waiting(x)' = Waiting(x) \ {s}
        <4>1. \A p \in Places' : Reached(stack', p) <=> p = s
          BY <3>3, <3>5, <3>s, PlacesOne, PlacesNext
        <4>2. \A x : Waiting(x)' = {p \in Places' : At(p)'.client = x /\ p # s}
          BY <3>7, <4>1, WaitingFormNext
        <4> QED BY <1>5, <3>9, <3>10, <4>2
      <3>12. s \in Waiting(e.client) /\ Waiting(e.client)' = {}
        <4>1. s \in Waiting(e.client)
          BY <1>5, <3>1
        <4> QED BY <3>2, <3>11, <4>1 DEF CaInv, Once
      <3>13. \A x : x # e.client => Waiting(x)' = Waiting(x)
        BY <1>5, <3>1, <3>11
      <3>14. Once' /\ LaterFull'
        BY <1>1, <3>11 DEF CaInv, Once, LaterFull
      <3>15. e.copy <=> e.client \in HasArgs
        BY <3>1 DEF CaInv, Copied
      <3>16. HeapExact'
        BY <1>6, <3>6, <3>12, <3>13, <3>15 DEF HeapExact
      <3>17. OneFrame'
        <4>1. stack' # <<>> /\ Len(stack') <= 1
          BY <3>5
        <4>2. g.i \in 1..g.cnt /\ g.kind # "enter"
          BY <1>3, <1>8, <2>8, <3>3
        <4>3. g.cnt <= Len(LoopBuf(g, wait_list_buf'))
          BY <1>1, <1>4, <1>8, <3>3 DEF LoopBuf
        <4> QED BY <3>3, <3>5, <3>6, <3>12, <3>15, <4>1, <4>2, <4>3 DEF OneFrame
      <3>18. \A x : Live(x) /\ ~Live(x)' => current_client.client = x /\ cache_miss_cnt = 0
        <4>1. stack' # <<>>
          BY <3>5
        <4> QED BY <1>2, <1>4, <3>3, <3>5, <3>13, <4>1 DEF Live
      <3> QED BY <2>4, <3>7, <3>9, <3>10, <3>14, <3>16, <3>17, <3>18 DEF CaInv
    <2> QED BY <2>7, <2>8
  <1> QED BY <1>7, <1>8

-----------------------------------------------------------------------------
(***************************************************************************)
(* The theorems                                                            *)
(***************************************************************************)

LEMMA CaInitInv ==
    ASSUME CaInit
    PROVE  CaInv
  <1>1. CaTypeOK
    <2>1. <<>> \in Seq(Entry) /\ <<>> \in Seq(Seq(Entry)) /\ <<>> \in Seq(Frame)
      OBVIOUS
    <2>2. 0 \in 0..MaxMiss /\ 0 \in 0..IdMod - 1
      BY CacheAssumption
    <2> QED BY <2>1, <2>2 DEF CaInit, CaTypeOK
  <1>2. Places = {}
    <2>1. ASSUME NEW p PROVE p \notin Places
      <3>1. \A c \in Caches : Len(wait_list[c]) = 0
        BY DEF CaInit
      <3>2. Len(later) = 0 /\ Len(stack) = 0
        BY DEF CaInit
      <3> QED BY <3>1, <3>2, PlacesNow, PlaceForms
    <2> QED BY <2>1
  <1>3. \A cl : Waiting(cl) = {}
    BY <1>2 DEF Waiting
  <1>4. IsFiniteSet(Places)
    BY <1>2, FS_EmptySet
  <1>5. LocksHeld
    <2>1. ASSUME NEW ch \in Channels
          PROVE  locks[ch] = Cardinality({p \in Places : At(p).channel = ch})
      <3>1. {p \in Places : At(p).channel = ch} = {}
        BY <1>2
      <3>2. Cardinality({}) = 0
        BY FS_EmptySet
      <3>3. locks[ch] = 0
        BY DEF CaInit
      <3> QED BY <3>1, <3>2, <3>3
    <2> QED BY <2>1 DEF LocksHeld
  <1>6. HeapExact
    <2>1. NoEntry.copy = FALSE
      BY DEF NoEntry
    <2> QED BY <1>3, <2>1 DEF CaInit, HeapExact
  <1>7. OneFrame /\ LaterFull /\ Copied /\ Once
    BY <1>2, <1>3 DEF CaInit, OneFrame, LaterFull, Copied, Once
  <1> QED BY <1>1, <1>4, <1>5, <1>6, <1>7 DEF CaInv

\* Every step keeps the invariant, and only a client that has missed nothing ends.
LEMMA CaStep ==
    ASSUME CaInv, Nests = {}, [CaNext]_cavars
    PROVE  /\ CaInv'
           /\ \A x : Live(x) /\ ~Live(x)' => current_client.client = x /\ cache_miss_cnt = 0
  <1>1. ASSUME CaInv' /\ NoneEnds
        PROVE  /\ CaInv'
               /\ \A x : Live(x) /\ ~Live(x)' => current_client.client = x /\ cache_miss_cnt = 0
    BY <1>1 DEF NoneEnds
  <1>2. ASSUME NEW cl \in Clients, NEW ch \in Channels \cup {NoChannel}, CacheEnter(cl, ch)
        PROVE  CaInv' /\ NoneEnds
    BY <1>2, CacheEnterInv
  <1>3. CASE CacheExit
    BY <1>1, <1>3, CacheExitInv
  <1>4. CASE ClientEnds
    BY <1>4, ClientEndsInv
  <1>5. CASE CacheNotifyEvent
    BY <1>1, <1>5, CacheNotifyEventInv
  <1>6. ASSUME NEW c \in Caches, CacheWait(c)
        PROVE  CaInv' /\ NoneEnds
    BY <1>6, CacheWaitInv
  <1>7. ASSUME NEW c \in Caches, CacheNotify(c)
        PROVE  CaInv' /\ NoneEnds
    BY <1>7, CacheNotifyInv
  <1>8. ASSUME NEW c \in Caches, CacheNotifyLater(c)
        PROVE  CaInv' /\ NoneEnds
    BY <1>8, CacheNotifyLaterInv
  <1>9. CASE UNCHANGED cavars
    <2>1. Places' = Places /\ \A p : At(p)' = At(p)
      BY <1>9 DEF cavars, Places, InLists, InLater, InLoops, At, LoopEntry
    <2>2. \A x : Waiting(x)' = Waiting(x)
      BY <1>9, <2>1 DEF cavars, Waiting, InLoops
    <2>3. NoneEnds
      BY <1>9, <2>2 DEF cavars, NoneEnds, Live
    <2>4. CaTypeOK' /\ OneFrame' /\ LaterFull' /\ HeapExact' /\ Once'
      BY <1>9, <2>2 DEF cavars, CaInv, CaTypeOK, OneFrame, LaterFull, HeapExact, Once
    <2>5. Copied' /\ LocksHeld' /\ IsFiniteSet(Places')
      BY <1>9, <2>1 DEF cavars, CaInv, Copied, LocksHeld
    <2> QED BY <1>1, <2>3, <2>4, <2>5 DEF CaInv
  <1> QED BY <1>1, <1>2, <1>3, <1>4, <1>5, <1>6, <1>7, <1>8, <1>9 DEF CaNext

\* The invariant is inductive: it holds of cache.c as long as no client calls
\* cache_notify() from inside its own run.
THEOREM CaInvCorrect == ASSUME Nests = {} PROVE CaSpec => []CaInv
  <1>1. CaInit => CaInv
    BY CaInitInv
  <1>2. CaInv /\ [CaNext]_cavars => CaInv'
    BY CaStep
  <1> QED BY <1>1, <1>2, PTL DEF CaSpec

\* Set by cache_wait(), released by run_cache_client() and the notify loops: a channel is
\* locked once per waiting entry, a client waits once, and exactly the clients that wait
\* or run after waiting own a copy of their arguments.
THEOREM WaitersExactCorrect == ASSUME Nests = {} PROVE CaSpec => []WaitersExact
  <1>1. ASSUME CaInv PROVE WaitersExact
    <2>1. ASSUME NEW cl \in Clients PROVE Cardinality(Waiting(cl)) <= 1
      <3>1. CASE Waiting(cl) = {}
        <4>1. Cardinality({}) = 0
          BY FS_EmptySet
        <4> QED BY <3>1, <4>1
      <3>2. CASE Waiting(cl) # {}
        <4>1. PICK p : p \in Waiting(cl)
          BY <3>2
        <4>2. Waiting(cl) = {p}
          BY <1>1, <4>1 DEF CaInv, Once
        <4>3. Cardinality({p}) = 1
          BY FS_Singleton
        <4> QED BY <4>2, <4>3
      <3> QED BY <3>1, <3>2
    <2> QED BY <1>1, <2>1 DEF CaInv, WaitersExact, ArgsOwned, HeapExact
  <1> QED BY <1>1, CaInvCorrect, PTL

\* A transaction ends only in run_cache_client(), in a run of its client that had no cache
\* miss: no sequence of waits, notifications and exits drops a client.
THEOREM NoLostClientCorrect == ASSUME Nests = {} PROVE CaSpec => NoLostClient
  <1>1. ASSUME CaInv, CaInv', [CaNext]_cavars
        PROVE  \A cl \in Clients : Outstanding(cl) /\ ~Outstanding(cl)' =>
                   current_client.client = cl /\ cache_miss_cnt = 0
    <2>1. \A cl : Outstanding(cl) <=> Live(cl)
      BY <1>1, LiveForm
    <2>2. \A cl : Outstanding(cl)' <=> Live(cl)'
      BY <1>1, LiveFormNext
    <2> QED BY <1>1, <2>1, <2>2, CaStep
  <1> QED BY <1>1, CaInvCorrect, PTL DEF CaSpec, NoLostClient

=============================================================================

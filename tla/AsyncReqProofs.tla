--------------------------- MODULE AsyncReqProofs ---------------------------
(***************************************************************************)
(* Proofs about Shutdown, for any set of ShutdownInfo objects, and about   *)
(* AsyncReq, which uses it, for any number of workers, requests and other  *)
(* subsystems and any limit on the idle workers.                           *)
(***************************************************************************)
EXTENDS AsyncReq, SequenceTheorems, FiniteSetTheorems, TLAPS

-----------------------------------------------------------------------------
(***************************************************************************)
(* Shutdown, for any set of ShutdownInfo objects                           *)
(***************************************************************************)
-----------------------------------------------------------------------------
(***************************************************************************)
(* The list                                                                *)
(***************************************************************************)

Members(q) == {q[i] : i \in 1..Len(q)}

Distinct(q) == \A i, j \in 1..Len(q) : q[i] = q[j] => i = j

\* The list without its i-th link.
Cut(q, i) == SubSeq(q, 1, i - 1) \o SubSeq(q, i + 1, Len(q))

\* What a list looks like when its i-th link has been taken out.
LEMMA CutIsSeq ==
    ASSUME NEW S, NEW q \in Seq(S), NEW i \in 1..Len(q)
    PROVE  /\ Cut(q, i) \in Seq(S)
           /\ Len(Cut(q, i)) = Len(q) - 1
           /\ \A j \in 1..(Len(q) - 1) : Cut(q, i)[j] = IF j < i THEN q[j] ELSE q[j + 1]
  <1> DEFINE a == SubSeq(q, 1, i - 1)
             c == SubSeq(q, i + 1, Len(q))
             r == a \o c
  <1>1. /\ a \in Seq(S) /\ Len(a) = i - 1
        /\ \A j \in 1..(i - 1) : a[j] = q[j]
    BY SubSeqProperties, Z3
  <1>2. /\ c \in Seq(S) /\ Len(c) = Len(q) - i
        /\ \A j \in 1..(Len(q) - i) : c[j] = q[i + j]
    BY SubSeqProperties, Z3
  <1>3. Cut(q, i) = r
    BY DEF Cut
  <1> HIDE DEF a, c
  <1>4. /\ r \in Seq(S) /\ Len(r) = Len(a) + Len(c)
        /\ \A j \in 1..(Len(a) + Len(c)) :
             r[j] = IF j <= Len(a) THEN a[j] ELSE c[j - Len(a)]
    BY <1>1, <1>2, ConcatProperties, Zenon
  <1> HIDE DEF r
  <1>5. /\ Len(r) = Len(q) - 1
        /\ \A j \in 1..(Len(q) - 1) : r[j] = IF j <= i - 1 THEN a[j] ELSE c[j - (i - 1)]
    BY <1>1, <1>2, <1>4, SMTT(20)
  <1> QED BY <1>1, <1>2, <1>3, <1>4, <1>5

\* list_remove() takes out the object it is given and nothing else.
LEMMA UnlinkMembers ==
    ASSUME NEW S, NEW q \in Seq(S), NEW o, Distinct(q)
    PROVE  /\ Unlink(q, o) \in Seq(S)
           /\ Members(Unlink(q, o)) = Members(q) \ {o}
           /\ Distinct(Unlink(q, o))
           /\ Len(Unlink(q, o)) <= Len(q)
  <1>1. CASE \A k \in 1..Len(q) : q[k] # o
    <2>1. Unlink(q, o) = q
      BY <1>1 DEF Unlink
    <2> QED BY <1>1, <2>1 DEF Members
  <1>2. CASE ~ \A k \in 1..Len(q) : q[k] # o
    <2> DEFINE i == CHOOSE k \in 1..Len(q) : q[k] = o
               r == Cut(q, i)
    <2>1. i \in 1..Len(q) /\ q[i] = o
      BY <1>2
    <2>2. Unlink(q, o) = r
      BY <1>2 DEF Unlink, Cut
    <2> HIDE DEF i
    <2>3. /\ r \in Seq(S)
          /\ Len(r) = Len(q) - 1
          /\ \A j \in 1..(Len(q) - 1) : r[j] = IF j < i THEN q[j] ELSE q[j + 1]
      BY <2>1, CutIsSeq, Zenon
    <2> HIDE DEF r
    <2>4. Distinct(r)
      BY <2>1, <2>3 DEF Distinct
    <2>5. ASSUME NEW x \in Members(r) PROVE x \in Members(q) \ {o}
      BY <2>1, <2>3, <2>5 DEF Members, Distinct
    <2>6. ASSUME NEW x \in Members(q) \ {o} PROVE x \in Members(r)
      <3>1. PICK k \in 1..Len(q) : q[k] = x
        BY <2>6 DEF Members
      <3>2. k # i
        BY <2>1, <2>6, <3>1
      <3>3. CASE k < i
        <4>1. k \in 1..Len(r) /\ r[k] = x
          BY <2>1, <2>3, <3>1, <3>3
        <4> QED BY <4>1 DEF Members
      <3>4. CASE k > i
        <4>1. k - 1 \in 1..Len(r) /\ r[k - 1] = x
          BY <2>1, <2>3, <3>1, <3>4
        <4> QED BY <4>1 DEF Members
      <3> QED BY <2>1, <3>1, <3>2, <3>3, <3>4
    <2>7. Len(r) <= Len(q)
      BY <2>3
    <2> QED BY <2>2, <2>3, <2>4, <2>5, <2>6, <2>7
  <1> QED BY <1>1, <1>2

\* A new object at the end of the list.
LEMMA AppendMembers ==
    ASSUME NEW S, NEW q \in Seq(S), NEW o \in S
    PROVE  /\ Append(q, o) \in Seq(S)
           /\ Members(Append(q, o)) = Members(q) \cup {o}
           /\ Distinct(q) /\ o \notin Members(q) => Distinct(Append(q, o))
  <1> DEFINE r == Append(q, o)
  <1>1. /\ r \in Seq(S) /\ Len(r) = Len(q) + 1 /\ r[Len(q) + 1] = o
        /\ \A i \in 1..Len(q) : r[i] = q[i]
    BY AppendProperties
  <1> HIDE DEF r
  <1>2. ASSUME NEW x \in Members(r) PROVE x \in Members(q) \cup {o}
    BY <1>1, <1>2 DEF Members
  <1>3. ASSUME NEW x \in Members(q) \cup {o} PROVE x \in Members(r)
    <2>1. CASE x = o
      <3>1. Len(q) + 1 \in 1..Len(r) /\ r[Len(q) + 1] = x
        BY <1>1, <2>1
      <3> QED BY <3>1 DEF Members
    <2>2. CASE x \in Members(q)
      <3>1. PICK k \in 1..Len(q) : q[k] = x
        BY <2>2 DEF Members
      <3>2. k \in 1..Len(r) /\ r[k] = x
        BY <1>1, <3>1
      <3> QED BY <3>2 DEF Members
    <2> QED BY <1>3, <2>1, <2>2
  <1>4. Distinct(q) /\ o \notin Members(q) => Distinct(r)
    BY <1>1 DEF Distinct, Members
  <1> QED BY <1>1, <1>2, <1>3, <1>4 DEF r

-----------------------------------------------------------------------------
(***************************************************************************)
(* The invariant                                                           *)
(***************************************************************************)

\* Some object will report, or has asked for another notification.
Reporter == \E o \in Objs : state[o] = "PENDING" \/ (o \in Renewable /\ state[o] = "NORMAL")

\* Where notify_all() is: the walk never returns to the object it calls back, it runs only
\* during a shutdown, and it ends with a reporter or with another notify_all on its way.
Walk ==
    /\ sdpc = "callback" => cur \in Objs /\ next # cur
    /\ notify_pending \/ sdpc # "loop" => shutdown_complete_handler
    /\ sdpc \in {"notify", "callback"} /\ ~notify_pending => next # NoObj \/ Reporter
    /\ sdpc = "stopped" => shutdown_active = <<>>

SdInv == NotificationsExact /\ Walk

\* The set of the registered objects is the set of the list's members.
LEMMA ActiveMembers == Active = Members(shutdown_active)
  BY DEF Active, Members

LEMMA SdInitInv == SdInit => SdInv
  <1> SUFFICES ASSUME SdInit PROVE SdInv
    OBVIOUS
  <1> USE DEF SdInit
  <1>1. SdTypeOK
    <2>1. state \in [Objs -> States] /\ shutdown_active \in Seq(Objs)
      BY DEF States
    <2> QED BY <2>1 DEF SdTypeOK
  <1>2. ActiveList
    BY DEF ActiveList, Active
  <1>3. OneNotification /\ NotForgotten /\ Walk
    BY DEF OneNotification, NotForgotten, Walk
  <1> QED BY <1>1, <1>2, <1>3 DEF SdInv, NotificationsExact

\* shutdown_start(): nothing but the first notify_all is new.
LEMMA ShutdownStartInv == SdInv /\ ShutdownStart => SdInv'
  <1> SUFFICES ASSUME SdInv, ShutdownStart PROVE SdInv'
    OBVIOUS
  <1> USE DEF SdInv, NotificationsExact, ShutdownStart
  <1>1. SdTypeOK'
    BY DEF SdTypeOK
  <1>2. ActiveList'
    BY DEF ActiveList, Active
  <1>3. OneNotification' /\ NotForgotten' /\ Walk'
    BY DEF OneNotification, NotForgotten, Walk, SdTypeOK
  <1> QED BY <1>1, <1>2, <1>3

\* The steps of notify_all() leave the list alone, and at most one object becomes PENDING.
LEMMA NotifyAllInv == SdInv /\ NotifyAll => SdInv'
  <1> SUFFICES ASSUME SdInv, NotifyAll PROVE SdInv'
    OBVIOUS
  <1> USE DEF SdInv, NotificationsExact, NotifyAll
  <1>1. ASSUME shutdown_active # <<>>
        PROVE  Head(shutdown_active) \in Objs /\ Head(shutdown_active) \in Active
    <2>1. /\ Head(shutdown_active) = shutdown_active[1]
          /\ 1 \in 1..Len(shutdown_active)
      BY <1>1 DEF SdTypeOK
    <2> QED BY <2>1 DEF SdTypeOK, Active
  <1>2. SdTypeOK'
    <2>1. notify_events' \in Nat
      BY DEF SdTypeOK
    <2>2. sdpc' \in {"loop", "notify", "callback", "stopped"} /\ next' \in Objs \cup {NoObj}
      BY <1>1 DEF SdTypeOK
    <2> QED BY <2>1, <2>2 DEF SdTypeOK
  <1>3. ActiveList'
    BY <1>1 DEF ActiveList, Active
  <1>4. OneNotification' /\ NotForgotten'
    BY DEF OneNotification, NotForgotten, SdTypeOK
  <1>5. Walk'
    BY <1>1, ShutdownAssumption DEF Walk, OneNotification, SdTypeOK
  <1> QED BY <1>2, <1>3, <1>4, <1>5

LEMMA NotifyOneInv == SdInv /\ NotifyOne => SdInv'
  <1> SUFFICES ASSUME SdInv, NotifyOne PROVE SdInv'
    OBVIOUS
  <1> USE DEF SdInv, NotificationsExact, NotifyOne
  <1>1. next \in Objs /\ next \in Active /\ state[next] # "STOPPED"
    BY DEF SdTypeOK, ActiveList
  <1>2. next' \in Objs \cup {NoObj} /\ Follower(next, next')
    OBVIOUS
  <1>3. next' # next /\ (next' # NoObj => next' \in Active)
    <2>1. PICK i \in 1..Len(shutdown_active) :
            /\ shutdown_active[i] = next
            /\ next' = IF i = Len(shutdown_active) THEN NoObj ELSE shutdown_active[i + 1]
      BY <1>2 DEF Follower
    <2>2. CASE i = Len(shutdown_active)
      BY <1>1, <2>1, <2>2, ShutdownAssumption
    <2>3. CASE i # Len(shutdown_active)
      <3>1. i + 1 \in 1..Len(shutdown_active) /\ next' = shutdown_active[i + 1]
        BY <2>1, <2>3 DEF SdTypeOK
      <3> QED BY <2>1, <3>1 DEF ActiveList, Active
    <2> QED BY <2>2, <2>3
  <1>4. SdTypeOK'
    BY <1>1, <1>2 DEF SdTypeOK, States
  <1>5. \A o \in Objs : state'[o] = "STOPPED" <=> state[o] = "STOPPED"
    BY <1>1 DEF SdTypeOK
  <1>6. ActiveList'
    BY <1>3, <1>5 DEF ActiveList, Active
  <1>7. Reporter'
    BY <1>1 DEF Reporter, SdTypeOK, States
  <1>8. OneNotification' /\ NotForgotten'
    BY <1>7 DEF OneNotification, NotForgotten, Reporter
  <1>9. Walk'
    BY <1>1, <1>3, <1>7 DEF Walk
  <1> QED BY <1>4, <1>6, <1>8, <1>9

LEMMA CallbackReturnInv == SdInv /\ CallbackReturn => SdInv'
  <1> SUFFICES ASSUME SdInv, CallbackReturn PROVE SdInv'
    OBVIOUS
  <1> USE DEF SdInv, NotificationsExact, CallbackReturn
  <1>1. SdTypeOK'
    BY DEF SdTypeOK
  <1>2. ActiveList'
    BY DEF ActiveList, Active
  <1>3. OneNotification' /\ NotForgotten' /\ Walk'
    BY DEF OneNotification, NotForgotten, Walk, Reporter
  <1> QED BY <1>1, <1>2, <1>3

LEMMA NotifyDoneInv == SdInv /\ NotifyDone => SdInv'
  <1> SUFFICES ASSUME SdInv, NotifyDone PROVE SdInv'
    OBVIOUS
  <1> USE DEF SdInv, NotificationsExact, NotifyDone
  <1>1. SdTypeOK'
    BY DEF SdTypeOK
  <1>2. ActiveList'
    BY DEF ActiveList, Active
  <1>3. OneNotification' /\ NotForgotten' /\ Walk'
    BY DEF OneNotification, NotForgotten, Walk, Reporter
  <1> QED BY <1>1, <1>2, <1>3

\* shutdown_set_normal(): an object that was STOPPED joins the end of the list; one that
\* was PENDING stays where it is, and is renewable.
LEMMA RegisterInv == ASSUME NEW o \in Objs PROVE SdInv /\ Register(o) => SdInv'
  <1> SUFFICES ASSUME SdInv, Register(o) PROVE SdInv'
    OBVIOUS
  <1> USE DEF SdInv, NotificationsExact, Register, SetNormal
  <1>1. /\ shutdown_active' \in Seq(Objs)
        /\ Members(shutdown_active') = Members(shutdown_active) \cup {o}
        /\ Distinct(shutdown_active')
    <2>1. shutdown_active \in Seq(Objs) /\ Distinct(shutdown_active)
      BY DEF SdTypeOK, ActiveList, Distinct
    <2>2. o \in Members(shutdown_active) <=> state[o] # "STOPPED"
      BY ActiveMembers DEF ActiveList
    <2>3. CASE state[o] = "STOPPED"
      BY <2>1, <2>2, <2>3, AppendMembers
    <2>4. CASE state[o] # "STOPPED"
      BY <2>1, <2>2, <2>4
    <2> QED BY <2>3, <2>4
  <1>2. Active' = Active \cup {o}
    BY <1>1, ActiveMembers DEF Active, Members
  <1>3. SdTypeOK'
    BY <1>1 DEF SdTypeOK, States
  <1>4. ActiveList'
    <2>1. \A x \in Objs : x \in Active' <=> state'[x] # "STOPPED"
      BY <1>2 DEF ActiveList, SdTypeOK
    <2> QED BY <1>1, <1>2, <2>1 DEF ActiveList, Distinct
  <1>5. Reporter => Reporter'
    BY DEF Reporter, SdTypeOK
  <1>6. OneNotification' /\ NotForgotten'
    BY <1>5 DEF OneNotification, NotForgotten, Reporter
  <1>7. Walk'
    BY <1>5 DEF Walk
  <1> QED BY <1>3, <1>4, <1>6, <1>7

\* shutdown_set_stopped(): the object leaves the list, the cursor is not on it, and
\* during a shutdown another notify_all is on its way.
LEMMA StopInv == ASSUME NEW o \in Objs PROVE SdInv /\ Stop(o) => SdInv'
  <1> SUFFICES ASSUME SdInv, Stop(o) PROVE SdInv'
    OBVIOUS
  <1> USE DEF SdInv, NotificationsExact, Stop, SetStopped
  <1>1. /\ shutdown_active' \in Seq(Objs)
        /\ Members(shutdown_active') = Members(shutdown_active) \ {o}
        /\ Distinct(shutdown_active')
    <2>1. shutdown_active \in Seq(Objs) /\ Distinct(shutdown_active)
      BY DEF SdTypeOK, ActiveList, Distinct
    <2> QED BY <2>1, UnlinkMembers
  <1>2. Active' = Active \ {o}
    BY <1>1, ActiveMembers DEF Active, Members
  <1>3. SdTypeOK'
    <2>1. state' \in [Objs -> States]
      BY DEF SdTypeOK, States
    <2>2. notify_pending' \in BOOLEAN
      BY Zenon DEF SdTypeOK
    <2>3. notify_events' \in Nat
      BY DEF SdTypeOK
    <2> QED BY <1>1, <2>1, <2>2, <2>3 DEF SdTypeOK
  <1>4. ActiveList'
    <2>1. \A x \in Objs : x \in Active' <=> state'[x] # "STOPPED"
      BY <1>2 DEF ActiveList, SdTypeOK
    <2>2. sdpc \in {"notify", "callback"} /\ next # NoObj => next \in Active'
      BY <1>2 DEF ActiveList, Walk
    <2> QED BY <1>1, <2>1, <2>2 DEF ActiveList, Distinct
  <1>5. OneNotification' /\ (shutdown_complete_handler => notify_pending')
    BY DEF OneNotification, SdTypeOK
  <1>6. NotForgotten' /\ Walk'
    BY <1>5 DEF NotForgotten, Walk
  <1> QED BY <1>3, <1>4, <1>5, <1>6

LEMMA SdStepInv == SdInv /\ [SdNext]_sdvars => SdInv'
  <1> SUFFICES ASSUME SdInv, [SdNext]_sdvars PROVE SdInv'
    OBVIOUS
  <1>1. CASE ShutdownStart
    BY <1>1, ShutdownStartInv
  <1>2. CASE NotifyStep
    BY <1>2, NotifyAllInv, NotifyOneInv, CallbackReturnInv, NotifyDoneInv DEF NotifyStep
  <1>3. CASE \E o \in Objs : Register(o) \/ Stop(o)
    BY <1>3, RegisterInv, StopInv
  <1>4. CASE UNCHANGED sdvars
    BY <1>4 DEF sdvars, SdInv, NotificationsExact, SdTypeOK, ActiveList, Active,
                OneNotification, NotForgotten, Walk, Reporter
  <1> QED BY <1>1, <1>2, <1>3, <1>4 DEF SdNext

-----------------------------------------------------------------------------

\* The invariant holds in every state of the shutdown manager.
THEOREM SdInvCorrect == SdSpec => []SdInv
  BY SdInitInv, SdStepInv, PTL DEF SdSpec

\* The shutdown manager never loses or duplicates a notification: shutdown_active holds
\* exactly the objects that have not stopped, the walk of notify_all() stays on the list
\* while its callbacks change it, one notify_all event at most is queued, and a shutdown
\* that is not over has somebody to report to it.
THEOREM NotificationsCorrect == SdSpec => []NotificationsExact
  <1>1. SdInv => NotificationsExact
    BY DEF SdInv
  <1> QED BY <1>1, SdInvCorrect, PTL

\* notify_all() cancels the event loop only after shutdown_start(), and only when every
\* registered object has called shutdown_set_stopped().
THEOREM StopsCleanCorrect == SdSpec => []StopsClean
  <1>1. SdInv => StopsClean
    <2> SUFFICES ASSUME SdInv, sdpc = "stopped"
                 PROVE  shutdown_complete_handler /\ \A o \in Objs : state[o] = "STOPPED"
      BY DEF StopsClean
    <2>1. shutdown_complete_handler /\ Active = {}
      BY DEF SdInv, Walk, Active
    <2> QED BY <2>1 DEF SdInv, NotificationsExact, ActiveList
  <1> QED BY <1>1, SdInvCorrect, PTL


-----------------------------------------------------------------------------
(***************************************************************************)
(* AsyncReq: the worker pool                                               *)
(***************************************************************************)
-----------------------------------------------------------------------------
(***************************************************************************)
(* The invariant                                                           *)
(***************************************************************************)

\* What a worker holds at each point of worker_thread_handler(): wtlock exactly while it
\* parks, a request to run while it runs, none when its thread has ended.
WorkersOK ==
    \A w \in Workers :
        /\ wstat[w] = "parking" <=> wtlock = w
        /\ wstat[w] = "run" => wreq[w] \in Reqs \cup {TimerReq}
        /\ wstat[w] \in {"none", "parking"} => wreq[w] = NoReq
        /\ wstat[w] \in {"leaving", "exited"} => wreq[w] \notin Reqs
        /\ wstat[w] = "none" => posted[w] = <<>>

\* Only the requests of other threads are deferred.
Deferred == deferred \subseteq BgReqs

PoolInv == PoolExact /\ WorkersOK /\ Deferred /\ ReqConservation

\* notify_all() has an object in hand only in a callback.
CurNull == sdpc # "callback" => cur = NoObj

ArInv == SdInv /\ CurNull /\ PoolInv

-----------------------------------------------------------------------------
(***************************************************************************)
(* Helpers                                                                 *)
(***************************************************************************)

\* Taking the first worker off the list of the idle ones.
LEMMA TailMembers ==
    ASSUME NEW S, NEW q \in Seq(S), q # <<>>
    PROVE  /\ Head(q) \in S /\ Head(q) \in Members(q)
           /\ Tail(q) \in Seq(S) /\ Len(Tail(q)) = Len(q) - 1
           /\ \A i \in 1..(Len(q) - 1) : Tail(q)[i] = q[i + 1]
           /\ Distinct(q) => /\ Members(Tail(q)) = Members(q) \ {Head(q)}
                             /\ Distinct(Tail(q))
  <1> DEFINE r == Tail(q)
             h == Head(q)
  <1>1. /\ Len(q) \in Nat /\ Len(q) > 0 /\ h = q[1] /\ h \in S
        /\ r \in Seq(S) /\ Len(r) = Len(q) - 1
        /\ \A i \in 1..(Len(q) - 1) : r[i] = q[i + 1]
    <2>1. Len(q) \in Nat /\ Len(q) > 0 /\ h = q[1] /\ h \in S /\ r \in Seq(S) /\ Len(r) = Len(q) - 1
      OBVIOUS
    <2>2. \A i \in 1..(Len(q) - 1) : r[i] = q[i + 1]
      OBVIOUS
    <2> QED BY <2>1, <2>2
  <1> HIDE DEF r, h
  <1>2. h \in Members(q)
    BY <1>1 DEF Members
  <1>3. ASSUME Distinct(q) PROVE Members(r) = Members(q) \ {h} /\ Distinct(r)
    <2>1. ASSUME NEW x \in Members(r) PROVE x \in Members(q) \ {h}
      BY <1>1, <1>3, <2>1 DEF Members, Distinct
    <2>2. ASSUME NEW x \in Members(q) \ {h} PROVE x \in Members(r)
      <3>1. PICK k \in 1..Len(q) : q[k] = x
        BY <2>2 DEF Members
      <3>2. k - 1 \in 1..Len(r) /\ r[k - 1] = x
        BY <1>1, <2>2, <3>1
      <3> QED BY <3>2 DEF Members
    <2>3. Distinct(r)
      BY <1>1, <1>3 DEF Distinct
    <2> QED BY <2>1, <2>2, <2>3
  <1> QED BY <1>1, <1>2, <1>3 DEF r, h

\* The list of the idle workers, as a set.
LEMMA IdlePoolMembers ==
    IdlePool <=> /\ \A w \in Workers : w \in Members(wtlist) <=> wstat[w] = "idle" /\ wreq[w] = NoReq
                 /\ Distinct(wtlist)
                 /\ Len(wtlist) <= MAX_WORKER_THREADS
  BY DEF IdlePool, Members, Distinct

\* The number of live workers.
LEMMA LiveCount ==
    /\ IsFiniteSet(Live) /\ Cardinality(Live) \in Nat
    /\ \A w : Cardinality(Live \cup {w}) = IF w \in Live THEN Cardinality(Live) ELSE Cardinality(Live) + 1
    /\ \A w : Cardinality(Live \ {w}) = IF w \in Live THEN Cardinality(Live) - 1 ELSE Cardinality(Live)
    /\ Cardinality(Live) = 0 <=> Live = {}
  <1>1. IsFiniteSet(Live)
    <2>1. Live \in SUBSET Workers
      BY DEF Live
    <2> QED BY <2>1, FS_Subset, AsyncReqAssumption, Zenon
  <1> QED BY <1>1, FS_CardinalityType, FS_AddElement, FS_RemoveElement, FS_EmptySet, Zenon

-----------------------------------------------------------------------------
(***************************************************************************)
(* Every step of the pool is a step of the shutdown manager, or leaves it  *)
(* alone: worker_thread_add() registers only a pool that has stopped, and  *)
(* worker_thread_exit() reports only one that has not.                     *)
(***************************************************************************)

LEMMA AddIsShutdownStep ==
    ASSUME PoolCount, NEW r, WorkerThreadAdd(r), sdpc \in {"loop", "callback"},
           UNCHANGED <<shutdown_complete_handler, notify_pending, notify_events, sdpc, cur, next>>
    PROVE  [SdNext]_sdvars
  <1>1. CASE wtrunning_count = 0
    <2>1. Register(Async)
      BY <1>1 DEF PoolCount, WorkerThreadAdd, Register
    <2> QED BY <2>1, AsyncReqAssumption DEF SdNext
  <1>2. CASE wtrunning_count # 0
    BY <1>2 DEF WorkerThreadAdd, sdvars
  <1> QED BY <1>1, <1>2

LEMMA PostIsShutdownStep ==
    ASSUME PoolCount, NEW r, Post(r), sdpc \in {"loop", "callback"}
    PROVE  [SdNext]_sdvars
  <1>1. CASE wtlist = <<>>
    BY <1>1, AddIsShutdownStep DEF Post
  <1>2. CASE wtlist # <<>>
    BY <1>2 DEF Post, HandOut, sdvars
  <1> QED BY <1>1, <1>2

LEMMA PoolIsShutdownStep == PoolCount /\ [ArNext]_arvars => [SdNext]_sdvars
  <1> SUFFICES ASSUME PoolCount, [ArNext]_arvars PROVE [SdNext]_sdvars
    OBVIOUS
  <1>1. CASE Start
    BY <1>1 DEF Start, SdNext
  <1>2. CASE StartTimer
    BY <1>2, PostIsShutdownStep DEF StartTimer, InLoop
  <1>3. CASE PoolNotifyStep
    BY <1>3 DEF PoolNotifyStep, TriggerAsyncShutdown, SdNext, NotifyStep
  <1>4. CASE \E o \in Objs : OtherRegister(o) \/ OtherStop(o)
    BY <1>4 DEF OtherRegister, OtherStop, SdNext
  <1>5. ASSUME NEW r \in Reqs, AsyncReqPost(r) PROVE [SdNext]_sdvars
    BY <1>5, PostIsShutdownStep DEF AsyncReqPost, InClient
  <1>6. ASSUME NEW r \in Reqs, AsyncReqPostBg(r) PROVE [SdNext]_sdvars
    BY <1>6 DEF AsyncReqPostBg, HandOut, sdvars
  <1>7. ASSUME NEW r \in Reqs, WorkerThreadAddDeferred(r) PROVE [SdNext]_sdvars
    BY <1>7, AddIsShutdownStep DEF WorkerThreadAddDeferred, InLoop
  <1>8. ASSUME NEW r \in Reqs, CancelDone(r) PROVE [SdNext]_sdvars
    BY <1>8 DEF CancelDone
  <1>9. ASSUME NEW w \in Workers, WorkerStep(w) PROVE [SdNext]_sdvars
    BY <1>9 DEF WorkerStep, WorkerPostDone, WorkerPark, WorkerWake, TimerTick, WorkerLeave
  <1>10. ASSUME NEW w \in Workers, WorkerThreadExit(w) PROVE [SdNext]_sdvars
    <2>1. CASE wtrunning_count = 1
      <3>1. Stop(Async)
        BY <1>10, <2>1 DEF WorkerThreadExit, InLoop, Stop
      <3> QED BY <3>1, AsyncReqAssumption DEF SdNext
    <2>2. CASE wtrunning_count # 1
      BY <1>10, <2>2 DEF WorkerThreadExit, sdvars
    <2> QED BY <2>1, <2>2
  <1>11. ASSUME NEW w \in Workers, DoneHandler(w) PROVE [SdNext]_sdvars
    BY <1>11 DEF DoneHandler
  <1>12. CASE UNCHANGED arvars
    BY <1>12 DEF arvars
  <1> QED BY <1>1, <1>2, <1>3, <1>4, <1>5, <1>6, <1>7, <1>8, <1>9, <1>10, <1>11, <1>12
          DEF ArNext, DispatchStep

-----------------------------------------------------------------------------
(***************************************************************************)
(* The pool's own steps                                                    *)
(***************************************************************************)

LEMMA ArInitInv == ArInit => ArInv
  <1> SUFFICES ASSUME ArInit PROVE ArInv
    OBVIOUS
  <1>1. SdInv
    BY SdInitInv DEF ArInit
  <1>2. CurNull
    BY DEF ArInit, SdInit, CurNull
  <1> USE AsyncReqAssumption DEF ArInit
  <1>3. ArTypeOK
    <2>1. posted \in [Workers -> Seq(Reqs)]
      BY ONLY ArInit DEF ArInit
    <2>2. wtlist \in Seq(Workers)
      OBVIOUS
    <2> QED BY <2>1, <2>2 DEF ArTypeOK
  <1>4. IdlePool
    BY DEF IdlePool
  <1>5. PoolCount
    <2>1. Live = {}
      BY DEF Live
    <2> QED BY <2>1, FS_EmptySet DEF PoolCount, SdInit
  <1>6. NoIdleLeft /\ WorkersOK /\ Deferred
    BY DEF NoIdleLeft, WorkersOK, Deferred
  <1>7. ReqConservation
    BY DEF ReqConservation, OnePlace, InWorker, InEvents
  <1> QED BY <1>1, <1>2, <1>3, <1>4, <1>5, <1>6, <1>7 DEF ArInv, PoolInv, PoolExact

\* worker_thread_add(): a new thread takes a request that is nowhere else.
LEMMA AddInv ==
    ASSUME PoolInv, NEW r \in Reqs \cup {TimerReq}, WorkerThreadAdd(r),
           state \in [Objs -> States],
           r \in Reqs => InWorker(r) = {} /\ InEvents(r) = {},
           wtlock = NoWorker, deferred' = deferred \ {r}, timer_event' \in BOOLEAN,
           UNCHANGED <<wtlock, posted, waitreq, cur>>
    PROVE  PoolInv'
  <1> USE AsyncReqAssumption DEF PoolInv, PoolExact
  <1>1. PICK w \in Workers :
          /\ wstat[w] = "none"
          /\ wstat' = [wstat EXCEPT ![w] = "run"]
          /\ wreq' = [wreq EXCEPT ![w] = r]
    BY DEF WorkerThreadAdd
  <1>2. UNCHANGED wtlist /\ wtrunning_count' = wtrunning_count + 1
    BY DEF WorkerThreadAdd
  <1>3. ArTypeOK'
    <2>1. /\ wstat' \in [Workers -> {"none", "run", "parking", "idle", "leaving", "exited"}]
          /\ wreq' \in [Workers -> Reqs \cup {NoReq, TimerReq, ShutdownReq}]
      BY <1>1 DEF ArTypeOK
    <2>2. wtrunning_count' \in Nat /\ deferred' \subseteq Reqs
      BY <1>2 DEF ArTypeOK
    <2> QED BY <1>2, <2>1, <2>2 DEF ArTypeOK
  <1>4. IdlePool'
    <2>1. \A v \in Workers : (wstat[v] = "idle" /\ wreq[v] = NoReq) <=> (wstat'[v] = "idle" /\ wreq'[v] = NoReq)
      BY <1>1 DEF ArTypeOK
    <2> QED BY <1>2, <2>1 DEF IdlePool
  <1>5. PoolCount'
    <2>1. Live' = Live \cup {w} /\ w \notin Live
      BY <1>1 DEF Live, ArTypeOK
    <2>2. wtrunning_count' = Cardinality(Live')
      BY <1>2, <2>1, LiveCount DEF PoolCount
    <2>3. state'[Async] # "STOPPED" /\ wtrunning_count' # 0
      BY <1>2 DEF WorkerThreadAdd, SetNormal, PoolCount, ArTypeOK
    <2> QED BY <2>2, <2>3 DEF PoolCount
  <1>6. NoIdleLeft'
    <2>1. state'[Async] = "PENDING" => state[Async] = "PENDING"
      BY DEF WorkerThreadAdd, SetNormal
    <2> QED BY <1>2, <2>1 DEF NoIdleLeft
  <1>7. WorkersOK'
    BY <1>1 DEF WorkersOK, ArTypeOK
  <1>8. Deferred'
    BY DEF Deferred
  <1>9. ReqConservation'
    <2>1. wreq[w] = NoReq
      BY <1>1 DEF WorkersOK
    <2>2. \A q \in Reqs : InWorker(q)' = IF q = r THEN InWorker(q) \cup {w} ELSE InWorker(q)
      BY <1>1, <2>1 DEF InWorker, ArTypeOK
    <2>3. \A q : InEvents(q)' = InEvents(q)
      BY DEF InEvents
    <2>4. \A q \in Reqs : OnePlace(q)'
      BY <2>2, <2>3 DEF ReqConservation, OnePlace
    <2>5. waitreq' # NoReq => InWorker(waitreq)' # {}
      BY <2>2 DEF ReqConservation, ArTypeOK
    <2> QED BY <1>7, <2>4, <2>5 DEF ReqConservation, WorkersOK
  <1> QED BY <1>3, <1>4, <1>5, <1>6, <1>7, <1>8, <1>9

\* async_req_post(): the first idle worker takes a request that is nowhere else.
LEMMA HandOutInv ==
    ASSUME PoolInv, NEW r \in Reqs \cup {TimerReq}, HandOut(r), wtlist # <<>>,
           r \in Reqs => InWorker(r) = {} /\ InEvents(r) = {} /\ r \notin deferred,
           wtlock = NoWorker, timer_event' \in BOOLEAN,
           UNCHANGED <<deferred, wtlock, posted, waitreq, cur>>
    PROVE  PoolInv'
  <1> USE AsyncReqAssumption DEF PoolInv, PoolExact, HandOut
  <1> DEFINE w == Head(wtlist)
  <1>1. /\ wtlist \in Seq(Workers)
        /\ \A v \in Workers : v \in Members(wtlist) <=> wstat[v] = "idle" /\ wreq[v] = NoReq
        /\ Distinct(wtlist)
        /\ Len(wtlist) <= MAX_WORKER_THREADS
    BY IdlePoolMembers DEF ArTypeOK
  <1>2. /\ w \in Workers /\ w \in Members(wtlist)
        /\ wtlist' \in Seq(Workers) /\ Len(wtlist') = Len(wtlist) - 1
        /\ Members(wtlist') = Members(wtlist) \ {w} /\ Distinct(wtlist')
    BY <1>1, TailMembers
  <1> HIDE DEF w
  <1>3. wstat[w] = "idle" /\ wreq[w] = NoReq /\ wreq' = [wreq EXCEPT ![w] = r] /\ wstat' = wstat
    BY <1>1, <1>2 DEF w
  <1>4. ArTypeOK'
    <2>1. wreq' \in [Workers -> Reqs \cup {NoReq, TimerReq, ShutdownReq}]
      BY <1>2, <1>3 DEF ArTypeOK
    <2> QED BY <1>2, <1>3, <2>1 DEF ArTypeOK
  <1>5. IdlePool'
    <2>1. \A v \in Workers : v \in Members(wtlist') <=> wstat'[v] = "idle" /\ wreq'[v] = NoReq
      BY <1>1, <1>2, <1>3 DEF ArTypeOK
    <2>2. Len(wtlist') <= MAX_WORKER_THREADS
      BY <1>1, <1>2
    <2> QED BY <1>2, <2>1, <2>2 DEF IdlePool, Members, Distinct
  <1>6. PoolCount'
    BY <1>3 DEF PoolCount, Live
  <1>7. NoIdleLeft'
    BY DEF NoIdleLeft
  <1>8. WorkersOK'
    BY <1>2, <1>3 DEF WorkersOK, ArTypeOK
  <1>9. Deferred'
    BY DEF Deferred
  <1>10. ReqConservation'
    <2>2. \A q \in Reqs : InWorker(q)' = IF q = r THEN InWorker(q) \cup {w} ELSE InWorker(q)
      BY <1>2, <1>3 DEF InWorker, ArTypeOK
    <2>3. \A q : InEvents(q)' = InEvents(q)
      BY DEF InEvents
    <2>4. \A q \in Reqs : OnePlace(q)'
      BY <2>2, <2>3 DEF ReqConservation, OnePlace
    <2>5. waitreq' # NoReq => InWorker(waitreq)' # {}
      BY <2>2 DEF ReqConservation, ArTypeOK
    <2> QED BY <1>8, <2>4, <2>5 DEF ReqConservation, WorkersOK
  <1> QED BY <1>4, <1>5, <1>6, <1>7, <1>8, <1>9, <1>10

\* async_req_post() on the dispatch thread.
LEMMA PostInv ==
    ASSUME PoolInv, NEW r \in Reqs \cup {TimerReq}, Post(r), state \in [Objs -> States],
           r \in Reqs => Free(r), timer_event' \in BOOLEAN
    PROVE  PoolInv'
  <1>1. CASE wtlist = <<>>
    <2>1. deferred' = deferred \ {r}
      BY AsyncReqAssumption DEF Post, Free, PoolInv, PoolExact, ArTypeOK
    <2> QED BY <1>1, <2>1, AddInv DEF Post, Free
  <1>2. CASE wtlist # <<>>
    BY <1>2, HandOutInv DEF Post, Free
  <1> QED BY <1>1, <1>2

LEMMA AsyncReqPostBgInv ==
    ASSUME NEW r \in Reqs, PoolInv, AsyncReqPostBg(r)
    PROVE  PoolInv'
  <1>1. CASE wtlist # <<>> /\ HandOut(r) /\ UNCHANGED deferred
    BY <1>1, HandOutInv DEF AsyncReqPostBg, Free, PoolInv, PoolExact, ArTypeOK
  <1>2. CASE /\ wtlist = <<>> /\ deferred' = deferred \cup {r}
             /\ UNCHANGED <<wreq, wtlist, wstat, wtrunning_count, state, shutdown_active>>
    <2> USE <1>2 DEF PoolInv, PoolExact, AsyncReqPostBg
    <2>1. ArTypeOK'
      BY DEF ArTypeOK
    <2>2. IdlePool' /\ PoolCount' /\ NoIdleLeft' /\ WorkersOK' /\ Deferred'
      BY DEF IdlePool, PoolCount, Live, NoIdleLeft, WorkersOK, Deferred
    <2>3. ReqConservation'
      BY DEF ReqConservation, OnePlace, InWorker, InEvents, Free
    <2> QED BY <2>1, <2>2, <2>3
  <1> QED BY <1>1, <1>2 DEF AsyncReqPostBg

\* A worker that changes place and keeps its request disturbs no request.
LEMMA RequestsKept ==
    ASSUME ReqConservation, WorkersOK', UNCHANGED <<wreq, posted, deferred, waitreq>>
    PROVE  ReqConservation'
  <1>1. \A q : InWorker(q)' = InWorker(q) /\ InEvents(q)' = InEvents(q)
    BY DEF InWorker, InEvents
  <1>2. \A q \in Reqs : OnePlace(q)'
    BY <1>1 DEF ReqConservation, OnePlace
  <1> QED BY <1>1, <1>2, AsyncReqAssumption DEF ReqConservation, WorkersOK

\* The request of worker w has become an event, or has reached the thread that waits.
LEMMA WorkerPostDoneInv ==
    ASSUME NEW w \in Workers, PoolInv, WorkerPostDone(w)
    PROVE  PoolInv'
  <1> USE AsyncReqAssumption DEF PoolInv, PoolExact, WorkerPostDone, sdvars
  <1> DEFINE r == wreq[w]
  <1>1. r \in Reqs /\ wstat[w] = "run"
    OBVIOUS
  <1>2. /\ posted[w] \in Seq(Reqs)
        /\ Append(posted[w], r) \in Seq(Reqs)
        /\ Len(Append(posted[w], r)) = Len(posted[w]) + 1
        /\ Append(posted[w], r)[Len(posted[w]) + 1] = r
        /\ \A i \in 1..Len(posted[w]) : Append(posted[w], r)[i] = posted[w][i]
    BY <1>1, AppendProperties DEF ArTypeOK
  <1>3. ArTypeOK'
    <2>1. /\ wstat' \in [Workers -> {"none", "run", "parking", "idle", "leaving", "exited"}]
          /\ wreq' \in [Workers -> Reqs \cup {NoReq, TimerReq, ShutdownReq}]
      BY DEF ArTypeOK
    <2>2. posted' \in [Workers -> Seq(Reqs)] /\ waitreq' \in Reqs \cup {NoReq}
      BY <1>2 DEF ArTypeOK
    <2> QED BY <2>1, <2>2 DEF ArTypeOK
  <1>4. IdlePool' /\ NoIdleLeft' /\ Deferred'
    <2>1. \A v \in Workers : (wstat[v] = "idle" /\ wreq[v] = NoReq) <=> (wstat'[v] = "idle" /\ wreq'[v] = NoReq)
      BY DEF ArTypeOK
    <2> QED BY <2>1 DEF IdlePool, NoIdleLeft, Deferred
  <1>5. PoolCount'
    <2>1. Live' = Live
      BY DEF Live, ArTypeOK
    <2> QED BY <2>1 DEF PoolCount
  <1>6. WorkersOK'
    <2>1. \A v \in Workers : v # w => posted'[v] = posted[v]
      BY DEF ArTypeOK
    <2> QED BY <2>1 DEF WorkersOK, ArTypeOK
  <1>7. InWorker(r) = {w} /\ InEvents(r) = {} /\ r \notin deferred
    BY <1>1 DEF ReqConservation, OnePlace, InWorker
  <1>8. \A q \in Reqs : InWorker(q)' = InWorker(q) \ {w} /\ (q # r => InWorker(q)' = InWorker(q))
    BY DEF InWorker, ArTypeOK
  <1>9. \A q \in Reqs : OnePlace(q)'
    <2>1. CASE waitreq = r
      <3>1. \A q : InEvents(q)' = InEvents(q)
        BY <2>1 DEF InEvents
      <3> QED BY <1>8, <2>1, <3>1 DEF ReqConservation, OnePlace
    <2>2. CASE waitreq # r
      <3> DEFINE p == Append(posted[w], r)
      <3>1. posted' = [posted EXCEPT ![w] = p]
        BY <2>2
      <3>2. /\ posted'[w] = p
            /\ \A v \in Workers : v # w => posted'[v] = posted[v]
        BY <3>1 DEF ArTypeOK
      <3>3. /\ Len(p) = Len(posted[w]) + 1 /\ Len(posted[w]) \in Nat
            /\ p[Len(posted[w]) + 1] = r
            /\ \A i \in 1..Len(posted[w]) : p[i] = posted[w][i]
        BY <1>2
      <3> HIDE DEF p
      <3>4. ASSUME NEW v \in Workers, NEW i \in 1..Len(posted'[v])
            PROVE  \/ i \in 1..Len(posted[v]) /\ posted'[v][i] = posted[v][i]
                   \/ v = w /\ i = Len(posted[w]) + 1 /\ posted'[v][i] = r
        BY <3>2, <3>3, <3>4
      <3>5. \A v \in Workers : \A i \in 1..Len(posted[v]) : posted[v][i] # r
        BY <1>7 DEF InEvents
      <3>6. \A q \in Reqs : q # r => InEvents(q)' \subseteq InEvents(q)
        BY <3>4 DEF InEvents
      <3>7. ASSUME NEW q \in Reqs PROVE OnePlace(q)'
        <4>1. \A u, v \in Workers : \A i \in 1..Len(posted'[u]), j \in 1..Len(posted'[v]) :
                posted'[u][i] = q /\ posted'[v][j] = q => u = v /\ i = j
          BY <3>4, <3>5 DEF ReqConservation, OnePlace
        <4>2. CASE q = r
          <5>1. InWorker(q)' = {} /\ q \notin deferred'
            BY <1>7, <1>8, <4>2
          <5> QED BY <4>1, <5>1 DEF OnePlace
        <4>3. CASE q # r
          BY <1>8, <3>6, <4>1, <4>3 DEF ReqConservation, OnePlace
        <4> QED BY <4>2, <4>3
      <3> QED BY <3>7
    <2> QED BY <2>1, <2>2
  <1>10. waitreq' # NoReq => InWorker(waitreq)' # {}
    BY <1>8 DEF ReqConservation, ArTypeOK
  <1>11. ReqConservation'
    BY <1>6, <1>9, <1>10 DEF ReqConservation, WorkersOK
  <1> QED BY <1>3, <1>4, <1>5, <1>6, <1>11

\* The worker that parks held wtlock and nothing else.
LEMMA WorkerParkInv ==
    ASSUME NEW w \in Workers, PoolInv, WorkerPark(w)
    PROVE  PoolInv'
  <1> USE AsyncReqAssumption DEF PoolInv, PoolExact, WorkerPark, sdvars
  <1>1. wreq[w] = NoReq /\ wstat[w] = "parking"
    BY DEF WorkersOK
  <1>2. /\ wtlist \in Seq(Workers)
        /\ \A v \in Workers : v \in Members(wtlist) <=> wstat[v] = "idle" /\ wreq[v] = NoReq
        /\ Distinct(wtlist)
        /\ Len(wtlist) <= MAX_WORKER_THREADS
    BY IdlePoolMembers DEF ArTypeOK
  <1>3. /\ Append(wtlist, w) \in Seq(Workers)
        /\ Len(Append(wtlist, w)) = Len(wtlist) + 1
        /\ Members(Append(wtlist, w)) = Members(wtlist) \cup {w}
        /\ Distinct(Append(wtlist, w))
    BY <1>1, <1>2, AppendMembers, AppendProperties
  <1>4. ArTypeOK'
    <2>1. wstat' \in [Workers -> {"none", "run", "parking", "idle", "leaving", "exited"}]
      BY DEF ArTypeOK
    <2>2. wtlist' \in Seq(Workers)
      BY <1>2, <1>3
    <2> QED BY <2>1, <2>2 DEF ArTypeOK
  <1>5. IdlePool'
    <2>1. CASE Len(wtlist) >= MAX_WORKER_THREADS \/ state[Async] = "PENDING"
      <3>1. \A v \in Workers : wstat[v] = "idle" <=> wstat'[v] = "idle"
        BY <1>1, <2>1 DEF ArTypeOK
      <3> QED BY <2>1, <3>1 DEF IdlePool
    <2>2. CASE ~(Len(wtlist) >= MAX_WORKER_THREADS \/ state[Async] = "PENDING")
      <3>1. \A v \in Workers : v \in Members(wtlist') <=> wstat'[v] = "idle" /\ wreq'[v] = NoReq
        BY <1>1, <1>2, <1>3, <2>2 DEF ArTypeOK
      <3>2. wtlist' = Append(wtlist, w)
        BY <2>2
      <3>3. Distinct(wtlist')
        BY <1>3, <3>2
      <3>4. Len(wtlist') <= MAX_WORKER_THREADS
        BY <1>2, <1>3, <2>2, <3>2
      <3> QED BY <3>1, <3>3, <3>4 DEF IdlePool, Members, Distinct
    <2> QED BY <2>1, <2>2
  <1>6. PoolCount'
    <2>1. Live' = Live
      BY <1>1 DEF Live, ArTypeOK
    <2> QED BY <2>1 DEF PoolCount
  <1>7. NoIdleLeft' /\ Deferred'
    BY DEF NoIdleLeft, Deferred
  <1>8. WorkersOK'
    BY <1>1 DEF WorkersOK, ArTypeOK
  <1>9. ReqConservation'
    BY <1>8, RequestsKept
  <1> QED BY <1>4, <1>5, <1>6, <1>7, <1>8, <1>9

\* A worker that wakes up has left the list already; one that leaves has no request.
LEMMA WorkerMoveInv ==
    ASSUME NEW w \in Workers, PoolInv, WorkerWake(w) \/ TimerTick(w) \/ WorkerLeave(w)
    PROVE  PoolInv'
  <1> USE AsyncReqAssumption DEF PoolInv, PoolExact, WorkerWake, TimerTick, WorkerLeave, sdvars
  <1>1. UNCHANGED <<wreq, wtlist, wtlock, wtrunning_count, posted, deferred, timer_event, waitreq,
                    state, cur>>
    OBVIOUS
  <1>2. PICK s \in {"run", "leaving", "exited"} : wstat' = [wstat EXCEPT ![w] = s]
    OBVIOUS
  <1>3. wstat[w] \notin {"none", "parking"} /\ (wstat[w] = "idle" => wreq[w] # NoReq)
    OBVIOUS
  <1>4. ArTypeOK'
    <2>1. wstat' \in [Workers -> {"none", "run", "parking", "idle", "leaving", "exited"}]
      BY <1>2 DEF ArTypeOK
    <2> QED BY <1>1, <2>1 DEF ArTypeOK
  <1>5. IdlePool'
    <2>1. \A v \in Workers : (wstat[v] = "idle" /\ wreq[v] = NoReq) <=> (wstat'[v] = "idle" /\ wreq'[v] = NoReq)
      BY <1>1, <1>2, <1>3 DEF ArTypeOK
    <2> QED BY <1>1, <2>1 DEF IdlePool
  <1>6. PoolCount'
    <2>1. Live' = Live
      BY <1>2, <1>3 DEF Live, ArTypeOK
    <2> QED BY <1>1, <2>1 DEF PoolCount
  <1>7. NoIdleLeft' /\ Deferred'
    BY <1>1 DEF NoIdleLeft, Deferred
  <1>8. WorkersOK'
    BY DEF WorkersOK, ArTypeOK
  <1>9. ReqConservation'
    BY <1>1, <1>8, RequestsKept
  <1> QED BY <1>4, <1>5, <1>6, <1>7, <1>8, <1>9

\* worker_thread_exit() runs when the thread has ended and its events have been dispatched.
LEMMA WorkerThreadExitInv ==
    ASSUME NEW w \in Workers, PoolInv, state \in [Objs -> States], WorkerThreadExit(w)
    PROVE  PoolInv'
  <1> USE AsyncReqAssumption DEF PoolInv, PoolExact, WorkerThreadExit
  <1>1. wstat[w] = "exited" /\ wreq[w] \notin Reqs /\ posted[w] = <<>>
    BY DEF WorkersOK
  <1>2. Live' = Live \ {w} /\ w \in Live
    BY DEF Live, ArTypeOK
  <1>3. wtrunning_count = Cardinality(Live) /\ Cardinality(Live') = Cardinality(Live) - 1
        /\ Cardinality(Live) \in Nat /\ Cardinality(Live) # 0
    BY <1>2, LiveCount DEF PoolCount
  <1>4. ArTypeOK'
    <2>1. /\ wstat' \in [Workers -> {"none", "run", "parking", "idle", "leaving", "exited"}]
          /\ wreq' \in [Workers -> Reqs \cup {NoReq, TimerReq, ShutdownReq}]
      BY DEF ArTypeOK
    <2>2. wtrunning_count' \in Nat
      BY <1>3
    <2> QED BY <2>1, <2>2 DEF ArTypeOK
  <1>5. IdlePool' /\ Deferred'
    <2>1. \A v \in Workers : (wstat[v] = "idle" /\ wreq[v] = NoReq) <=> (wstat'[v] = "idle" /\ wreq'[v] = NoReq)
      BY DEF ArTypeOK
    <2> QED BY <2>1 DEF IdlePool, Deferred
  <1>6. PoolCount'
    <2>1. wtrunning_count' = Cardinality(Live')
      BY <1>3
    <2>2. state'[Async] = "STOPPED" <=> wtrunning_count' = 0
      BY <1>3 DEF PoolCount, SetStopped
    <2> QED BY <2>1, <2>2 DEF PoolCount
  <1>7. NoIdleLeft'
    <2>1. state'[Async] = "PENDING" => state[Async] = "PENDING"
      BY DEF SetStopped
    <2> QED BY <2>1 DEF NoIdleLeft
  <1>8. WorkersOK'
    BY <1>1 DEF WorkersOK, ArTypeOK
  <1>9. ReqConservation'
    <2>1. \A q \in Reqs : InWorker(q)' = InWorker(q) /\ InEvents(q)' = InEvents(q)
      BY <1>1 DEF InWorker, InEvents, ArTypeOK
    <2>2. \A q \in Reqs : OnePlace(q)'
      BY <2>1 DEF ReqConservation, OnePlace
    <2>3. waitreq' # NoReq => InWorker(waitreq)' # {}
      BY <2>1 DEF ReqConservation, ArTypeOK
    <2> QED BY <1>8, <2>2, <2>3 DEF ReqConservation, WorkersOK
  <1> QED BY <1>4, <1>5, <1>6, <1>7, <1>8, <1>9

\* Taking events out of the queue, those that are left in their order, frees requests.
LEMMA EventsTaken ==
    ASSUME PoolInv, posted' \in [Workers -> Seq(Reqs)],
           \A v \in Workers : \A i \in 1..Len(posted'[v]) :
              \E j \in 1..Len(posted[v]) : posted'[v][i] = posted[v][j],
           \A v \in Workers : Distinct(posted[v]) => Distinct(posted'[v]),
           \A v \in Workers : posted[v] = <<>> => posted'[v] = <<>>,
           UNCHANGED <<wstat, wreq, wtlist, wtlock, wtrunning_count, deferred, timer_event, waitreq,
                       state, cur>>
    PROVE  PoolInv'
  <1> USE DEF PoolInv, PoolExact
  <1>1. ArTypeOK' /\ IdlePool' /\ PoolCount' /\ NoIdleLeft' /\ WorkersOK' /\ Deferred'
    <2>1. ArTypeOK'
      BY DEF ArTypeOK
    <2>2. IdlePool' /\ PoolCount' /\ NoIdleLeft' /\ WorkersOK' /\ Deferred'
      BY DEF IdlePool, PoolCount, Live, NoIdleLeft, WorkersOK, Deferred
    <2> QED BY <2>1, <2>2
  <1>2. \A q : InWorker(q)' = InWorker(q) /\ InEvents(q)' \subseteq InEvents(q)
    <2>1. \A q : InWorker(q)' = InWorker(q)
      BY DEF InWorker
    <2>2. ASSUME NEW q, NEW v \in InEvents(q)' PROVE v \in InEvents(q)
      <3>1. v \in Workers /\ \E i \in 1..Len(posted'[v]) : posted'[v][i] = q
        BY <2>2 DEF InEvents
      <3> QED BY <3>1 DEF InEvents
    <2> QED BY <2>1, <2>2
  <1>3. ASSUME NEW q \in Reqs PROVE OnePlace(q)'
    <2>1. \A r \in Reqs : OnePlace(r)
      BY DEF ReqConservation
    <2>2. ASSUME NEW v \in Workers PROVE Distinct(posted'[v])
      <3>1. \A i \in 1..Len(posted[v]) : posted[v][i] \in Reqs
        BY DEF ArTypeOK
      <3>2. Distinct(posted[v])
        BY <2>1, <3>1 DEF OnePlace, Distinct
      <3> QED BY <3>2
    <2>3. ASSUME NEW u \in Workers, NEW v \in Workers,
                 NEW i \in 1..Len(posted'[u]), NEW j \in 1..Len(posted'[v]),
                 posted'[u][i] = q, posted'[v][j] = q
          PROVE  u = v /\ i = j
      <3>1. PICK k \in 1..Len(posted[u]) : posted[u][k] = q
        BY <2>3
      <3>2. PICK l \in 1..Len(posted[v]) : posted[v][l] = q
        BY <2>3
      <3>3. u = v
        BY <2>1, <3>1, <3>2 DEF OnePlace
      <3> QED BY <2>2, <2>3, <3>3 DEF Distinct
    <2> QED BY <1>2, <2>1, <2>3 DEF OnePlace
  <1>4. ReqConservation'
    BY <1>2, <1>3 DEF ReqConservation
  <1> QED BY <1>1, <1>4

\* A done event is dispatched.
LEMMA DoneHandlerInv ==
    ASSUME NEW w \in Workers, PoolInv, DoneHandler(w)
    PROVE  PoolInv'
  <1> USE DEF DoneHandler, sdvars
  <1> DEFINE q == posted[w]
  <1>1. posted \in [Workers -> Seq(Reqs)] /\ q \in Seq(Reqs) /\ q # <<>>
    BY DEF PoolInv, PoolExact, ArTypeOK
  <1>2. /\ Tail(q) \in Seq(Reqs) /\ Len(Tail(q)) = Len(q) - 1 /\ Len(q) \in Nat
        /\ \A i \in 1..(Len(q) - 1) : Tail(q)[i] = q[i + 1]
        /\ Distinct(q) => Distinct(Tail(q))
    BY <1>1, TailMembers
  <1>3. posted' = [posted EXCEPT ![w] = Tail(q)]
    OBVIOUS
  <1>4. posted'[w] = Tail(q) /\ \A v \in Workers : v # w => posted'[v] = posted[v]
    BY <1>1
  <1>5. posted' \in [Workers -> Seq(Reqs)]
    BY <1>1, <1>2, <1>3
  <1>6. ASSUME NEW v \in Workers, NEW i \in 1..Len(posted'[v])
        PROVE  \E j \in 1..Len(posted[v]) : posted'[v][i] = posted[v][j]
    <2>1. CASE v = w
      <3>1. i \in 1..Len(Tail(q)) /\ posted'[v][i] = Tail(q)[i]
        BY <1>4, <1>6, <2>1
      <3> HIDE DEF q
      <3>2. i + 1 \in 1..Len(q) /\ Tail(q)[i] = q[i + 1]
        BY <1>2, <3>1
      <3> USE DEF q
      <3> QED BY <2>1, <3>1, <3>2
    <2>2. CASE v # w
      BY <1>4, <1>6, <2>2
    <2> QED BY <2>1, <2>2
  <1>7. \A v \in Workers : /\ Distinct(posted[v]) => Distinct(posted'[v])
                           /\ posted[v] = <<>> => posted'[v] = <<>>
    BY <1>1, <1>2, <1>4
  <1> QED BY <1>5, <1>6, <1>7, EventsTaken

\* cancel_event(): the event of a request is taken out, or some worker has the request.
LEMMA CancelDoneInv ==
    ASSUME NEW r \in Reqs, PoolInv, CancelDone(r)
    PROVE  PoolInv'
  <1> USE DEF CancelDone, sdvars
  <1>1. CASE InEvents(r) # {}
    <2>1. ASSUME NEW v \in Workers
          PROVE  /\ posted[v] \in Seq(Reqs) /\ Distinct(posted[v])
                 /\ posted'[v] = Unlink(posted[v], r)
      <3>1. posted[v] \in Seq(Reqs)
        BY DEF PoolInv, PoolExact, ArTypeOK
      <3>2. \A i \in 1..Len(posted[v]) : posted[v][i] \in Reqs
        BY <3>1
      <3>3. Distinct(posted[v])
        BY <3>2 DEF PoolInv, ReqConservation, OnePlace, Distinct
      <3> QED BY <1>1, <3>1, <3>3
    <2>2. ASSUME NEW v \in Workers
          PROVE  /\ posted'[v] \in Seq(Reqs) /\ Distinct(posted'[v])
                 /\ Members(posted'[v]) \subseteq Members(posted[v])
                 /\ posted[v] = <<>> => posted'[v] = <<>>
      <3>1. posted[v] = <<>> => posted'[v] = <<>>
        BY <2>1 DEF Unlink
      <3> QED BY <2>1, <3>1, UnlinkMembers
    <2>3. posted' \in [Workers -> Seq(Reqs)]
      <3>1. posted' = [v \in Workers |-> Unlink(posted[v], r)]
        BY <1>1
      <3> QED BY <2>1, <2>2, <3>1
    <2>4. ASSUME NEW v \in Workers, NEW i \in 1..Len(posted'[v])
          PROVE  \E j \in 1..Len(posted[v]) : posted'[v][i] = posted[v][j]
      <3>1. posted'[v][i] \in Members(posted'[v])
        BY <2>4 DEF Members
      <3>2. posted'[v][i] \in Members(posted[v])
        BY <2>2, <3>1
      <3> QED BY <3>2 DEF Members
    <2> QED BY <1>1, <2>2, <2>3, <2>4, EventsTaken
  <1>2. CASE InEvents(r) = {}
    <2> USE <1>2 DEF PoolInv, PoolExact
    <2>1. UNCHANGED <<wstat, wreq, wtlist, wtlock, wtrunning_count, posted, deferred, timer_event,
                      state, cur>> /\ waitreq' = r
      OBVIOUS
    <2>2. ArTypeOK'
      BY <2>1 DEF ArTypeOK
    <2>3. IdlePool' /\ PoolCount' /\ NoIdleLeft' /\ WorkersOK' /\ Deferred'
      BY <2>1 DEF IdlePool, PoolCount, Live, NoIdleLeft, WorkersOK, Deferred
    <2>4. \A q : InWorker(q)' = InWorker(q) /\ InEvents(q)' = InEvents(q)
      BY <2>1 DEF InWorker, InEvents
    <2>5. InWorker(r) # {}
      BY DEF Deferred, Free
    <2>6. \A q \in Reqs : OnePlace(q)'
      BY <2>1, <2>4 DEF ReqConservation, OnePlace
    <2>7. ReqConservation'
      BY <2>1, <2>4, <2>5, <2>6 DEF ReqConservation
    <2> QED BY <2>2, <2>3, <2>7
  <1> QED BY <1>1, <1>2

\* trigger_async_shutdown(): the workers on the list, and no others, are told to leave.
LEMMA TriggerAsyncShutdownInv ==
    ASSUME PoolInv, TriggerAsyncShutdown
    PROVE  PoolInv'
  <1> USE AsyncReqAssumption DEF PoolInv, PoolExact, TriggerAsyncShutdown, CallbackReturn
  <1>1. \A w \in Workers : wreq'[w] = IF wstat[w] = "idle" /\ wreq[w] = NoReq THEN ShutdownReq ELSE wreq[w]
    BY DEF IdlePool
  <1>2. ArTypeOK'
    <2>1. wreq' \in [Workers -> Reqs \cup {NoReq, TimerReq, ShutdownReq}]
      BY DEF ArTypeOK
    <2>2. wtlist' \in Seq(Workers)
      OBVIOUS
    <2> QED BY <2>1, <2>2 DEF ArTypeOK
  <1>3. IdlePool'
    BY <1>1 DEF IdlePool
  <1>4. PoolCount' /\ NoIdleLeft' /\ Deferred'
    BY DEF PoolCount, Live, NoIdleLeft, Deferred
  <1>5. WorkersOK'
    BY <1>1 DEF WorkersOK, ArTypeOK
  <1>6. ReqConservation'
    <2>1. \A q \in Reqs : InWorker(q)' = InWorker(q) /\ InEvents(q)' = InEvents(q)
      BY <1>1 DEF InWorker, InEvents, ArTypeOK
    <2>2. \A q \in Reqs : OnePlace(q)'
      BY <2>1 DEF ReqConservation, OnePlace
    <2>3. waitreq' # NoReq => InWorker(waitreq)' # {}
      BY <2>1 DEF ReqConservation, ArTypeOK
    <2> QED BY <1>5, <2>2, <2>3 DEF ReqConservation, WorkersOK
  <1> QED BY <1>2, <1>3, <1>4, <1>5, <1>6

\* A step of the shutdown manager alone leaves the pool registered or stopped as it was,
\* and a pool that becomes PENDING is the one called back.
LEMMA ShutdownStepInv ==
    ASSUME PoolInv, UNCHANGED poolvars,
           state'[Async] = "STOPPED" <=> state[Async] = "STOPPED",
           state'[Async] = "PENDING" /\ cur' # Async => state[Async] = "PENDING" /\ cur # Async
    PROVE  PoolInv'
  <1> USE DEF PoolInv, PoolExact, poolvars
  <1>1. ArTypeOK'
    BY DEF ArTypeOK
  <1>2. IdlePool' /\ PoolCount' /\ NoIdleLeft' /\ WorkersOK' /\ Deferred'
    BY DEF IdlePool, PoolCount, Live, NoIdleLeft, WorkersOK, Deferred
  <1>3. ReqConservation'
    BY <1>2, RequestsKept
  <1> QED BY <1>1, <1>2, <1>3

LEMMA PoolNotifyStepInv == ArInv /\ PoolNotifyStep => PoolInv'
  <1> SUFFICES ASSUME ArInv, PoolNotifyStep PROVE PoolInv'
    OBVIOUS
  <1> USE DEF ArInv
  <1>0. state \in [Objs -> States] /\ Async \in Objs /\ NoObj # Async
    BY AsyncReqAssumption, ShutdownAssumption DEF SdInv, NotificationsExact, SdTypeOK
  <1>1. CASE TriggerAsyncShutdown
    BY <1>1, TriggerAsyncShutdownInv
  <1>2. CASE NotifyAll /\ UNCHANGED poolvars
    BY <1>2, ShutdownStepInv DEF NotifyAll
  <1>3. CASE NotifyOne /\ UNCHANGED poolvars
    <2>1. cur # Async
      BY <1>0, <1>3 DEF NotifyOne, CurNull
    <2>2. next \in Objs
      BY <1>3 DEF SdInv, NotificationsExact, SdTypeOK, NotifyOne
    <2>3. state'[Async] = "STOPPED" <=> state[Async] = "STOPPED"
      BY <1>0, <1>3, <2>2 DEF NotifyOne
    <2>4. state'[Async] = "PENDING" /\ cur' # Async => state[Async] = "PENDING" /\ cur # Async
      BY <1>0, <1>3, <2>1, <2>2 DEF NotifyOne
    <2> QED BY <1>3, <2>3, <2>4, ShutdownStepInv
  <1>4. CASE CallbackReturn /\ cur # Async /\ UNCHANGED poolvars
    BY <1>4, ShutdownStepInv DEF CallbackReturn
  <1>5. CASE NotifyDone /\ UNCHANGED poolvars
    BY <1>5, ShutdownStepInv DEF NotifyDone
  <1> QED BY <1>1, <1>2, <1>3, <1>4, <1>5 DEF PoolNotifyStep

LEMMA ArStepInv == ArInv /\ [ArNext]_arvars => ArInv'
  <1> SUFFICES ASSUME ArInv, [ArNext]_arvars PROVE ArInv'
    OBVIOUS
  <1> USE DEF ArInv
  <1>0. state \in [Objs -> States] /\ Async \in Objs
    BY AsyncReqAssumption DEF SdInv, NotificationsExact, SdTypeOK
  <1>a. [SdNext]_sdvars
    BY PoolIsShutdownStep DEF PoolInv, PoolExact
  <1>b. SdInv'
    BY <1>a, SdStepInv
  <1>c. CurNull'
    BY <1>a DEF CurNull, SdNext, ShutdownStart, NotifyStep, NotifyAll, NotifyOne, CallbackReturn,
                NotifyDone, Register, Stop, sdvars
  <1>1. ASSUME Start PROVE PoolInv'
    BY <1>1, ShutdownStepInv DEF Start, ShutdownStart
  <1>2. ASSUME StartTimer PROVE PoolInv'
    BY <1>0, <1>2, PostInv, AsyncReqAssumption DEF StartTimer
  <1>3. ASSUME PoolNotifyStep PROVE PoolInv'
    BY <1>3, PoolNotifyStepInv
  <1>4. ASSUME NEW o \in Objs, OtherRegister(o) \/ OtherStop(o) PROVE PoolInv'
    BY <1>0, <1>4, ShutdownStepInv DEF OtherRegister, OtherStop, Register, Stop, SetNormal, SetStopped
  <1>5. ASSUME NEW r \in Reqs, AsyncReqPost(r) PROVE PoolInv'
    <2>1. timer_event' \in BOOLEAN
      BY <1>5 DEF AsyncReqPost, PoolInv, PoolExact, ArTypeOK
    <2> QED BY <1>0, <1>5, <2>1, PostInv DEF AsyncReqPost
  <1>6. ASSUME NEW r \in Reqs, AsyncReqPostBg(r) PROVE PoolInv'
    BY <1>6, AsyncReqPostBgInv
  <1>7. ASSUME NEW r \in Reqs, WorkerThreadAddDeferred(r) PROVE PoolInv'
    <2>1. InWorker(r) = {} /\ InEvents(r) = {} /\ timer_event' \in BOOLEAN
      BY <1>7 DEF WorkerThreadAddDeferred, PoolInv, PoolExact, ArTypeOK, ReqConservation, OnePlace
    <2> QED BY <1>0, <1>7, <2>1, AddInv DEF WorkerThreadAddDeferred
  <1>8. ASSUME NEW r \in Reqs, CancelDone(r) PROVE PoolInv'
    BY <1>8, CancelDoneInv
  <1>9. ASSUME NEW w \in Workers, WorkerStep(w) PROVE PoolInv'
    BY <1>9, WorkerPostDoneInv, WorkerParkInv, WorkerMoveInv DEF WorkerStep
  <1>10. ASSUME NEW w \in Workers, DispatchStep(w) PROVE PoolInv'
    BY <1>0, <1>10, WorkerThreadExitInv, DoneHandlerInv DEF DispatchStep
  <1>11. ASSUME UNCHANGED arvars PROVE PoolInv'
    BY <1>11, ShutdownStepInv DEF arvars, sdvars
  <1>12. PoolInv'
    BY <1>1, <1>2, <1>3, <1>4, <1>5, <1>6, <1>7, <1>8, <1>9, <1>10, <1>11 DEF ArNext
  <1> QED BY <1>b, <1>c, <1>12

-----------------------------------------------------------------------------

\* The invariant holds in every state of the pool and the shutdown manager.
THEOREM ArInvCorrect == ArSpec => []ArInv
  BY ArInitInv, ArStepInv, PTL DEF ArSpec

\* The idle list and the thread count of asyncreq.c are exact in every interleaving of
\* workers, posters, cancels and a shutdown, and the callback of the shutdown misses no
\* worker: one that parks meanwhile sees the PENDING state and leaves.
THEOREM PoolExactCorrect == ArSpec => []PoolExact
  <1>1. ArInv => PoolExact
    BY DEF ArInv, PoolInv
  <1> QED BY <1>1, ArInvCorrect, PTL

\* Every request handed to async_req_post() is in one place at most, until its done
\* function is called or cancel_event() has it, and a thread that waits in cancel_event()
\* waits for a request that some worker still has.
THEOREM ReqConservationCorrect == ArSpec => []ReqConservation
  <1>1. ArInv => ReqConservation
    BY DEF ArInv, PoolInv
  <1> QED BY <1>1, ArInvCorrect, PTL

\* The pool keeps to the protocol of shutdown.c: its specification, with every thread of
\* it, implements the specification of the shutdown manager.
THEOREM UsesShutdownCorrect == ArSpec => UsesShutdown
  <1>1. ArInit => SdInit
    BY DEF ArInit
  <1>2. ArInv /\ [ArNext]_arvars => [SdNext]_sdvars
    BY PoolIsShutdownStep DEF ArInv, PoolInv, PoolExact
  <1> QED BY <1>1, <1>2, ArInvCorrect, PTL DEF ArSpec, UsesShutdown, SdSpec

\* With the pool as one of the subsystems, whose threads come and go during the shutdown,
\* no notification is lost or duplicated.
THEOREM PoolNotificationsCorrect == ArSpec => []NotificationsExact
  BY UsesShutdownCorrect, NotificationsCorrect, PTL DEF UsesShutdown

\* When the shutdown has cancelled the loop no worker thread is left, and every request
\* was answered but those a background thread handed over too late for a new thread.
THEOREM ShutdownDrainsCorrect == ArSpec => []ShutdownDrains
  <1>1. ArInv /\ StopsClean => ShutdownDrains
    <2> SUFFICES ASSUME ArInv, StopsClean, sdpc = "stopped"
                 PROVE  Live = {} /\ \A r \in Reqs : Free(r) \/ r \in deferred
      BY DEF ShutdownDrains
    <2> USE DEF ArInv, PoolInv, PoolExact
    <2>1. state[Async] = "STOPPED"
      BY AsyncReqAssumption DEF StopsClean
    <2>2. Live = {}
      BY <2>1, LiveCount DEF PoolCount
    <2>3. \A w \in Workers : wreq[w] = NoReq /\ posted[w] = <<>>
      BY <2>2 DEF Live, WorkersOK
    <2>4. \A r \in Reqs : InWorker(r) = {} /\ InEvents(r) = {}
      BY <2>3, AsyncReqAssumption DEF InWorker, InEvents
    <2> QED BY <2>2, <2>4 DEF Free
  <1> QED BY <1>1, ArInvCorrect, UsesShutdownCorrect, StopsCleanCorrect, PTL DEF UsesShutdown

=============================================================================

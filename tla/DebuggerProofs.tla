--------------------------- MODULE DebuggerProofs ---------------------------
(***************************************************************************)
(* Proofs about Debugger, RunCtrl and Breakpoints, for any number of       *)
(* threads and processes, any limits and any number of surprises: the run  *)
(* control lock and the counters agree with what they count, safe events   *)
(* run in stopped groups only, no thread runs past an instruction that is  *)
(* taken out, and nothing is resumed under the lock.                       *)
(***************************************************************************)
EXTENDS Debugger, SequenceTheorems, FiniteSetTheorems, TLAPS

-----------------------------------------------------------------------------
(***************************************************************************)
(* The state record                                                        *)
(***************************************************************************)

CtxFields == DOMAIN NoContext

TypeOf(f) == IF f = "skips" THEN Nat ELSE BOOLEAN

Ctx == {x \in [CtxFields -> BOOLEAN \cup Nat] : \A f \in CtxFields : x[f] \in TypeOf(f)}

Instr == [alive : BOOLEAN, valid : BOOLEAN, refs : BOOLEAN, planted : BOOLEAN, stepping : Int]

SafeEv == [ctx : Threads, done : {"skip", "restore", "terminate"}]
          \cup [ctx : Processes, done : {"wait"}]

DState == [ctx : [Threads -> Ctx], bi : [Processes -> Instr], list : Seq(SafeEv),
           lock : Int, count : Int, ticks : Nat, timer : BOOLEAN,
           queue : Seq({"safe", "sync", "replant"}), all_stop : BOOLEAN, enabled : BOOLEAN,
           posted : Seq(Processes), loc_posted : SUBSET Processes,
           active : SUBSET Processes, loc_active : SUBSET Processes,
           waiting : Seq(Processes), conds : [Processes -> SUBSET Threads],
           ok : SUBSET Threads, replanting : BOOLEAN]

\* t and r agree but for the contexts.
SameButCtx(t, r) ==
    /\ r.bi = t.bi /\ r.list = t.list /\ r.lock = t.lock /\ r.count = t.count
    /\ r.ticks = t.ticks /\ r.timer = t.timer /\ r.queue = t.queue
    /\ r.all_stop = t.all_stop /\ r.enabled = t.enabled
    /\ r.posted = t.posted /\ r.loc_posted = t.loc_posted
    /\ r.active = t.active /\ r.loc_active = t.loc_active
    /\ r.waiting = t.waiting /\ r.conds = t.conds /\ r.ok = t.ok
    /\ r.replanting = t.replanting

LEMMA NewCtx ==
  ASSUME NEW t \in DState, NEW x \in [Threads -> Ctx]
  PROVE  LET r == [t EXCEPT !.ctx = x] IN r \in DState /\ SameButCtx(t, r) /\ r.ctx = x
  BY DEF DState, SameButCtx

LEMMA Fields ==
  CtxFields = {"known", "stopped", "exiting", "exited", "pending_intercept", "intercepted",
               "pending_safe_event", "safe_single_step", "cannot_stop", "terminate",
               "sigstop_posted", "stopped_by_bp", "stopped_by_exception", "at_bp",
               "stepping_over_bp", "skips"}
  BY DEF CtxFields, NoContext

\* The flags of a thread are truth values.
LEMMA CtxType ==
  ASSUME NEW t \in DState, NEW c \in Threads
  PROVE  /\ t.ctx \in [Threads -> Ctx] /\ t.ctx[c] \in Ctx /\ DOMAIN t.ctx[c] = CtxFields
         /\ \A f \in CtxFields \ {"skips"} : t.ctx[c][f] \in BOOLEAN
         /\ t.ctx[c]["skips"] \in Nat
  <1>1. t.ctx \in [Threads -> Ctx]
    BY DEF DState
  <1>2. t.ctx[c] \in Ctx
    BY <1>1
  <1>3. DOMAIN t.ctx[c] = CtxFields /\ \A f \in CtxFields : t.ctx[c][f] \in TypeOf(f)
    BY <1>2 DEF Ctx
  <1> QED BY <1>1, <1>2, <1>3, Fields DEF TypeOf

\* What Set() changes.
LEMMA SetCtx ==
  ASSUME NEW t \in DState, NEW c \in Threads, NEW d, DOMAIN d \subseteq CtxFields,
         \A f \in DOMAIN d : d[f] \in TypeOf(f)
  PROVE  LET r == Set(t, c, d) IN
         /\ r \in DState /\ SameButCtx(t, r)
         /\ \A x \in Threads \ {c} : r.ctx[x] = t.ctx[x]
         /\ \A f \in CtxFields : r.ctx[c][f] = IF f \in DOMAIN d THEN d[f] ELSE t.ctx[c][f]
  <1> DEFINE y == [f \in CtxFields |-> IF f \in DOMAIN d THEN d[f] ELSE t.ctx[c][f]]
  <1>1. t.ctx \in [Threads -> Ctx]
    BY DEF DState
  <1>2. DOMAIN t.ctx[c] = CtxFields
    BY <1>1 DEF Ctx
  <1>3. \A f \in CtxFields : y[f] \in TypeOf(f)
    BY <1>1 DEF Ctx
  <1>4. y \in Ctx
    <2>1. \A f : TypeOf(f) \subseteq BOOLEAN \cup Nat
      BY DEF TypeOf
    <2> QED BY <1>3, <2>1 DEF Ctx
  <1>5. [t.ctx EXCEPT ![c] = y] \in [Threads -> Ctx]
    BY <1>1, <1>4
  <1>6. Set(t, c, d) = [t EXCEPT !.ctx = [t.ctx EXCEPT ![c] = y]]
    BY <1>2 DEF Set, DState
  <1> HIDE DEF y
  <1>7. PICK x : x = [t.ctx EXCEPT ![c] = y]
    OBVIOUS
  <1>8. /\ x \in [Threads -> Ctx] /\ x[c] = y /\ \A z \in Threads \ {c} : x[z] = t.ctx[z]
    BY <1>1, <1>5, <1>7
  <1>9. Set(t, c, d) = [t EXCEPT !.ctx = x]
    BY <1>6, <1>7
  <1> QED BY <1>8, <1>9, NewCtx DEF y

-----------------------------------------------------------------------------
(***************************************************************************)
(* Steps that leave what the invariant speaks of alone                     *)
(***************************************************************************)

\* A context after a step that does not stop it, start it or end it.
Raise(x, y) ==
    /\ y.known = x.known /\ y.exited = x.exited /\ y.stopped = x.stopped
    /\ y.cannot_stop = x.cannot_stop /\ y.pending_safe_event = x.pending_safe_event
    /\ y.safe_single_step = x.safe_single_step
    /\ x.exiting => y.exiting

\* The records agree in what does not belong to the threads.
SameReq(t, r) ==
    /\ r.enabled = t.enabled /\ r.posted = t.posted /\ r.loc_posted = t.loc_posted
    /\ r.loc_active = t.loc_active /\ r.waiting = t.waiting /\ r.replanting = t.replanting
    /\ "replant" \in Range(r.queue) => "replant" \in Range(t.queue)

SameCtl(t, r) == r.bi = t.bi /\ r.list = t.list /\ r.lock = t.lock /\ SameReq(t, r)

SameRec(t, r) == SameCtl(t, r) /\ r.count = t.count

\* No thread but those in C is stopped, started or ended.
Others(t, r, C) == \A c \in Threads \ C : Raise(t.ctx[c], r.ctx[c])

Mild(t, r) == r \in DState /\ SameRec(t, r) /\ Others(t, r, {})

LEMMA MildRefl == ASSUME NEW t \in DState PROVE Mild(t, t)
  BY DEF Mild, SameRec, SameCtl, SameReq, Others, Raise

LEMMA OthersTrans ==
  ASSUME NEW t, NEW u, NEW r, NEW C, NEW D, NEW E, Others(t, u, C), Others(u, r, D),
         C \cup D \subseteq E
  PROVE  Others(t, r, E)
  BY DEF Others, Raise

LEMMA MildTrans ==
  ASSUME NEW t, NEW u, NEW r, Mild(t, u), Mild(u, r)
  PROVE  Mild(t, r)
  <1>1. Others(t, r, {})
    BY OthersTrans DEF Mild
  <1> QED BY <1>1 DEF Mild, SameRec, SameCtl, SameReq

LEMMA SetMild ==
  ASSUME NEW t \in DState, NEW c \in Threads, NEW d, DOMAIN d \subseteq CtxFields,
         \A f \in DOMAIN d : d[f] \in TypeOf(f),
         DOMAIN d \cap {"known", "exited", "stopped", "cannot_stop", "pending_safe_event",
                        "safe_single_step"} = {},
         "exiting" \in DOMAIN d /\ t.ctx[c].exiting => d["exiting"]
  PROVE  Mild(t, Set(t, c, d)) /\ SameButCtx(t, Set(t, c, d))
  <1>1. PICK r : r = Set(t, c, d)
    OBVIOUS
  <1>2. /\ r \in DState /\ SameButCtx(t, r)
        /\ \A x \in Threads \ {c} : r.ctx[x] = t.ctx[x]
        /\ \A f \in CtxFields : r.ctx[c][f] = IF f \in DOMAIN d THEN d[f] ELSE t.ctx[c][f]
    BY <1>1, SetCtx
  <1>3. Raise(t.ctx[c], r.ctx[c])
    BY <1>2, Fields DEF Raise
  <1>4. Others(t, r, {})
    BY <1>2, <1>3 DEF Others, Raise
  <1> QED BY <1>1, <1>2, <1>4 DEF Mild, SameRec, SameCtl, SameReq, SameButCtx

-----------------------------------------------------------------------------
(* Sequences: the elements of a queue, of its tail and of what is appended. *)

LEMMA RangeOf ==
  ASSUME NEW S, NEW q \in Seq(S)
  PROVE  /\ Range(q) = {q[i] : i \in 1..Len(q)} /\ Range(q) \subseteq S
         /\ q = <<>> <=> Range(q) = {}
  <1>1. DOMAIN q = 1..Len(q) /\ Len(q) \in Nat
    OBVIOUS
  <1>2. Range(q) = {q[i] : i \in 1..Len(q)} /\ Range(q) \subseteq S
    BY <1>1 DEF Range
  <1>3. ASSUME q # <<>> PROVE Range(q) # {}
    <2>1. 1 \in 1..Len(q)
      BY <1>3
    <2> QED BY <2>1, <1>2
  <1>4. ASSUME q = <<>> PROVE Range(q) = {}
    BY <1>2, <1>4
  <1> QED BY <1>2, <1>3, <1>4

LEMMA AppendRange ==
  ASSUME NEW S, NEW q \in Seq(S), NEW e \in S
  PROVE  /\ Append(q, e) \in Seq(S) /\ Append(q, e) # <<>>
         /\ Range(Append(q, e)) = Range(q) \cup {e}
         /\ IsInjective(q) /\ e \notin Range(q) => IsInjective(Append(q, e))
  <1>1. PICK r : r = Append(q, e)
    OBVIOUS
  <1>2. /\ r \in Seq(S) /\ r # <<>> /\ Len(r) = Len(q) + 1 /\ Len(q) \in Nat
        /\ \A i \in 1..Len(q) : r[i] = q[i]
        /\ r[Len(q) + 1] = e
    BY <1>1
  <1>3. DOMAIN r = 1..Len(r) /\ DOMAIN q = 1..Len(q)
    BY <1>2
  <1>4. Range(r) = Range(q) \cup {e}
    <2>1. Range(r) \subseteq Range(q) \cup {e}
      BY <1>2, <1>3 DEF Range
    <2>2. Range(q) \subseteq Range(r)
      BY <1>2, <1>3 DEF Range
    <2>3. e \in Range(r)
      BY <1>2, <1>3 DEF Range
    <2> QED BY <2>1, <2>2, <2>3
  <1>5. IsInjective(q) /\ e \notin Range(q) => IsInjective(r)
    BY <1>2, <1>3 DEF Range, IsInjective
  <1> QED BY <1>1, <1>2, <1>4, <1>5

LEMMA TailRange ==
  ASSUME NEW S, NEW q \in Seq(S), q # <<>>
  PROVE  /\ Head(q) \in S /\ Head(q) \in Range(q)
         /\ Tail(q) \in Seq(S) /\ Len(Tail(q)) = Len(q) - 1
         /\ Range(Tail(q)) \subseteq Range(q)
         /\ Range(q) = Range(Tail(q)) \cup {Head(q)}
         /\ IsInjective(q) => /\ IsInjective(Tail(q)) /\ Head(q) \notin Range(Tail(q))
  <1>1. PICK r, h : r = Tail(q) /\ h = Head(q)
    OBVIOUS
  <1>2. /\ h \in S /\ h = q[1] /\ r \in Seq(S) /\ Len(r) = Len(q) - 1
        /\ Len(q) \in Nat /\ Len(q) > 0
        /\ \A i \in 1..(Len(q) - 1) : r[i] = q[i + 1]
    <2>1. h \in S /\ h = q[1] /\ r \in Seq(S) /\ Len(r) = Len(q) - 1 /\ Len(q) \in Nat /\ Len(q) > 0
      BY <1>1
    <2>2. \A i \in 1..(Len(q) - 1) : r[i] = q[i + 1]
      BY <1>1
    <2> QED BY <2>1, <2>2
  <1>3. DOMAIN r = 1..(Len(q) - 1) /\ DOMAIN q = 1..Len(q)
    BY <1>2
  <1>4. h \in Range(q)
    BY <1>2, <1>3 DEF Range
  <1>5. Range(r) \subseteq Range(q)
    BY <1>2, <1>3 DEF Range
  <1>6. ASSUME NEW i \in 1..Len(q), i # 1 PROVE q[i] \in Range(r)
    <2>1. i - 1 \in 1..(Len(q) - 1) /\ q[i] = r[i - 1]
      BY <1>2, <1>6
    <2> QED BY <2>1, <1>3 DEF Range
  <1>7. Range(q) \subseteq Range(r) \cup {h}
    BY <1>2, <1>3, <1>6 DEF Range
  <1>8. ASSUME IsInjective(q) PROVE IsInjective(r) /\ h \notin Range(r)
    <2>1. IsInjective(r)
      <3>1. SUFFICES ASSUME NEW i \in 1..(Len(q) - 1), NEW j \in 1..(Len(q) - 1), r[i] = r[j]
                     PROVE  i = j
        BY <1>3 DEF IsInjective
      <3>2. q[i + 1] = q[j + 1] /\ i + 1 \in 1..Len(q) /\ j + 1 \in 1..Len(q)
        BY <1>2, <3>1
      <3>3. i + 1 = j + 1
        BY <3>2, <1>3, <1>8 DEF IsInjective
      <3> QED BY <3>3
    <2>2. ASSUME NEW i \in 1..(Len(q) - 1), r[i] = h PROVE FALSE
      <3>1. q[i + 1] = q[1] /\ i + 1 \in 1..Len(q) /\ 1 \in 1..Len(q)
        BY <1>2, <2>2
      <3>2. i + 1 = 1
        BY <3>1, <1>3, <1>8 DEF IsInjective
      <3> QED BY <3>2
    <2> QED BY <2>1, <2>2, <1>3 DEF Range
  <1> QED BY <1>1, <1>2, <1>4, <1>5, <1>7, <1>8

-----------------------------------------------------------------------------
(* The operators of RunCtrl that are mild. *)

LEMMA PostMild ==
  ASSUME NEW t \in DState, NEW e \in {"safe", "sync"}
  PROVE  Mild(t, post_event(t, e)) /\ post_event(t, e).ctx = t.ctx
  <1>1. PICK q : q = Append(t.queue, e)
    OBVIOUS
  <1>2. t.queue \in Seq({"safe", "sync", "replant"})
    BY DEF DState
  <1>3. q \in Seq({"safe", "sync", "replant"}) /\ Range(q) = Range(t.queue) \cup {e}
    BY <1>1, <1>2, AppendRange
  <1>4. post_event(t, e) = [t EXCEPT !.queue = q]
    BY <1>1 DEF post_event, DState
  <1>5. PICK r : r = [t EXCEPT !.queue = q]
    OBVIOUS
  <1>6. r \in DState /\ r.queue = q /\ r.ctx = t.ctx
    BY <1>3, <1>5 DEF DState
  <1>7. SameRec(t, r)
    BY <1>3, <1>5, <1>6 DEF SameRec, SameCtl, SameReq, DState
  <1> QED BY <1>4, <1>5, <1>6, <1>7 DEF Mild, Others, Raise

LEMMA LazyMild ==
  ASSUME NEW t \in DState
  PROVE  Mild(t, lazy_sync(t)) /\ lazy_sync(t).ctx = t.ctx
  BY PostMild, MildRefl DEF lazy_sync

LEMMA StopMild ==
  ASSUME NEW t \in DState, NEW c \in Threads, NEW dead
  PROVE  Mild(t, context_stop(t, dead, c))
  <1>1. Mild(t, Set(t, c, [exiting |-> TRUE]))
    <2>1. PICK d : d = [exiting |-> TRUE]
      OBVIOUS
    <2>2. DOMAIN d = {"exiting"} /\ d["exiting"] = TRUE /\ d["exiting"] \in TypeOf("exiting")
      BY <2>1 DEF TypeOf
    <2>3. Mild(t, Set(t, c, d))
      BY <2>2, SetMild, Fields
    <2> QED BY <2>1, <2>3
  <1>2. Mild(t, Set(t, c, [sigstop_posted |-> TRUE]))
    <2>1. PICK d : d = [sigstop_posted |-> TRUE]
      OBVIOUS
    <2>2. DOMAIN d = {"sigstop_posted"} /\ d["sigstop_posted"] \in TypeOf("sigstop_posted")
      BY <2>1 DEF TypeOf
    <2>3. Mild(t, Set(t, c, d))
      BY <2>2, SetMild, Fields
    <2> QED BY <2>1, <2>3
  <1> QED BY <1>1, <1>2 DEF context_stop

\* A context with other values of the right types in some fields.
LEMMA CtxWith ==
  ASSUME NEW y, y = [f \in CtxFields |-> y[f]], \A f \in CtxFields : y[f] \in TypeOf(f)
  PROVE  y \in Ctx
  <1>1. \A f : TypeOf(f) \subseteq BOOLEAN \cup Nat
    BY DEF TypeOf
  <1>2. \A f \in CtxFields : y[f] \in BOOLEAN \cup Nat
    BY <1>1
  <1> QED BY <1>2 DEF Ctx

\* A context function that changes minor fields only.
LEMMA CtxMild ==
  ASSUME NEW t \in DState, NEW x \in [Threads -> Ctx],
         \A c \in Threads : Raise(t.ctx[c], x[c])
  PROVE  Mild(t, [t EXCEPT !.ctx = x])
  <1>1. PICK r : r = [t EXCEPT !.ctx = x]
    OBVIOUS
  <1>2. r \in DState /\ SameButCtx(t, r) /\ r.ctx = x
    BY <1>1, NewCtx
  <1> QED BY <1>1, <1>2 DEF Mild, SameRec, SameCtl, SameReq, SameButCtx, Others

LEMMA ResumeTreeMild ==
  ASSUME NEW t \in DState, NEW c \in Threads
  PROVE  Mild(t, resume_context_tree(t, c))
  <1> DEFINE x == [d \in Threads |->
                     IF InterceptGroup(t, d) = InterceptGroup(t, c)
                       THEN [t.ctx[d] EXCEPT !.intercepted = FALSE] ELSE t.ctx[d]]
  <1>1. ASSUME NEW d \in Threads PROVE x[d] \in Ctx /\ Raise(t.ctx[d], x[d])
    <2>1. PICK x0, y : x0 = t.ctx[d] /\ y = [x0 EXCEPT !.intercepted = FALSE]
      OBVIOUS
    <2>2. x0 \in Ctx /\ x0 = [f \in CtxFields |-> x0[f]] /\ \A f \in CtxFields : x0[f] \in TypeOf(f)
      BY <2>1, CtxType DEF Ctx
    <2>3. \A f \in CtxFields : y[f] = IF f = "intercepted" THEN FALSE ELSE x0[f]
      BY <2>1, <2>2
    <2>4. y = [f \in CtxFields |-> y[f]]
      BY <2>1, <2>2
    <2>5. \A f \in CtxFields : y[f] \in TypeOf(f)
      BY <2>2, <2>3 DEF TypeOf
    <2>6. y \in Ctx
      BY <2>4, <2>5, CtxWith
    <2>7. Raise(x0, y)
      BY <2>3, Fields DEF Raise
    <2>8. x[d] \in {y, x0}
      BY <2>1
    <2> QED BY <2>1, <2>2, <2>6, <2>7, <2>8 DEF Raise
  <1>2. x \in [Threads -> Ctx] /\ \A d \in Threads : Raise(t.ctx[d], x[d])
    BY <1>1
  <1>3. PICK y : y = x
    OBVIOUS
  <1>4. Mild(t, [t EXCEPT !.ctx = y])
    BY <1>2, <1>3, CtxMild
  <1>5. PICK u : u = [t EXCEPT !.ctx = y]
    OBVIOUS
  <1>6. Mild(t, lazy_sync(u))
    BY <1>4, <1>5, LazyMild, MildTrans DEF Mild
  <1>7. resume_context_tree(t, c) \in {t, lazy_sync(u)}
    BY <1>3, <1>5 DEF resume_context_tree
  <1> QED BY <1>6, <1>7, MildRefl

LEMMA SuspendMild ==
  ASSUME NEW t \in DState, NEW c \in Threads, NEW dead
  PROVE  Mild(t, suspend_debug_context(t, dead, c))
  <1>1. Mild(t, Set(t, c, [pending_intercept |-> TRUE])) /\ SameButCtx(t, Set(t, c, [pending_intercept |-> TRUE]))
    <2>1. PICK d : d = [pending_intercept |-> TRUE]
      OBVIOUS
    <2>2. DOMAIN d = {"pending_intercept"} /\ d["pending_intercept"] = TRUE
      BY <2>1
    <2>3. \A f \in DOMAIN d : d[f] \in TypeOf(f)
      BY <2>2 DEF TypeOf
    <2>4. Mild(t, Set(t, c, d)) /\ SameButCtx(t, Set(t, c, d))
      BY <2>2, <2>3, SetMild, Fields
    <2> QED BY <2>1, <2>4
  <1>2. PICK u : u = Set(t, c, [pending_intercept |-> TRUE])
    OBVIOUS
  <1>3. u \in DState /\ Mild(t, context_stop(u, dead, c)) /\ Mild(t, lazy_sync(u)) /\ Mild(t, t)
    <2>1. u \in DState
      BY <1>1, <1>2 DEF Mild
    <2>2. Mild(u, context_stop(u, dead, c)) /\ Mild(u, lazy_sync(u)) /\ Mild(t, t)
      BY <2>1, StopMild, LazyMild, MildRefl
    <2> QED BY <1>1, <1>2, <2>1, <2>2, MildTrans
  <1>4. suspend_debug_context(t, dead, c) \in {t, u, context_stop(u, dead, c), lazy_sync(u)}
    BY <1>2 DEF suspend_debug_context
  <1> QED BY <1>1, <1>2, <1>3, <1>4

LEMMA ReportMild ==
  ASSUME NEW t \in DState
  PROVE  Mild(t, send_event_context_suspended(t))
  <1> DEFINE x == [c \in Threads |->
                     IF t.ctx[c].pending_intercept /\ t.ctx[c].stopped
                       THEN [t.ctx[c] EXCEPT !.intercepted = TRUE, !.pending_intercept = FALSE,
                                             !.terminate = FALSE]
                       ELSE t.ctx[c]]
  <1>1. ASSUME NEW c \in Threads PROVE x[c] \in Ctx /\ Raise(t.ctx[c], x[c])
    <2>1. PICK x0, y : /\ x0 = t.ctx[c]
                       /\ y = [x0 EXCEPT !.intercepted = TRUE, !.pending_intercept = FALSE,
                                         !.terminate = FALSE]
      OBVIOUS
    <2>2. x0 \in Ctx /\ x0 = [f \in CtxFields |-> x0[f]] /\ \A f \in CtxFields : x0[f] \in TypeOf(f)
      BY <2>1, CtxType DEF Ctx
    <2>3. \A f \in CtxFields : y[f] = IF f = "intercepted" THEN TRUE
                                     ELSE IF f \in {"pending_intercept", "terminate"} THEN FALSE
                                     ELSE x0[f]
      BY <2>1, <2>2
    <2>4. y = [f \in CtxFields |-> y[f]]
      BY <2>1, <2>2
    <2>5. \A f \in CtxFields : y[f] \in TypeOf(f)
      BY <2>2, <2>3 DEF TypeOf
    <2>6. y \in Ctx
      BY <2>4, <2>5, CtxWith
    <2>7. Raise(x0, y)
      BY <2>3, Fields DEF Raise
    <2>8. x[c] \in {y, x0}
      BY <2>1
    <2> QED BY <2>1, <2>2, <2>6, <2>7, <2>8 DEF Raise
  <1>2. x \in [Threads -> Ctx] /\ \A d \in Threads : Raise(t.ctx[d], x[d])
    BY <1>1
  <1> QED BY <1>2, CtxMild DEF send_event_context_suspended

LEMMA TerminateMild ==
  ASSUME NEW t \in DState, NEW c \in Threads
  PROVE  Mild(t, event_terminate(t, c))
  <1>1. Mild(t, Set(t, c, [pending_intercept |-> FALSE, terminate |-> TRUE])) /\ SameButCtx(t, Set(t, c, [pending_intercept |-> FALSE, terminate |-> TRUE]))
    <2>1. PICK d : d = [pending_intercept |-> FALSE, terminate |-> TRUE]
      OBVIOUS
    <2>2. DOMAIN d = {"pending_intercept", "terminate"} /\ d["pending_intercept"] = FALSE /\ d["terminate"] = TRUE
      BY <2>1
    <2>3. \A f \in DOMAIN d : d[f] \in TypeOf(f)
      BY <2>2 DEF TypeOf
    <2>4. Mild(t, Set(t, c, d)) /\ SameButCtx(t, Set(t, c, d))
      BY <2>2, <2>3, SetMild, Fields
    <2> QED BY <2>1, <2>4
  <1>2. PICK u : u = Set(t, c, [pending_intercept |-> FALSE, terminate |-> TRUE])
    OBVIOUS
  <1>3. Mild(t, resume_context_tree(u, c)) /\ Mild(t, t)
    BY <1>1, <1>2, ResumeTreeMild, MildTrans, MildRefl DEF Mild
  <1>4. event_terminate(t, c) \in {t, resume_context_tree(u, c)}
    BY <1>2 DEF event_terminate
  <1> QED BY <1>3, <1>4

LEMMA TimerMild ==
  ASSUME NEW t \in DState
  PROVE  Mild(t, stop_all_timer(t)) /\ Mild(t, [t EXCEPT !.timer = TRUE])
  <1>0. PICK n \in Nat : n = t.ticks + 1
    BY DEF DState
  <1>1. PICK u : u = [t EXCEPT !.timer = FALSE, !.ticks = n]
    OBVIOUS
  <1>2. u \in DState /\ SameRec(t, u) /\ u.ctx = t.ctx
    BY <1>1 DEF DState, SameRec, SameCtl, SameReq
  <1>3. Mild(t, u)
    BY <1>2 DEF Mild, Others, Raise
  <1>4. Mild(t, post_event(u, "safe"))
    BY <1>2, <1>3, PostMild, MildTrans
  <1>5. PICK v : v = [t EXCEPT !.timer = TRUE]
    OBVIOUS
  <1>6. v \in DState /\ SameRec(t, v) /\ v.ctx = t.ctx
    BY <1>5 DEF DState, SameRec, SameCtl, SameReq
  <1>7. Mild(t, v)
    BY <1>6 DEF Mild, Others, Raise
  <1>8. stop_all_timer(t) = post_event(u, "safe")
    BY <1>0, <1>1 DEF stop_all_timer
  <1> QED BY <1>4, <1>5, <1>7, <1>8

-----------------------------------------------------------------------------
(***************************************************************************)
(* The invariant of the record                                             *)
(***************************************************************************)

Pending(t) == {c \in Threads : t.ctx[c].pending_safe_event}

\* One lock for each safe event and one for a replanting, and d more inside a handler.
Locked(t, d) == t.lock = Len(t.list) + (IF t.replanting THEN 1 ELSE 0) + d

Counted(t) == t.count = Cardinality(Pending(t))

\* Evaluation requests are posted once, and wait or are active only while breakpoints are
\* being replanted.  An event_replant_breakpoints finds some (its assertion).
Requests(t) ==
    /\ IsInjective(t.posted) /\ IsInjective(t.waiting)
    /\ t.posted # <<>> \/ t.waiting # <<>> => t.replanting
    /\ t.loc_posted \subseteq Range(t.posted)
    /\ "replant" \in Range(t.queue) => t.posted # <<>>

\* An instruction is wanted exactly while the breakpoint is enabled, or this is about to be
\* evaluated.
Wanted(t) ==
    \A p \in Processes : ~ProcessExited(t, p) =>
        \/ t.bi[p].refs = t.enabled
        \/ p \in t.loc_posted
        \/ p \in t.loc_active /\ p \in Range(t.waiting)

\* The safe events of q that belong to a step over the instruction of p.
StepEvents(q, p) == {i \in 1..Len(q) : q[i].done \in {"skip", "restore"} /\ GroupOf(q[i].ctx) = p}

Steps(t) == \A p \in Processes : t.bi[p].stepping = Cardinality(StepEvents(t.list, p))

\* An instruction that is wanted is planted unless it is stepped over or flushed soon.
Plants(t) ==
    \A p \in Processes :
        /\ ~ProcessExited(t, p) /\ t.bi[p].refs /\ ~t.bi[p].planted
              => ~t.bi[p].valid \/ t.bi[p].stepping > 0
        /\ ~t.bi[p].valid => t.replanting

RecInv(t, d) ==
    t \in DState /\ Locked(t, d) /\ Counted(t) /\ Requests(t) /\ Wanted(t) /\ Steps(t) /\ Plants(t)

\* A step that changes only the contexts and the count, and brings no process back.
LEMMA RecFrame ==
  ASSUME NEW t, NEW d, RecInv(t, d), NEW r \in DState, SameCtl(t, r), Counted(r),
         \A c \in Threads : Alive(r, c) => ~ProcessExited(t, ProcessOf[c])
  PROVE  RecInv(r, d)
  <1>1. Locked(r, d) /\ Requests(r) /\ Steps(r)
    BY DEF RecInv, SameCtl, SameReq, Locked, Requests, Steps
  <1>2. \A p \in Processes : ~ProcessExited(r, p) => ~ProcessExited(t, p)
    BY DEF ProcessExited, Group
  <1>3. Wanted(r) /\ Plants(r)
    BY <1>2 DEF RecInv, SameCtl, SameReq, Wanted, Plants
  <1> QED BY <1>1, <1>3 DEF RecInv

\* A living thread keeps its process alive.
LEMMA AliveProcess ==
  ASSUME NEW t, NEW c \in Threads, Alive(t, c)
  PROVE  ~ProcessExited(t, ProcessOf[c])
  BY DEF ProcessExited, Group

LEMMA RecMild ==
  ASSUME NEW t, NEW d, RecInv(t, d), NEW r, Mild(t, r)
  PROVE  RecInv(r, d) /\ Pending(r) = Pending(t)
  <1>1. Pending(r) = Pending(t)
    BY DEF Mild, Others, Raise, Pending
  <1>2. \A c \in Threads : Alive(r, c) => ~ProcessExited(t, ProcessOf[c])
    BY AliveProcess DEF Mild, Others, Raise, Alive
  <1>3. Counted(r)
    BY <1>1 DEF RecInv, Counted, Mild, SameRec
  <1> QED BY <1>1, <1>2, <1>3, RecFrame DEF Mild, SameRec

LEMMA PendingFinite ==
  ASSUME NEW t
  PROVE  IsFiniteSet(Pending(t)) /\ Cardinality(Pending(t)) \in Nat
  BY ContextsAssumption, FS_Subset, FS_CardinalityType DEF Pending

\* Counting one thread more or less.
LEMMA PendingAdd ==
  ASSUME NEW t, NEW r, NEW c \in Threads, Pending(r) = Pending(t) \cup {c}, c \notin Pending(t)
  PROVE  Cardinality(Pending(r)) = Cardinality(Pending(t)) + 1
  BY PendingFinite, FS_AddElement

LEMMA PendingRemove ==
  ASSUME NEW t, NEW r, NEW c \in Threads, Pending(r) = Pending(t) \ {c}, c \in Pending(t)
  PROVE  Cardinality(Pending(r)) = Cardinality(Pending(t)) - 1
  BY PendingFinite, FS_RemoveElement

LEMMA CountIs ==
  ASSUME NEW t \in DState, NEW n \in Int, NEW r, r = [t EXCEPT !.count = n]
  PROVE  r \in DState /\ SameCtl(t, r) /\ r.count = n /\ r.ctx = t.ctx
  BY DEF DState, SameCtl, SameReq

-----------------------------------------------------------------------------
(***************************************************************************)
(* The operators of RunCtrl that stop, start or wait for a thread          *)
(***************************************************************************)

\* A thread that keeps its state and may be asked to stop.
Keeps(x, y) ==
    /\ y.known = x.known /\ y.exited = x.exited /\ y.stopped = x.stopped
    /\ y.cannot_stop = x.cannot_stop /\ y.safe_single_step = x.safe_single_step
    /\ x.exiting => y.exiting

LEMMA CheckSafeEvents ==
  ASSUME NEW t, NEW d, RecInv(t, d), NEW c \in Threads, t.ctx[c].pending_safe_event
  PROVE  LET r == check_safe_events(t, c) IN
         /\ RecInv(r, d) /\ SameCtl(t, r) /\ Others(t, r, {c}) /\ Keeps(t.ctx[c], r.ctx[c])
         /\ ~r.ctx[c].pending_safe_event
  <1>0. t \in DState /\ Counted(t)
    BY DEF RecInv
  <1>1. PICK u : /\ u = Set(t, c, [pending_safe_event |-> FALSE])
                 /\ u \in DState /\ SameButCtx(t, u)
                 /\ \A x \in Threads \ {c} : u.ctx[x] = t.ctx[x]
                 /\ \A f \in CtxFields \ {"pending_safe_event"} : u.ctx[c][f] = t.ctx[c][f]
                 /\ u.ctx[c]["pending_safe_event"] = FALSE
    <2>1. PICK e : e = [pending_safe_event |-> FALSE]
      OBVIOUS
    <2>2. DOMAIN e = {"pending_safe_event"} /\ e["pending_safe_event"] = FALSE
      BY <2>1
    <2>3. \A f \in DOMAIN e : e[f] \in TypeOf(f)
      BY <2>2, <1>0 DEF TypeOf
    <2>4. DOMAIN e \subseteq CtxFields
      BY <2>2, Fields
    <2>5. PICK v : v = Set(t, c, e)
      OBVIOUS
    <2>6. /\ v \in DState /\ SameButCtx(t, v)
          /\ \A x \in Threads \ {c} : v.ctx[x] = t.ctx[x]
          /\ \A f \in CtxFields : v.ctx[c][f] = IF f \in DOMAIN e THEN e[f] ELSE t.ctx[c][f]
      BY <2>3, <2>4, <2>5, SetCtx, <1>0
    <2> QED BY <2>1, <2>2, <2>4, <2>5, <2>6
  <1>2. PICK n \in Int : n = u.count - 1
    BY <1>1 DEF DState
  <1>3. PICK r : r = [u EXCEPT !.count = n]
    OBVIOUS
  <1>4. r \in DState /\ SameCtl(u, r) /\ r.count = t.count - 1 /\ r.ctx = u.ctx
    BY <1>1, <1>2, <1>3, CountIs DEF SameButCtx
  <1>5. SameCtl(t, r)
    BY <1>1, <1>4 DEF SameCtl, SameReq, SameButCtx
  <1>6. /\ \A x \in Threads \ {c} : r.ctx[x] = t.ctx[x]
        /\ Keeps(t.ctx[c], r.ctx[c]) /\ ~r.ctx[c].pending_safe_event
    BY <1>1, <1>4, Fields DEF Keeps
  <1>7. Pending(r) = Pending(t) \ {c} /\ c \in Pending(t)
    BY <1>6 DEF Pending
  <1>8. Counted(r)
    BY <1>0, <1>4, <1>7, PendingRemove DEF Counted
  <1>9. \A x \in Threads : Alive(r, x) => ~ProcessExited(t, ProcessOf[x])
    BY <1>6, AliveProcess DEF Alive, Keeps
  <1>10. RecInv(r, d)
    BY <1>4, <1>5, <1>8, <1>9, RecFrame
  <1>11. Mild(r, post_event(r, "safe")) /\ Mild(r, r)
    BY <1>4, PostMild, MildRefl
  <1>12. PICK q : q = check_safe_events(t, c)
    OBVIOUS
  <1>13. q \in {post_event(r, "safe"), r}
    BY <1>1, <1>2, <1>3, <1>12 DEF check_safe_events
  <1>14. Mild(r, q) /\ RecInv(q, d)
    BY <1>10, <1>11, <1>13, RecMild
  <1>15. SameCtl(t, q) /\ Others(t, q, {c}) /\ Keeps(t.ctx[c], q.ctx[c]) /\ ~q.ctx[c].pending_safe_event
    BY <1>5, <1>6, <1>14 DEF Mild, SameRec, SameCtl, SameReq, Others, Raise, Keeps
  <1> QED BY <1>12, <1>14, <1>15

LEMMA StopIfSafeEvents ==
  ASSUME NEW t, NEW d, RecInv(t, d), NEW c \in Threads, NEW dead
  PROVE  LET r == stop_if_safe_events(t, dead, c) IN
         /\ RecInv(r, d) /\ SameCtl(t, r) /\ Others(t, r, {c}) /\ Keeps(t.ctx[c], r.ctx[c])
         /\ t.lock # 0 => r.ctx[c].exiting \/ r.ctx[c].stopped \/ r.ctx[c].pending_safe_event
         /\ t.lock = 0 => r = t
  <1>0. t \in DState
    BY DEF RecInv
  <1>1. PICK s1 : s1 = IF t.ctx[c].safe_single_step THEN t ELSE context_stop(t, dead, c)
    OBVIOUS
  <1>2. Mild(t, s1)
    BY <1>0, <1>1, StopMild, MildRefl
  <1>3. s1 \in DState /\ RecInv(s1, d) /\ Counted(s1) /\ Pending(s1) = Pending(t)
    BY <1>2, RecMild DEF Mild, RecInv
  <1>4. PICK u : /\ u = Set(s1, c, [pending_safe_event |-> TRUE])
                 /\ u \in DState /\ SameButCtx(s1, u)
                 /\ \A x \in Threads \ {c} : u.ctx[x] = s1.ctx[x]
                 /\ \A f \in CtxFields \ {"pending_safe_event"} : u.ctx[c][f] = s1.ctx[c][f]
                 /\ u.ctx[c]["pending_safe_event"] = TRUE
    <2>1. PICK e : e = [pending_safe_event |-> TRUE]
      OBVIOUS
    <2>2. DOMAIN e = {"pending_safe_event"} /\ e["pending_safe_event"] = TRUE
      BY <2>1
    <2>3. \A f \in DOMAIN e : e[f] \in TypeOf(f)
      BY <2>2, <1>3 DEF TypeOf
    <2>4. DOMAIN e \subseteq CtxFields
      BY <2>2, Fields
    <2>5. PICK v : v = Set(s1, c, e)
      OBVIOUS
    <2>6. /\ v \in DState /\ SameButCtx(s1, v)
          /\ \A x \in Threads \ {c} : v.ctx[x] = s1.ctx[x]
          /\ \A f \in CtxFields : v.ctx[c][f] = IF f \in DOMAIN e THEN e[f] ELSE s1.ctx[c][f]
      BY <2>3, <2>4, <2>5, SetCtx, <1>3
    <2> QED BY <2>1, <2>2, <2>4, <2>5, <2>6
  <1>5. PICK n \in Int : n = u.count + 1
    BY <1>4 DEF DState
  <1>6. PICK r : r = [u EXCEPT !.count = n]
    OBVIOUS
  <1>7. r \in DState /\ SameCtl(u, r) /\ r.count = s1.count + 1 /\ r.ctx = u.ctx
    BY <1>4, <1>5, <1>6, CountIs DEF SameButCtx
  <1>8. SameCtl(s1, r)
    BY <1>4, <1>7 DEF SameCtl, SameReq, SameButCtx
  <1>9. /\ \A x \in Threads \ {c} : r.ctx[x] = s1.ctx[x]
        /\ Keeps(s1.ctx[c], r.ctx[c]) /\ r.ctx[c].pending_safe_event
    BY <1>4, <1>7, Fields DEF Keeps
  <1>10. \A x \in Threads : Alive(r, x) => ~ProcessExited(s1, ProcessOf[x])
    BY <1>9, AliveProcess DEF Alive, Keeps
  <1>11. ASSUME ~t.ctx[c].pending_safe_event PROVE RecInv(r, d)
    <2>1. Pending(r) = Pending(s1) \cup {c} /\ c \notin Pending(s1)
      BY <1>3, <1>9, <1>11 DEF Pending
    <2>2. Counted(r)
      BY <1>3, <1>7, <2>1, PendingAdd DEF Counted
    <2> QED BY <1>3, <1>7, <1>8, <1>10, <2>2, RecFrame
  <1>12. SameCtl(t, r) /\ Others(t, r, {c}) /\ Keeps(t.ctx[c], r.ctx[c])
    BY <1>2, <1>8, <1>9 DEF Mild, SameRec, SameCtl, SameReq, Others, Raise, Keeps
  <1>13. SameCtl(t, s1) /\ Others(t, s1, {c}) /\ Keeps(t.ctx[c], s1.ctx[c])
    BY <1>2 DEF Mild, SameRec, SameCtl, SameReq, Others, Raise, Keeps
  <1>14. SameCtl(t, t) /\ Others(t, t, {c}) /\ Keeps(t.ctx[c], t.ctx[c])
    BY DEF SameCtl, SameReq, Others, Raise, Keeps
  <1>15. PICK q : q = stop_if_safe_events(t, dead, c)
    OBVIOUS
  <1>16. CASE t.lock = 0 \/ t.ctx[c].exiting \/ t.ctx[c].stopped
    <2>1. q = t
      BY <1>15, <1>16 DEF stop_if_safe_events
    <2> QED BY <1>14, <1>15, <1>16, <2>1
  <1>17. CASE ~(t.lock = 0 \/ t.ctx[c].exiting \/ t.ctx[c].stopped) /\ t.ctx[c].pending_safe_event
    <2>1. q = s1
      BY <1>1, <1>15, <1>17 DEF stop_if_safe_events
    <2>2. s1.ctx[c].pending_safe_event
      BY <1>2, <1>17 DEF Mild, Others, Raise
    <2> QED BY <1>3, <1>13, <1>15, <1>17, <2>1, <2>2
  <1>18. CASE ~(t.lock = 0 \/ t.ctx[c].exiting \/ t.ctx[c].stopped) /\ ~t.ctx[c].pending_safe_event
    <2>1. q = r
      BY <1>1, <1>4, <1>5, <1>6, <1>15, <1>18 DEF stop_if_safe_events
    <2> QED BY <1>9, <1>11, <1>12, <1>15, <1>18, <2>1
  <1> QED BY <1>16, <1>17, <1>18

\* The thread is reported as started, and stopped again while run control is locked.
Started(x, y) ==
    /\ y.known = x.known /\ y.exited = x.exited /\ ~y.stopped
    /\ y.cannot_stop = x.cannot_stop /\ y.safe_single_step = x.safe_single_step
    /\ x.exiting => y.exiting

LEMMA ContextStarted ==
  ASSUME NEW t, NEW d, RecInv(t, d), NEW c \in Threads, NEW dead
  PROVE  LET r == context_started(t, dead, c) IN
         /\ RecInv(r, d) /\ SameCtl(t, r) /\ Others(t, r, {c}) /\ Started(t.ctx[c], r.ctx[c])
         /\ t.lock # 0 => r.ctx[c].exiting \/ r.ctx[c].pending_safe_event
         /\ t.lock = 0 => r.ctx[c].pending_safe_event = t.ctx[c].pending_safe_event
  <1>0. t \in DState /\ Counted(t)
    BY DEF RecInv
  <1>1. PICK u : /\ u = Set(t, c, [stopped |-> FALSE, stopped_by_bp |-> FALSE, stopped_by_exception |-> FALSE])
                 /\ u \in DState /\ SameButCtx(t, u)
                 /\ \A x \in Threads \ {c} : u.ctx[x] = t.ctx[x]
                 /\ \A f \in CtxFields \ {"stopped", "stopped_by_bp", "stopped_by_exception"} : u.ctx[c][f] = t.ctx[c][f]
                 /\ u.ctx[c]["stopped"] = FALSE
                 /\ u.ctx[c]["stopped_by_bp"] = FALSE
                 /\ u.ctx[c]["stopped_by_exception"] = FALSE
    <2>1. PICK e : e = [stopped |-> FALSE, stopped_by_bp |-> FALSE, stopped_by_exception |-> FALSE]
      OBVIOUS
    <2>2. DOMAIN e = {"stopped", "stopped_by_bp", "stopped_by_exception"} /\ e["stopped"] = FALSE /\ e["stopped_by_bp"] = FALSE /\ e["stopped_by_exception"] = FALSE
      BY <2>1
    <2>3. \A f \in DOMAIN e : e[f] \in TypeOf(f)
      BY <2>2, <1>0 DEF TypeOf
    <2>4. DOMAIN e \subseteq CtxFields
      BY <2>2, Fields
    <2>5. PICK v : v = Set(t, c, e)
      OBVIOUS
    <2>6. /\ v \in DState /\ SameButCtx(t, v)
          /\ \A x \in Threads \ {c} : v.ctx[x] = t.ctx[x]
          /\ \A f \in CtxFields : v.ctx[c][f] = IF f \in DOMAIN e THEN e[f] ELSE t.ctx[c][f]
      BY <2>3, <2>4, <2>5, SetCtx, <1>0
    <2> QED BY <2>1, <2>2, <2>4, <2>5, <2>6
  <1>2. PICK v : v = resume_context_tree(u, c)
    OBVIOUS
  <1>3. Mild(u, v)
    BY <1>1, <1>2, ResumeTreeMild
  <1>4. /\ SameCtl(t, u) /\ u.count = t.count /\ Others(t, u, {c})
        /\ Started(t.ctx[c], u.ctx[c])
        /\ u.ctx[c].pending_safe_event = t.ctx[c].pending_safe_event
    BY <1>1, Fields DEF SameCtl, SameReq, SameButCtx, Others, Raise, Started
  <1>5. RecInv(u, d)
    <2>1. Pending(u) = Pending(t)
      BY <1>4 DEF Pending, Others, Raise
    <2>2. Counted(u)
      BY <1>0, <1>4, <2>1 DEF Counted
    <2>3. \A x \in Threads : Alive(u, x) => ~ProcessExited(t, ProcessOf[x])
      BY <1>4, AliveProcess DEF Alive, Others, Raise, Started
    <2> QED BY <1>1, <1>4, <2>2, <2>3, RecFrame
  <1>6. RecInv(v, d) /\ SameCtl(t, v) /\ Others(t, v, {c}) /\ Started(t.ctx[c], v.ctx[c])
        /\ v.ctx[c].pending_safe_event = t.ctx[c].pending_safe_event
    <2>1. RecInv(v, d)
      BY <1>3, <1>5, RecMild
    <2> QED BY <1>3, <1>4, <2>1 DEF Mild, SameRec, SameCtl, SameReq, Others, Raise, Started
  <1>7. PICK r : r = stop_if_safe_events(v, dead, c)
    OBVIOUS
  <1>8. /\ RecInv(r, d) /\ SameCtl(v, r) /\ Others(v, r, {c}) /\ Keeps(v.ctx[c], r.ctx[c])
        /\ v.lock # 0 => r.ctx[c].exiting \/ r.ctx[c].stopped \/ r.ctx[c].pending_safe_event
        /\ v.lock = 0 => r = v
    BY <1>6, <1>7, StopIfSafeEvents
  <1>9. context_started(t, dead, c) = r
    BY <1>1, <1>2, <1>7 DEF context_started
  <1>10. SameCtl(t, r) /\ v.lock = t.lock /\ Others(t, r, {c}) /\ Started(t.ctx[c], r.ctx[c])
    BY <1>6, <1>8 DEF SameCtl, SameReq, Others, Raise, Started, Keeps
  <1>11. t.lock # 0 => r.ctx[c].exiting \/ r.ctx[c].pending_safe_event
    BY <1>8, <1>10 DEF Started
  <1>12. t.lock = 0 => r.ctx[c].pending_safe_event = t.ctx[c].pending_safe_event
    BY <1>6, <1>8, <1>10
  <1> QED BY <1>8, <1>9, <1>10, <1>11, <1>12

\* What post_safe_event() changes.
LEMMA PostSafeEvent ==
  ASSUME NEW t \in DState, NEW x, NEW done, NEW ev \in SafeEv, ev = [ctx |-> x, done |-> done]
  PROVE  LET r == post_safe_event(t, x, done) IN
         /\ r \in DState /\ r.ctx = t.ctx /\ r.bi = t.bi /\ SameReq(t, r) /\ r.count = t.count
         /\ r.lock = t.lock + 1 /\ r.list = Append(t.list, ev)
  <1>1. PICK n \in Int : n = t.lock + 1
    BY DEF DState
  <1>2. PICK u : u = [t EXCEPT !.lock = n]
    OBVIOUS
  <1>3. u \in DState /\ u.lock = n /\ u.list = t.list /\ u.ctx = t.ctx /\ u.bi = t.bi
        /\ u.count = t.count /\ SameReq(t, u)
    BY <1>2 DEF DState, SameReq
  <1>4. run_ctrl_lock(t) = u
    BY <1>1, <1>2 DEF run_ctrl_lock
  <1>5. PICK w : w = IF t.list = <<>> THEN post_event(u, "safe") ELSE u
    OBVIOUS
  <1>6. Mild(u, w) /\ w.ctx = u.ctx
    BY <1>3, <1>5, PostMild, MildRefl
  <1>7. w \in DState /\ w.lock = n /\ w.list = t.list /\ w.ctx = t.ctx /\ w.bi = t.bi
        /\ w.count = t.count /\ SameReq(t, w)
    BY <1>3, <1>6 DEF Mild, SameRec, SameCtl, SameReq
  <1>8. PICK q : q = Append(t.list, ev)
    OBVIOUS
  <1>9. q \in Seq(SafeEv)
    BY <1>8, AppendRange DEF DState
  <1>10. PICK r : r = [w EXCEPT !.list = q]
    OBVIOUS
  <1>11. /\ r \in DState /\ r.ctx = w.ctx /\ r.bi = w.bi /\ SameReq(w, r) /\ r.count = w.count
         /\ r.lock = w.lock /\ r.list = q
    BY <1>7, <1>9, <1>10 DEF DState, SameReq
  <1>12. post_safe_event(t, x, done) = r
    BY <1>4, <1>5, <1>7, <1>8, <1>10 DEF post_safe_event
  <1>13. SameReq(t, r)
    BY <1>7, <1>11 DEF SameReq
  <1> QED BY <1>1, <1>7, <1>8, <1>11, <1>12, <1>13

LEMMA Unlock ==
  ASSUME NEW t \in DState
  PROVE  LET r == run_ctrl_unlock(t) IN
         /\ r \in DState /\ r.ctx = t.ctx /\ r.bi = t.bi /\ SameReq(t, r) /\ r.count = t.count
         /\ r.lock = t.lock - 1 /\ r.list = t.list
  <1>1. PICK n \in Int : n = t.lock - 1
    BY DEF DState
  <1>2. PICK u : u = [t EXCEPT !.lock = n]
    OBVIOUS
  <1>3. u \in DState /\ u.lock = n /\ u.list = t.list /\ u.ctx = t.ctx /\ u.bi = t.bi
        /\ u.count = t.count /\ SameReq(t, u)
    BY <1>2 DEF DState, SameReq
  <1>4. Mild(u, post_event(u, "safe")) /\ Mild(u, u) /\ post_event(u, "safe").ctx = u.ctx
    BY <1>3, PostMild, MildRefl
  <1>5. PICK r : r = run_ctrl_unlock(t)
    OBVIOUS
  <1>6. r \in {post_event(u, "safe"), u}
    BY <1>1, <1>2, <1>5 DEF run_ctrl_unlock
  <1>7. Mild(u, r) /\ r.ctx = u.ctx
    BY <1>4, <1>6
  <1> QED BY <1>1, <1>3, <1>5, <1>7 DEF Mild, SameRec, SameCtl, SameReq

\* A thread that run_safe_events waits for or gives up.
Awaited(x, y) ==
    /\ y.known = x.known /\ y.exited = x.exited /\ y.stopped = x.stopped
    /\ x.exiting => y.exiting
    /\ x.cannot_stop => y.cannot_stop

\* Every thread of the processes in marks has stopped, does not count, or is waited for.
Marked(t, marks) ==
    \A c \in Threads :
        ProcessOf[c] \in marks /\ Alive(t, c) =>
            \/ t.ctx[c].stopped \/ t.ctx[c].exiting
            \/ t.ctx[c].cannot_stop \/ t.ctx[c].pending_safe_event

LEMMA StopGroups ==
  ASSUME NEW t, NEW d, RecInv(t, d), NEW dead, NEW failing, NEW marks
  PROVE  LET r == stop_groups(t, dead, failing, marks) IN
         /\ RecInv(r, d) /\ SameCtl(t, r) /\ Marked(r, marks)
         /\ \A c \in Threads : Awaited(t.ctx[c], r.ctx[c])
  <1> DEFINE must   == MustStop(t, marks)
             asked  == {c \in must : \/ ~t.ctx[c].safe_single_step
                                     \/ t.ticks >= StopAllMax \div 2}
             giveup == IF t.ticks >= StopAllMax THEN must ELSE asked \cap failing
             waited == must \ giveup
             x(c) == [t.ctx[c] EXCEPT !.pending_safe_event = c \in waited]
             after(c) ==
                 IF c \in giveup THEN
                     [x(c) EXCEPT !.terminate = FALSE, !.safe_single_step = FALSE,
                                  !.cannot_stop = TRUE]
                 ELSE IF c \in asked THEN
                     [x(c) EXCEPT !.exiting = x(c).exiting \/ (c \in dead /\ ~x(c).sigstop_posted),
                                  !.sigstop_posted = x(c).sigstop_posted \/ c \notin dead]
                 ELSE x(c)
             f == [c \in Threads |-> after(c)]
             s1 == [t EXCEPT !.ctx = f, !.count = Cardinality(waited)]
             q == IF waited = {} THEN [s1 EXCEPT !.ticks = 0, !.timer = FALSE] ELSE s1
  <1>0. t \in DState
    BY DEF RecInv
  <1>1. stop_groups(t, dead, failing, marks) = q
    BY Zenon DEF stop_groups
  <1>2. PICK M, A, G, W : M = must /\ A = asked /\ G = giveup /\ W = waited
    OBVIOUS
  <1>3. /\ W = M \ G /\ G \subseteq M /\ A \subseteq M /\ M \subseteq Threads
        /\ \A c \in Threads : c \in M <=> /\ Alive(t, c) /\ ~t.ctx[c].exiting
                                          /\ ~t.ctx[c].cannot_stop /\ ~t.ctx[c].stopped
                                          /\ t.ctx[c].safe_single_step \/ ProcessOf[c] \in marks
    BY <1>2 DEF MustStop
  <1>4. ASSUME NEW c \in Threads
        PROVE  /\ f[c] \in Ctx /\ Awaited(t.ctx[c], f[c])
               /\ f[c].pending_safe_event = (c \in W) /\ (c \in G => f[c].cannot_stop)
    <2>1. PICK x0 : x0 = t.ctx[c]
      OBVIOUS
    <2>2. x0 \in Ctx /\ x0 = [g \in CtxFields |-> x0[g]] /\ \A g \in CtxFields : x0[g] \in TypeOf(g)
      BY <1>0, <2>1, CtxType DEF Ctx
    <2>3. PICK b \in BOOLEAN : b = (c \in W)
      <3>1. (c \in W) \in BOOLEAN
        OBVIOUS
      <3> QED BY <3>1
    <2>4. PICK x1 : x1 = [x0 EXCEPT !.pending_safe_event = b]
      OBVIOUS
    <2>5. /\ \A g \in CtxFields : x1[g] = IF g = "pending_safe_event" THEN b ELSE x0[g]
          /\ x1 = [g \in CtxFields |-> x1[g]]
      BY <2>2, <2>4
    <2>6. x(c) = x1
      BY <1>2, <2>1, <2>3, <2>4
    <2>7. PICK e \in BOOLEAN : e = (x1.exiting \/ (c \in dead /\ ~x1.sigstop_posted))
      OBVIOUS
    <2>8. PICK p \in BOOLEAN : p = (x1.sigstop_posted \/ c \notin dead)
      OBVIOUS
    <2>9. PICK y : y = [x1 EXCEPT !.terminate = FALSE, !.safe_single_step = FALSE,
                                  !.cannot_stop = TRUE]
      OBVIOUS
    <2>10. PICK z : z = [x1 EXCEPT !.exiting = e, !.sigstop_posted = p]
      OBVIOUS
    <2>11. f[c] = IF c \in G THEN y ELSE IF c \in A THEN z ELSE x1
      BY <1>2, <2>6, <2>7, <2>8, <2>9, <2>10
    <2>12. /\ \A g \in CtxFields : y[g] = IF g = "cannot_stop" THEN TRUE
                                          ELSE IF g \in {"terminate", "safe_single_step"} THEN FALSE
                                          ELSE x1[g]
           /\ y = [g \in CtxFields |-> y[g]]
      BY <2>5, <2>9
    <2>13. /\ \A g \in CtxFields : z[g] = IF g = "exiting" THEN e
                                          ELSE IF g = "sigstop_posted" THEN p ELSE x1[g]
           /\ z = [g \in CtxFields |-> z[g]]
      BY <2>5, <2>10
    <2>14. x1 \in Ctx /\ y \in Ctx /\ z \in Ctx
      <3>1. \A g \in CtxFields : x1[g] \in TypeOf(g)
        BY <2>2, <2>5 DEF TypeOf
      <3>2. \A g \in CtxFields : y[g] \in TypeOf(g)
        BY <3>1, <2>12 DEF TypeOf
      <3>3. \A g \in CtxFields : z[g] \in TypeOf(g)
        BY <3>1, <2>13 DEF TypeOf
      <3> QED BY <3>1, <3>2, <3>3, <2>5, <2>12, <2>13, CtxWith
    <2>15. Awaited(x0, x1) /\ Awaited(x0, y) /\ Awaited(x0, z)
      BY <2>5, <2>7, <2>12, <2>13, Fields DEF Awaited
    <2>16. x1.pending_safe_event = b /\ y.pending_safe_event = b /\ z.pending_safe_event = b
           /\ y.cannot_stop
      BY <2>5, <2>12, <2>13, Fields
    <2> QED BY <2>1, <2>3, <2>11, <2>14, <2>15, <2>16
  <1>5. f \in [Threads -> Ctx]
    BY <1>4
  <1>6. PICK h : h = f
    OBVIOUS
  <1>7. /\ h \in [Threads -> Ctx]
        /\ \A c \in Threads : /\ Awaited(t.ctx[c], h[c]) /\ h[c].pending_safe_event = (c \in W)
                              /\ c \in G => h[c].cannot_stop
    BY <1>4, <1>5, <1>6
  <1>8. PICK n \in Nat : n = Cardinality(W)
    BY <1>3, ContextsAssumption, FS_Subset, FS_CardinalityType
  <1>9. PICK u : u = [t EXCEPT !.ctx = h, !.count = n]
    OBVIOUS
  <1>10. PICK v : v = [u EXCEPT !.ticks = 0, !.timer = FALSE]
    OBVIOUS
  <1>11. q = IF W = {} THEN v ELSE u
    BY <1>2, <1>6, <1>8, <1>9, <1>10
  <1> HIDE DEF q, s1, f, after, x, waited, giveup, asked, must
  <1>12. PICK r : r = q
    OBVIOUS
  <1>13. r \in DState /\ SameCtl(t, r) /\ r.ctx = h /\ r.count = n
    <2>1. u \in DState /\ SameCtl(t, u) /\ u.ctx = h /\ u.count = n
      <3>1. h \in [Threads -> Ctx]
        BY <1>7
      <3>2. PICK u1 : u1 = [t EXCEPT !.ctx = h]
        OBVIOUS
      <3>3. u1 \in DState /\ SameButCtx(t, u1) /\ u1.ctx = h
        BY <1>0, <3>1, <3>2, NewCtx
      <3>4. u = [u1 EXCEPT !.count = n]
        BY <1>9, <3>2
      <3>5. u \in DState /\ SameCtl(u1, u) /\ u.count = n /\ u.ctx = u1.ctx
        BY <3>3, <3>4, CountIs
      <3> QED BY <3>3, <3>5 DEF SameCtl, SameReq, SameButCtx
    <2>2. v \in DState /\ SameCtl(u, v) /\ v.ctx = h /\ v.count = n
      BY <2>1, <1>10 DEF DState, SameCtl, SameReq
    <2> QED BY <2>1, <2>2, <1>11, <1>12 DEF SameCtl, SameReq
  <1>14. \A c \in Threads : Awaited(t.ctx[c], r.ctx[c])
    BY <1>7, <1>13
  <1>15. Counted(r)
    <2>1. Pending(r) = W
      BY <1>3, <1>7, <1>13 DEF Pending
    <2> QED BY <2>1, <1>8, <1>13 DEF Counted
  <1>16. \A c \in Threads : Alive(r, c) => Alive(t, c)
    BY <1>14 DEF Awaited, Alive
  <1>17. RecInv(r, d)
    BY <1>13, <1>15, <1>16, AliveProcess, RecFrame
  <1>18. Marked(r, marks)
    BY <1>3, <1>7, <1>13, <1>14, <1>16 DEF Marked, Awaited
  <1> QED BY <1>1, <1>12, <1>13, <1>14, <1>17, <1>18

LEMMA SyncClears ==
  ASSUME NEW t, NEW d, RecInv(t, d), NEW r,
         r = [t EXCEPT !.ticks = 0, !.count = 0, !.ctx =
                [c \in Threads |-> [t.ctx[c] EXCEPT !.pending_safe_event = FALSE]]]
  PROVE  /\ RecInv(r, d) /\ SameCtl(t, r)
         /\ \A c \in Threads : Keeps(t.ctx[c], r.ctx[c]) /\ ~r.ctx[c].pending_safe_event
  <1> DEFINE f == [c \in Threads |-> [t.ctx[c] EXCEPT !.pending_safe_event = FALSE]]
  <1>0. t \in DState
    BY DEF RecInv
  <1>1. ASSUME NEW c \in Threads
        PROVE  f[c] \in Ctx /\ Keeps(t.ctx[c], f[c]) /\ ~f[c].pending_safe_event
    <2>1. PICK x, y : x = t.ctx[c] /\ y = [x EXCEPT !.pending_safe_event = FALSE]
      OBVIOUS
    <2>2. x \in Ctx /\ x = [g \in CtxFields |-> x[g]] /\ \A g \in CtxFields : x[g] \in TypeOf(g)
      BY <1>0, <2>1, CtxType DEF Ctx
    <2>3. /\ \A g \in CtxFields : y[g] = IF g = "pending_safe_event" THEN FALSE ELSE x[g]
          /\ y = [g \in CtxFields |-> y[g]]
      BY <2>1, <2>2
    <2>4. \A g \in CtxFields : y[g] \in TypeOf(g)
      BY <2>2, <2>3 DEF TypeOf
    <2>5. y \in Ctx
      BY <2>3, <2>4, CtxWith
    <2>6. Keeps(x, y) /\ ~y.pending_safe_event
      BY <2>3, Fields DEF Keeps
    <2> QED BY <2>1, <2>5, <2>6
  <1>2. PICK h : h = f
    OBVIOUS
  <1>3. h \in [Threads -> Ctx]
    BY <1>1, <1>2
  <1>4. \A c \in Threads : Keeps(t.ctx[c], h[c]) /\ ~h[c].pending_safe_event
    BY <1>1, <1>2
  <1>5. r = [t EXCEPT !.ticks = 0, !.count = 0, !.ctx = h]
    BY <1>2
  <1> HIDE DEF f
  <1>6. PICK u : u = [t EXCEPT !.ctx = h]
    OBVIOUS
  <1>7. u \in DState /\ SameButCtx(t, u) /\ u.ctx = h
    BY <1>0, <1>3, <1>6, NewCtx
  <1>8. r = [u EXCEPT !.ticks = 0, !.count = 0]
    BY <1>5, <1>6, <1>7 DEF DState
  <1>9. r \in DState /\ SameCtl(u, r) /\ r.count = 0 /\ r.ctx = h
    <2>1. PICK v : v = [u EXCEPT !.ticks = 0]
      OBVIOUS
    <2>2. v \in DState /\ SameCtl(u, v) /\ v.ctx = h
      BY <1>7, <2>1 DEF DState, SameCtl, SameReq
    <2>0. PICK n \in Int : n = 0
      OBVIOUS
    <2>3. r = [v EXCEPT !.count = n]
      BY <1>8, <2>0, <2>1
    <2>4. r \in DState /\ SameCtl(v, r) /\ r.count = n /\ r.ctx = v.ctx
      BY ZenonT(40), <2>2, <2>3, CountIs
    <2> QED BY <2>0, <2>2, <2>4 DEF SameCtl, SameReq
  <1>10. SameCtl(t, r)
    BY <1>7, <1>9 DEF SameCtl, SameReq, SameButCtx
  <1>11. Counted(r)
    <2>1. Pending(r) = {}
      BY <1>4, <1>9 DEF Pending
    <2> QED BY <2>1, <1>9, FS_EmptySet DEF Counted
  <1>12. \A c \in Threads : Alive(r, c) => Alive(t, c)
    BY <1>4, <1>9 DEF Alive, Keeps
  <1>13. RecInv(r, d)
    BY <1>9, <1>10, <1>11, <1>12, AliveProcess, RecFrame
  <1> QED BY <1>4, <1>9, <1>10, <1>13

LEMMA SyncStop ==
  ASSUME NEW d, RecInv(s, d), NEW c \in Threads, ~s.ctx[c].pending_safe_event
  PROVE  LET r == sync_stop(c) IN
         /\ RecInv(r, d) /\ SameCtl(s, r) /\ Others(s, r, {c}) /\ Keeps(s.ctx[c], r.ctx[c])
  <1>a. PICK t, dead : t = s /\ dead = Dead
    OBVIOUS
  <1>0. t \in DState /\ RecInv(t, d) /\ ~t.ctx[c].pending_safe_event
    BY <1>a DEF RecInv
  <1>1. Mild(t, Set(t, c, [pending_intercept |-> TRUE])) /\ SameButCtx(t, Set(t, c, [pending_intercept |-> TRUE]))
    <2>1. PICK g : g = [pending_intercept |-> TRUE]
      OBVIOUS
    <2>2. DOMAIN g = {"pending_intercept"} /\ g["pending_intercept"] = TRUE
      BY <2>1
    <2>3. \A f \in DOMAIN g : g[f] \in TypeOf(f)
      BY <2>2, <1>0 DEF TypeOf
    <2>4. Mild(t, Set(t, c, g)) /\ SameButCtx(t, Set(t, c, g))
      BY <2>2, <2>3, SetMild, Fields, <1>0
    <2> QED BY <2>1, <2>4
  <1>2. PICK s1, s0 : s1 = Set(t, c, [pending_intercept |-> TRUE]) /\ s0 = context_stop(s1, dead, c)
    OBVIOUS
  <1>3. Mild(t, s1) /\ Mild(s1, s0)
    BY <1>1, <1>2, StopMild DEF Mild
  <1>4. Mild(t, s0) /\ s0 \in DState /\ RecInv(s0, d) /\ Counted(s0) /\ Pending(s0) = Pending(t)
    BY <1>0, <1>3, MildTrans, RecMild DEF Mild, RecInv
  <1>5. PICK u : /\ u = Set(s0, c, [pending_safe_event |-> TRUE])
                 /\ u \in DState /\ SameButCtx(s0, u)
                 /\ \A x \in Threads \ {c} : u.ctx[x] = s0.ctx[x]
                 /\ \A f \in CtxFields \ {"pending_safe_event"} : u.ctx[c][f] = s0.ctx[c][f]
                 /\ u.ctx[c]["pending_safe_event"] = TRUE
    <2>1. PICK e : e = [pending_safe_event |-> TRUE]
      OBVIOUS
    <2>2. DOMAIN e = {"pending_safe_event"} /\ e["pending_safe_event"] = TRUE
      BY <2>1
    <2>3. \A f \in DOMAIN e : e[f] \in TypeOf(f)
      BY <2>2, <1>4 DEF TypeOf
    <2>4. DOMAIN e \subseteq CtxFields
      BY <2>2, Fields
    <2>5. PICK v : v = Set(s0, c, e)
      OBVIOUS
    <2>6. /\ v \in DState /\ SameButCtx(s0, v)
          /\ \A x \in Threads \ {c} : v.ctx[x] = s0.ctx[x]
          /\ \A f \in CtxFields : v.ctx[c][f] = IF f \in DOMAIN e THEN e[f] ELSE s0.ctx[c][f]
      BY <2>3, <2>4, <2>5, SetCtx, <1>4
    <2> QED BY <2>1, <2>2, <2>4, <2>5, <2>6
  <1>6. PICK n \in Int : n = t.count + 1
    BY <1>0 DEF DState
  <1>7. PICK r : r = [u EXCEPT !.count = n]
    OBVIOUS
  <1>8. r \in DState /\ SameCtl(u, r) /\ r.count = n /\ r.ctx = u.ctx
    BY <1>5, <1>6, <1>7, CountIs
  <1>9. SameCtl(s0, r)
    BY <1>5, <1>8 DEF SameCtl, SameReq, SameButCtx
  <1>10. /\ \A x \in Threads \ {c} : r.ctx[x] = s0.ctx[x]
         /\ Keeps(s0.ctx[c], r.ctx[c]) /\ r.ctx[c].pending_safe_event
    BY <1>5, <1>8, Fields DEF Keeps
  <1>11. \A x \in Threads : Alive(r, x) => ~ProcessExited(s0, ProcessOf[x])
    BY <1>10, AliveProcess DEF Alive, Keeps
  <1>12. RecInv(r, d)
    <2>1. Pending(r) = Pending(s0) \cup {c} /\ c \notin Pending(s0)
      BY <1>0, <1>4, <1>10 DEF Pending
    <2>2. s0.count = t.count
      BY <1>4 DEF Mild, SameRec
    <2>3. Counted(r)
      BY <1>4, <1>6, <1>8, <2>1, <2>2, PendingAdd DEF Counted
    <2> QED BY <1>4, <1>8, <1>9, <1>11, <2>3, RecFrame
  <1>13. SameCtl(t, r) /\ Others(t, r, {c}) /\ Keeps(t.ctx[c], r.ctx[c])
    BY <1>4, <1>9, <1>10 DEF Mild, SameRec, SameCtl, SameReq, Others, Raise, Keeps
  <1>14. PICK q : q = sync_stop(c)
    OBVIOUS
  <1>15. CASE t.ctx[c].stopped \/ t.ctx[c].exiting
    <2>1. q = s1
      BY <1>a, <1>2, <1>14, <1>15 DEF sync_stop
    <2>2. RecInv(s1, d) /\ SameCtl(t, s1) /\ Others(t, s1, {c}) /\ Keeps(t.ctx[c], s1.ctx[c])
      BY <1>0, <1>3, RecMild DEF Mild, SameRec, SameCtl, SameReq, Others, Raise, Keeps
    <2> QED BY <1>a, <1>14, <2>1, <2>2
  <1>16. CASE ~(t.ctx[c].stopped \/ t.ctx[c].exiting)
    <2>1. u.count = t.count
      BY <1>4, <1>5 DEF Mild, SameRec, SameButCtx
    <2>2. q = r
      BY <1>a, <1>2, <1>5, <1>6, <1>7, <1>14, <1>16, <2>1 DEF sync_stop
    <2> QED BY <1>a, <1>12, <1>13, <1>14, <2>2
  <1> QED BY <1>15, <1>16

-----------------------------------------------------------------------------
(***************************************************************************)
(* Requests to evaluate                                                    *)
(***************************************************************************)

LEMMA ConcatRange ==
  ASSUME NEW S, NEW q \in Seq(S), NEW r \in Seq(S)
  PROVE  /\ q \o r \in Seq(S) /\ Range(q \o r) = Range(q) \cup Range(r)
         /\ IsInjective(q) /\ IsInjective(r) /\ Range(q) \cap Range(r) = {} => IsInjective(q \o r)
         /\ q # <<>> \/ r # <<>> => q \o r # <<>>
  <1>1. PICK w : w = q \o r
    OBVIOUS
  <1>2. PICK m, n : m = Len(q) /\ n = Len(r)
    OBVIOUS
  <1>3. m \in Nat /\ n \in Nat /\ DOMAIN q = 1..m /\ DOMAIN r = 1..n
    BY <1>2
  <1>4. w \in Seq(S) /\ Len(w) = m + n
    BY <1>1, <1>2, ConcatProperties
  <1>5. \A i \in 1..(m + n) : w[i] = IF i <= m THEN q[i] ELSE r[i - m]
    BY <1>1, <1>2, ConcatProperties
  <1>6. DOMAIN w = 1..(m + n)
    BY <1>4
  <1>7. Range(w) = Range(q) \cup Range(r)
    <2>1. Range(w) \subseteq Range(q) \cup Range(r)
      BY <1>3, <1>5, <1>6 DEF Range
    <2>2. ASSUME NEW i \in 1..m PROVE q[i] \in Range(w)
      <3>1. i \in 1..(m + n) /\ w[i] = q[i]
        BY <1>3, <1>5
      <3> QED BY <1>6, <3>1 DEF Range
    <2>3. ASSUME NEW i \in 1..n PROVE r[i] \in Range(w)
      <3>1. m + i \in 1..(m + n) /\ w[m + i] = r[i]
        BY <1>3, <1>5
      <3> QED BY <1>6, <3>1 DEF Range
    <2> QED BY <1>3, <2>1, <2>2, <2>3 DEF Range
  <1>8. ASSUME IsInjective(q), IsInjective(r), Range(q) \cap Range(r) = {}
        PROVE  IsInjective(w)
    <2>1. SUFFICES ASSUME NEW i \in 1..(m + n), NEW j \in 1..(m + n), w[i] = w[j], i <= j
                   PROVE  i = j
      BY <1>3, <1>6 DEF IsInjective
    <2>2. CASE j <= m
      BY <1>3, <1>5, <1>8, <2>1, <2>2 DEF IsInjective
    <2>3. CASE i > m
      <3>1. i - m \in 1..n /\ j - m \in 1..n /\ r[i - m] = r[j - m]
        BY <1>3, <1>5, <2>1, <2>3
      <3>2. i - m = j - m
        BY <1>3, <1>8, <3>1 DEF IsInjective
      <3> QED BY <1>3, <3>2
    <2>4. CASE i <= m /\ j > m
      <3>1. i \in 1..m /\ j - m \in 1..n /\ q[i] = r[j - m]
        BY <1>3, <1>5, <2>1, <2>4
      <3>2. q[i] \in Range(q) \cap Range(r)
        BY <1>3, <3>1 DEF Range
      <3> QED BY <3>2, <1>8
    <2> QED BY <1>3, <2>1, <2>2, <2>3, <2>4
  <1>9. q # <<>> \/ r # <<>> => w # <<>>
    <2>1. SUFFICES ASSUME m > 0 \/ n > 0 PROVE w # <<>>
      BY <1>2
    <2> QED BY <1>3, <1>4, <2>1
  <1> QED BY <1>1, <1>4, <1>7, <1>8, <1>9

LEMMA SetToSeqIs ==
  ASSUME NEW S, IsFiniteSet(S)
  PROVE  /\ SetToSeq(S) \in Seq(S) /\ Range(SetToSeq(S)) = S /\ IsInjective(SetToSeq(S))
         /\ Len(SetToSeq(S)) = Cardinality(S)
  <1>1. PICK n \in Nat : n = Cardinality(S)
    BY FS_CardinalityType
  <1>2. PICK g \in Bijection(1..n, S) : TRUE
    BY <1>1, FS_CardinalityType DEF ExistsBijection
  <1>3. g \in [1..n -> S] /\ IsInjective(g)
    BY <1>2 DEF Bijection, Injection, Surjection, IsInjective
  <1>4. PICK f : f = SetToSeq(S)
    OBVIOUS
  <1>5. f = CHOOSE h \in [1..n -> S] : IsInjective(h)
    BY <1>1, <1>4 DEF SetToSeq
  <1>6. f \in [1..n -> S] /\ IsInjective(f)
    BY <1>3, <1>5
  <1>7. f \in Seq(S) /\ Len(f) = n
    BY <1>6
  <1>8. Range(f) = S
    <2>1. f \in Injection(1..n, S)
      BY <1>6 DEF Injection, IsInjective
    <2>2. Cardinality(1..n) = Cardinality(S)
      BY <1>1, FS_Interval
    <2>3. f \in Surjection(1..n, S)
      BY <2>1, <2>2, FS_Injection
    <2> QED BY <1>6, <2>3 DEF Surjection, Range
  <1> QED BY <1>1, <1>4, <1>6, <1>7, <1>8

\* Only requests to evaluate are added.
Asks(t, r) ==
    /\ r.ctx = t.ctx /\ r.bi = t.bi /\ r.list = t.list /\ r.count = t.count
    /\ r.enabled = t.enabled /\ r.loc_active = t.loc_active /\ r.waiting = t.waiting
    /\ t.loc_posted \subseteq r.loc_posted /\ Range(t.posted) \subseteq Range(r.posted)
    /\ t.replanting => r.replanting

\* The invariant without Wanted.
Base(t, d) == t \in DState /\ Locked(t, d) /\ Counted(t) /\ Requests(t) /\ Steps(t) /\ Plants(t)

LEMMA AsksTrans ==
  ASSUME NEW t, NEW u, NEW r, Asks(t, u), Asks(u, r)
  PROVE  Asks(t, r)
  BY DEF Asks

LEMMA AsksWanted ==
  ASSUME NEW t, NEW r, Asks(t, r), Wanted(t)
  PROVE  Wanted(r)
  <1>1. \A p : ProcessExited(r, p) <=> ProcessExited(t, p)
    BY DEF Asks, ProcessExited, Alive
  <1> QED BY <1>1 DEF Asks, Wanted

\* The parts of the invariant that requests disturb.
LEMMA AsksBase ==
  ASSUME NEW t, NEW d, Base(t, d), NEW r \in DState, Asks(t, r), Locked(r, d), Requests(r)
  PROVE  Base(r, d)
  <1>1. \A p : ProcessExited(r, p) <=> ProcessExited(t, p)
    BY DEF Asks, ProcessExited, Alive
  <1>2. Plants(r)
    BY <1>1 DEF Asks, Plants, Base
  <1>3. Counted(r)
    BY DEF Asks, Counted, Pending, Base
  <1>4. Steps(r)
    BY DEF Asks, Steps, Base
  <1> QED BY <1>2, <1>3, <1>4 DEF Base

\* Requests q and events e that extend those that are posted, with one lock for them all.
Extends(t, q, e, l, n) ==
    /\ q \in Seq(Processes) /\ IsInjective(q) /\ Range(t.posted) \subseteq Range(q) /\ q # <<>>
    /\ e \in Seq({"safe", "sync", "replant"})
    /\ l \subseteq Range(q) /\ t.loc_posted \subseteq l
    /\ n \in Int /\ n = t.lock + (IF t.replanting THEN 0 ELSE 1)

Requested(t, q, e, l, n) ==
    [t EXCEPT !.lock = n, !.posted = q, !.loc_posted = l, !.queue = e, !.replanting = TRUE]

LEMMA NewRequests ==
  ASSUME NEW t, NEW d \in Int, Base(t, d),
         NEW q, NEW e, NEW l, NEW n, Extends(t, q, e, l, n),
         NEW r, r = Requested(t, q, e, l, n)
  PROVE  Base(r, d) /\ Asks(t, r) /\ r.posted = q /\ r.loc_posted = l
  <1>0. t \in DState /\ Requests(t) /\ Locked(t, d)
    BY DEF Base
  <1>1. /\ q \in Seq(Processes) /\ IsInjective(q) /\ Range(t.posted) \subseteq Range(q) /\ q # <<>>
        /\ e \in Seq({"safe", "sync", "replant"})
        /\ l \subseteq Range(q) /\ t.loc_posted \subseteq l
        /\ n \in Int /\ n = t.lock + (IF t.replanting THEN 0 ELSE 1)
    BY DEF Extends
  <1>5. l \in SUBSET Processes
    BY <1>1, RangeOf
  <1>7. /\ r.lock = n /\ r.posted = q /\ r.loc_posted = l /\ r.replanting = TRUE
        /\ r.ctx = t.ctx /\ r.bi = t.bi /\ r.list = t.list /\ r.count = t.count
        /\ r.enabled = t.enabled /\ r.loc_active = t.loc_active /\ r.waiting = t.waiting
    BY <1>0 DEF DState, Requested
  <1>8. r \in DState
    <2>1. PICK u : u = [t EXCEPT !.lock = n, !.replanting = TRUE]
      OBVIOUS
    <2>2. PICK v : v = [u EXCEPT !.posted = q, !.loc_posted = l]
      OBVIOUS
    <2>3. u \in DState
      BY <1>0, <1>1, <2>1 DEF DState
    <2>4. v \in DState
      BY <1>1, <1>5, <2>2, <2>3 DEF DState
    <2>5. r = [v EXCEPT !.queue = e]
      BY <1>0, <2>1, <2>2 DEF Requested, DState
    <2> QED BY <1>1, <2>4, <2>5 DEF DState
  <1>9. Asks(t, r)
    BY <1>1, <1>7 DEF Asks
  <1>10. Locked(r, d)
    <2>1. Len(t.list) \in Nat /\ t.lock \in Int /\ t.replanting \in BOOLEAN
      BY <1>0 DEF DState
    <2>2. t.lock = Len(t.list) + (IF t.replanting THEN 1 ELSE 0) + d
      BY <1>0 DEF Locked
    <2>3. n = t.lock + (IF t.replanting THEN 0 ELSE 1)
      BY <1>1
    <2>4. n = Len(t.list) + 1 + d
      <3>1. PICK m, k : m = Len(t.list) /\ k = t.lock
        OBVIOUS
      <3>2. m \in Nat /\ k \in Int
        BY <2>1, <3>1
      <3>3. CASE t.replanting
        <4>1. k = m + 1 + d /\ n = k + 0
          BY <2>2, <2>3, <3>1, <3>3
        <4> QED BY <3>1, <3>2, <4>1
      <3>4. CASE ~t.replanting
        <4>1. k = m + 0 + d /\ n = k + 1
          BY <2>2, <2>3, <3>1, <3>4
        <4> QED BY <3>1, <3>2, <4>1
      <3> QED BY <3>3, <3>4
    <2> QED BY <1>7, <2>4 DEF Locked
  <1>11. Requests(r)
    BY <1>0, <1>1, <1>7 DEF Requests
  <1>12. Base(r, d)
    BY <1>8, <1>9, <1>10, <1>11, AsksBase
  <1> QED BY <1>7, <1>9, <1>12

LEMMA PostEvaluation ==
  ASSUME NEW t, NEW d \in Int, Base(t, d), NEW p \in Processes
  PROVE  LET r == post_evaluation_request(t, p) IN
         /\ Base(r, d) /\ Asks(t, r) /\ Range(r.posted) = Range(t.posted) \cup {p}
         /\ r.loc_posted = t.loc_posted
  <1>0. t \in DState /\ Requests(t)
    BY DEF Base
  <1>1. PICK r : r = post_evaluation_request(t, p)
    OBVIOUS
  <1>2. CASE p \in Range(t.posted)
    <2>1. r = t
      BY <1>1, <1>2 DEF post_evaluation_request
    <2>2. Asks(t, t)
      BY DEF Asks
    <2> QED BY <1>1, <1>2, <2>1, <2>2
  <1>3. CASE p \notin Range(t.posted)
    <2>1. PICK n \in Int : n = t.lock + (IF t.replanting THEN 0 ELSE 1)
      BY <1>0 DEF DState
    <2>2. PICK q, e : q = Append(t.posted, p) /\ e = Append(t.queue, "replant")
      OBVIOUS
    <2>3. t.posted \in Seq(Processes) /\ t.queue \in Seq({"safe", "sync", "replant"})
          /\ IsInjective(t.posted) /\ t.loc_posted \subseteq Range(t.posted)
      BY <1>0 DEF DState, Requests
    <2>4. /\ q \in Seq(Processes) /\ q # <<>> /\ Range(q) = Range(t.posted) \cup {p}
          /\ IsInjective(q) /\ e \in Seq({"safe", "sync", "replant"})
      BY <1>3, <2>2, <2>3, AppendRange
    <2>5. PICK l, u : /\ l = t.loc_posted
                      /\ u = [t EXCEPT !.lock = n, !.posted = q, !.loc_posted = l, !.queue = e,
                                       !.replanting = TRUE]
      OBVIOUS
    <2>6. Base(u, d) /\ Asks(t, u) /\ u.posted = q /\ u.loc_posted = l
      <3>1. Range(t.posted) \subseteq Range(q) /\ l \subseteq Range(q) /\ t.loc_posted \subseteq l
        BY <2>3, <2>4, <2>5
      <3>2. Extends(t, q, e, l, n)
        BY <2>1, <2>4, <3>1 DEF Extends
      <3>3. u = Requested(t, q, e, l, n)
        BY <2>5 DEF Requested
      <3> QED BY <3>2, <3>3, NewRequests
    <2>7. r = u
      <3>1. PICK s1 : s1 = IF t.replanting THEN t ELSE run_ctrl_lock(t)
        OBVIOUS
      <3>2. s1 = [t EXCEPT !.lock = n]
        <4>1. CASE t.replanting
          <5>1. n = t.lock
            BY <1>0, <2>1, <4>1 DEF DState
          <5> QED BY <1>0, <3>1, <4>1, <5>1 DEF DState
        <4>2. CASE ~t.replanting
          <5>1. n = t.lock + 1
            BY <1>0, <2>1, <4>2 DEF DState
          <5> QED BY <1>0, <3>1, <4>2, <5>1 DEF run_ctrl_lock, DState
        <4> QED BY <4>1, <4>2
      <3>4. r = [[s1 EXCEPT !.posted = Append(s1.posted, p), !.replanting = TRUE]
                    EXCEPT !.queue = Append(s1.queue, "replant")]
        BY <1>0, <1>1, <1>3, <3>1, <3>2 DEF post_evaluation_request, post_event, DState
      <3>5. s1.posted = t.posted /\ s1.queue = t.queue
        BY <1>0, <3>2 DEF DState
      <3>6. r = [t EXCEPT !.lock = n, !.posted = q, !.queue = e, !.replanting = TRUE]
        BY <1>0, <2>2, <3>2, <3>4, <3>5 DEF DState
      <3> QED BY <1>0, <2>5, <3>6 DEF DState
    <2> QED BY <1>1, <2>4, <2>5, <2>6, <2>7
  <1> QED BY <1>2, <1>3

LEMMA PostLocationEvaluation ==
  ASSUME NEW t, NEW d \in Int, Base(t, d), NEW p \in Processes
  PROVE  LET r == post_location_evaluation_request(t, p) IN Base(r, d) /\ Asks(t, r)
  <1>0. t \in DState
    BY DEF Base
  <1>1. PICK r : r = post_location_evaluation_request(t, p)
    OBVIOUS
  <1>2. PICK u : u = post_evaluation_request(t, p)
    OBVIOUS
  <1>3. /\ Base(u, d) /\ Asks(t, u) /\ p \in Range(u.posted) /\ u.loc_posted = t.loc_posted
    BY <1>2, PostEvaluation
  <1>4. PICK v : v = [u EXCEPT !.loc_posted = u.loc_posted \cup {p}]
    OBVIOUS
  <1>5. Base(v, d) /\ Asks(u, v)
    <2>1. v \in DState
      BY <1>3, <1>4 DEF Base, DState
    <2>2. /\ v.loc_posted = u.loc_posted \cup {p} /\ v.lock = u.lock /\ v.list = u.list
          /\ v.replanting = u.replanting /\ v.posted = u.posted /\ v.queue = u.queue
          /\ v.ctx = u.ctx /\ v.bi = u.bi /\ v.count = u.count /\ v.enabled = u.enabled
          /\ v.loc_active = u.loc_active /\ v.waiting = u.waiting
      BY <1>3, <1>4 DEF Base, DState
    <2>3. Asks(u, v)
      BY <2>2 DEF Asks
    <2>4. Locked(v, d) /\ Requests(v)
      BY <1>3, <2>2 DEF Base, Locked, Requests
    <2> QED BY <1>3, <2>1, <2>3, <2>4, AsksBase
  <1>6. r \in {t, v}
    BY <1>1, <1>2, <1>4 DEF post_location_evaluation_request
  <1>7. Base(t, d) /\ Asks(t, t)
    BY DEF Asks
  <1> QED BY <1>1, <1>3, <1>5, <1>6, <1>7, AsksTrans

LEMMA ReplantBreakpoint ==
  ASSUME NEW t, NEW d \in Int, Base(t, d)
  PROVE  LET r == replant_breakpoint(t) IN
         Base(r, d) /\ Asks(t, r) /\ {p \in Processes : ~ProcessExited(t, p)} \subseteq r.loc_posted
  <1>0. t \in DState /\ Requests(t)
    BY DEF Base
  <1>1. PICK r, living, new : /\ r = replant_breakpoint(t)
                              /\ living = {p \in Processes : ~ProcessExited(t, p)}
                              /\ new = living \ Range(t.posted)
    OBVIOUS
  <1>2. PICK n \in Int : n = t.lock + (IF t.replanting THEN 0 ELSE 1)
    BY SMTT(30), <1>0 DEF DState
  <1>3. PICK more, evs : more = SetToSeq(new) /\ evs = [i \in 1..Cardinality(new) |-> "replant"]
    OBVIOUS
  <1>4. new \subseteq Processes /\ IsFiniteSet(new) /\ Cardinality(new) \in Nat
    BY <1>1, ContextsAssumption, FS_Subset, FS_CardinalityType
  <1>5. /\ more \in Seq(new) /\ Range(more) = new /\ IsInjective(more) /\ Len(more) = Cardinality(new)
    BY <1>3, <1>4, SetToSeqIs
  <1>6. more \in Seq(Processes) /\ evs \in Seq({"replant"})
    BY <1>3, <1>4, <1>5
  <1>7. new # {} <=> more # <<>>
    BY <1>4, <1>5, FS_EmptySet
  <1>8. PICK s1 : s1 = IF t.replanting \/ new = {} THEN t ELSE run_ctrl_lock(t)
    OBVIOUS
  <1>9. r = [s1 EXCEPT !.posted = s1.posted \o more, !.loc_posted = s1.loc_posted \cup living,
                       !.queue = s1.queue \o evs, !.replanting = s1.replanting \/ new # {}]
    BY <1>1, <1>3, <1>8 DEF replant_breakpoint
  <1>10. CASE new # {}
    <2>1. PICK q, e, l : /\ q = t.posted \o more /\ e = t.queue \o evs
                         /\ l = t.loc_posted \cup living
      OBVIOUS
    <2>2. t.posted \in Seq(Processes) /\ t.queue \in Seq({"safe", "sync", "replant"})
          /\ IsInjective(t.posted) /\ t.loc_posted \subseteq Range(t.posted)
      BY <1>0 DEF DState, Requests
    <2>3. Range(more) \cap Range(t.posted) = {} /\ living \subseteq Range(t.posted) \cup Range(more)
          /\ more # <<>>
      BY <1>1, <1>5, <1>7, <1>10
    <2>4. /\ q \in Seq(Processes) /\ q # <<>> /\ Range(q) = Range(t.posted) \cup Range(more)
          /\ IsInjective(q)
      BY <1>5, <1>6, <2>1, <2>2, <2>3, ConcatRange
    <2>5. e \in Seq({"safe", "sync", "replant"})
      <3>1. evs \in Seq({"safe", "sync", "replant"})
        BY <1>6
      <3> QED BY <2>1, <2>2, <3>1, ConcatRange
    <2>6. PICK u : u = [t EXCEPT !.lock = n, !.posted = q, !.loc_posted = l, !.queue = e,
                                 !.replanting = TRUE]
      OBVIOUS
    <2>7. Base(u, d) /\ Asks(t, u) /\ u.posted = q /\ u.loc_posted = l
      <3>1. Range(t.posted) \subseteq Range(q) /\ l \subseteq Range(q) /\ t.loc_posted \subseteq l
        BY <2>1, <2>2, <2>3, <2>4
      <3>2. Extends(t, q, e, l, n)
        BY <1>2, <2>4, <2>5, <3>1 DEF Extends
      <3>3. u = Requested(t, q, e, l, n)
        BY <2>6 DEF Requested
      <3> QED BY <3>2, <3>3, NewRequests
    <2>8. s1 = [t EXCEPT !.lock = n]
      <3>1. CASE t.replanting
        <4>1. n = t.lock
          BY <1>0, <1>2, <3>1 DEF DState
        <4> QED BY <1>0, <1>8, <3>1, <4>1 DEF DState
      <3>2. CASE ~t.replanting
        <4>1. n = t.lock + 1
          BY <1>0, <1>2, <3>2 DEF DState
        <4> QED BY <1>0, <1>8, <1>10, <3>2, <4>1 DEF run_ctrl_lock, DState
      <3> QED BY <3>1, <3>2
    <2>9. s1.posted = t.posted /\ s1.loc_posted = t.loc_posted /\ s1.queue = t.queue
          /\ (s1.replanting \/ new # {}) = TRUE
      BY <1>0, <1>10, <2>8 DEF DState
    <2>10. r = u
      BY <1>0, <1>9, <2>1, <2>6, <2>8, <2>9 DEF DState
    <2> QED BY <1>1, <2>1, <2>7, <2>10
  <1>11. CASE new = {}
    <2>1. more = <<>> /\ evs = <<>>
      BY <1>3, <1>4, <1>5, <1>7, <1>11, FS_EmptySet
    <2>2. t.posted \o more = t.posted /\ t.queue \o evs = t.queue
      BY <1>0, <2>1 DEF DState
    <2>3. r = [t EXCEPT !.loc_posted = t.loc_posted \cup living]
      BY <1>0, <1>8, <1>9, <1>11, <2>2 DEF DState
    <2>4. PICK l : l = t.loc_posted \cup living
      OBVIOUS
    <2>5. l \subseteq Range(t.posted)
      BY <1>0, <1>1, <1>11, <2>4 DEF Requests
    <2>6. r \in DState
      <3>1. l \in SUBSET Processes
        BY <1>0, <1>1, <2>4 DEF DState
      <3> QED BY <1>0, <2>3, <2>4, <3>1 DEF DState
    <2>7. /\ r.loc_posted = l /\ r.lock = t.lock /\ r.list = t.list
          /\ r.replanting = t.replanting /\ r.posted = t.posted /\ r.queue = t.queue
          /\ r.ctx = t.ctx /\ r.bi = t.bi /\ r.count = t.count /\ r.enabled = t.enabled
          /\ r.loc_active = t.loc_active /\ r.waiting = t.waiting
      BY <1>0, <2>3, <2>4 DEF DState
    <2>8. Asks(t, r)
      BY <2>4, <2>7 DEF Asks
    <2>9. Locked(r, d)
      BY <2>7 DEF Base, Locked
    <2>10. Requests(r)
      BY <1>0, <2>5, <2>7 DEF Requests
    <2>11. Base(r, d)
      BY <2>6, <2>8, <2>9, <2>10, AsksBase
    <2> QED BY <1>1, <2>4, <2>7, <2>8, <2>11
  <1> QED BY <1>10, <1>11

-----------------------------------------------------------------------------
(***************************************************************************)
(* The safe events that step over an instruction                           *)
(***************************************************************************)

\* A safe event that belongs to a step over the instruction of p.
IsStep(e, p) == e.done \in {"skip", "restore"} /\ GroupOf(e.ctx) = p

LEMMA StepAppend ==
  ASSUME NEW q \in Seq(SafeEv), NEW e \in SafeEv, NEW p
  PROVE  Cardinality(StepEvents(Append(q, e), p))
            = Cardinality(StepEvents(q, p)) + (IF IsStep(e, p) THEN 1 ELSE 0)
  <1>1. PICK r, m : r = Append(q, e) /\ m = Len(q)
    OBVIOUS
  <1>2. m \in Nat /\ Len(r) = m + 1 /\ r[m + 1] = e /\ \A i \in 1..m : r[i] = q[i]
    BY <1>1
  <1>3. 1..(m + 1) = (1..m) \cup {m + 1} /\ m + 1 \notin 1..m
    BY <1>2
  <1>4. StepEvents(q, p) \subseteq 1..m /\ IsFiniteSet(StepEvents(q, p))
    <2>1. StepEvents(q, p) \subseteq 1..m
      BY <1>1 DEF StepEvents
    <2>2. IsFiniteSet(1..m)
      <3>1. 1 \in Int /\ m \in Int
        BY <1>2
      <3> QED BY <3>1, FS_Interval
    <2> QED BY <2>1, <2>2, FS_Subset
  <1>5. Cardinality(StepEvents(q, p)) \in Nat
    BY <1>4, FS_CardinalityType
  <1>6. StepEvents(r, p) = StepEvents(q, p) \cup (IF IsStep(e, p) THEN {m + 1} ELSE {})
    BY <1>1, <1>2, <1>3 DEF StepEvents, IsStep
  <1>7. CASE IsStep(e, p)
    <2>1. StepEvents(r, p) = StepEvents(q, p) \cup {m + 1} /\ m + 1 \notin StepEvents(q, p)
      BY <1>3, <1>4, <1>6, <1>7
    <2>2. Cardinality(StepEvents(r, p)) = Cardinality(StepEvents(q, p)) + 1
      BY <1>4, <2>1, FS_AddElement
    <2> QED BY <1>1, <1>7, <2>2
  <1>8. CASE ~IsStep(e, p)
    <2>1. StepEvents(r, p) = StepEvents(q, p)
      BY <1>6, <1>8
    <2> QED BY <1>1, <1>5, <1>8, <2>1
  <1> QED BY <1>7, <1>8

LEMMA StepTail ==
  ASSUME NEW q \in Seq(SafeEv), q # <<>>, NEW p
  PROVE  /\ Cardinality(StepEvents(q, p))
              = Cardinality(StepEvents(Tail(q), p)) + (IF IsStep(Head(q), p) THEN 1 ELSE 0)
         /\ Cardinality(StepEvents(Tail(q), p)) \in Nat
  <1>1. PICK r, m : r = Tail(q) /\ m = Len(q)
    OBVIOUS
  <1>2. m \in Nat /\ m > 0 /\ Len(r) = m - 1 /\ Head(q) = q[1]
    BY <1>1
  <1>3. \A i \in 1..(m - 1) : r[i] = q[i + 1]
    BY <1>1
  <1> DEFINE R == StepEvents(r, p)
             Q == StepEvents(q, p) \ {1}
             f == [i \in R |-> i + 1]
  <1>4. R \subseteq 1..(m - 1) /\ IsFiniteSet(R)
    <2>1. R \subseteq 1..(m - 1)
      BY <1>2 DEF StepEvents
    <2>2. IsFiniteSet(1..(m - 1))
      BY <1>2, FS_Interval
    <2> QED BY <2>1, <2>2, FS_Subset
  <1>5. f \in Bijection(R, Q)
    <2>1. ASSUME NEW i \in R PROVE i + 1 \in Q
      BY <1>1, <1>2, <1>3, <1>4, <2>1 DEF StepEvents
    <2>2. ASSUME NEW j \in Q PROVE j - 1 \in R /\ (j - 1) + 1 = j
      <3>1. j \in 1..m /\ j # 1
        BY <1>1, <2>2 DEF StepEvents
      <3>2. j - 1 \in 1..(m - 1) /\ (j - 1) + 1 = j
        BY <1>2, <3>1
      <3>3. r[j - 1] = q[j]
        BY <1>3, <3>2
      <3> QED BY <1>2, <2>2, <3>2, <3>3 DEF StepEvents
    <2>3. f \in [R -> Q]
      BY <2>1
    <2>4. \A i, j \in R : f[i] = f[j] => i = j
      BY <1>4
    <2>5. \A j \in Q : \E i \in R : f[i] = j
      BY <2>2
    <2> QED BY <2>3, <2>4, <2>5 DEF Bijection, Injection, Surjection, IsInjective
  <1>6. IsFiniteSet(Q) /\ Cardinality(Q) = Cardinality(R)
    BY <1>4, <1>5, FS_Bijection DEF ExistsBijection
  <1>7. Cardinality(R) \in Nat
    BY <1>4, FS_CardinalityType
  <1>8. 1 \in StepEvents(q, p) <=> IsStep(Head(q), p)
    BY <1>1, <1>2 DEF StepEvents, IsStep
  <1>9. CASE IsStep(Head(q), p)
    <2>1. StepEvents(q, p) = Q \cup {1} /\ 1 \notin Q
      BY <1>8, <1>9
    <2>2. Cardinality(StepEvents(q, p)) = Cardinality(Q) + 1
      BY <1>6, <2>1, FS_AddElement
    <2> QED BY <1>1, <1>6, <1>7, <1>9, <2>2
  <1>10. CASE ~IsStep(Head(q), p)
    <2>1. StepEvents(q, p) = Q
      BY <1>8, <1>10
    <2>2. Cardinality(StepEvents(q, p)) = Cardinality(R)
      BY <1>6, <2>1
    <2>3. (IF IsStep(Head(q), p) THEN 1 ELSE 0) = 0
      BY <1>10
    <2> HIDE DEF Q, R, f
    <2>4. PICK n \in Nat : n = Cardinality(R)
      BY <1>7
    <2>5. n = n + 0
      OBVIOUS
    <2>6. Cardinality(StepEvents(q, p)) = Cardinality(R) + (IF IsStep(Head(q), p) THEN 1 ELSE 0)
      BY <2>2, <2>3, <2>4, <2>5
    <2> USE DEF R
    <2> QED BY <1>1, <1>7, <2>6
  <1> QED BY <1>9, <1>10

\* A client that is done is taken from those that wait.
LEMMA RemoveOne ==
  ASSUME NEW S, NEW q \in Seq(S), IsInjective(q), NEW e, e \in Range(q)
  PROVE  LET r == RemoveFirst(q, e) IN
         r \in Seq(S) /\ IsInjective(r) /\ Range(r) = Range(q) \ {e}
  <1>1. PICK m : m = Len(q)
    OBVIOUS
  <1>2. m \in Nat /\ DOMAIN q = 1..m
    BY <1>1
  <1>3. PICK k \in 1..m : q[k] = e
    BY <1>2 DEF Range
  <1>4. {i \in 1..m : q[i] = e} = {k}
    BY <1>2, <1>3 DEF IsInjective
  <1>5. Min({k}) = k
    BY <1>2, <1>3 DEF Min
  <1>6. SelectInSeq(q, LAMBDA v : v = e) = k
    BY <1>1, <1>4, <1>5 DEF SelectInSeq
  <1>7. RemoveFirst(q, e) = RemoveAt(q, k)
    BY <1>1, <1>3, <1>6 DEF RemoveFirst
  <1>8. PICK a, b : a = SubSeq(q, 1, k - 1) /\ b = SubSeq(q, k + 1, m)
    OBVIOUS
  <1>9. /\ a \in Seq(S) /\ Len(a) = k - 1 /\ \A i \in 1..(k - 1) : a[i] = q[i]
        /\ b \in Seq(S) /\ Len(b) = m - k /\ \A i \in 1..(m - k) : b[i] = q[k + i]
    <2>1. \A i \in 1..(k - 1) : q[i] \in S
      BY <1>1, <1>2, <1>3
    <2>2. a \in Seq(S) /\ Len(a) = k - 1 /\ \A i \in 1..(k - 1) : a[i] = q[i]
      BY <1>1, <1>2, <1>3, <1>8, <2>1, SubSeqProperties
    <2>3. \A i \in (k + 1)..m : q[i] \in S
      BY <1>1, <1>2, <1>3
    <2>4. b \in Seq(S) /\ Len(b) = m - k
      BY <1>1, <1>2, <1>3, <1>8, <2>3, SubSeqProperties
    <2>5. \A i \in 1..(m - k) : b[i] = q[k + i]
      BY <1>1, <1>2, <1>3, <1>8, <2>3, <2>4, SubSeqProperties
    <2> QED BY <2>2, <2>4, <2>5
  <1>10. DOMAIN a = 1..(k - 1) /\ DOMAIN b = 1..(m - k)
    BY <1>2, <1>3, <1>9
  <1>11. IsInjective(a) /\ IsInjective(b) /\ Range(a) \cap Range(b) = {}
    <2>1. IsInjective(a)
      <3>1. SUFFICES ASSUME NEW i \in 1..(k - 1), NEW j \in 1..(k - 1), a[i] = a[j] PROVE i = j
        BY <1>10 DEF IsInjective
      <3>2. i \in 1..m /\ j \in 1..m /\ q[i] = q[j]
        BY <1>2, <1>3, <1>9, <3>1
      <3> QED BY <1>2, <3>2 DEF IsInjective
    <2>2. IsInjective(b)
      <3>1. SUFFICES ASSUME NEW i \in 1..(m - k), NEW j \in 1..(m - k), b[i] = b[j] PROVE i = j
        BY <1>10 DEF IsInjective
      <3>2. k + i \in 1..m /\ k + j \in 1..m /\ q[k + i] = q[k + j]
        BY <1>2, <1>3, <1>9, <3>1
      <3>3. k + i = k + j
        BY <1>2, <3>2 DEF IsInjective
      <3> QED BY <1>2, <1>3, <3>3
    <2>3. ASSUME NEW i \in 1..(k - 1), NEW j \in 1..(m - k), a[i] = b[j] PROVE FALSE
      <3>1. i \in 1..m /\ k + j \in 1..m /\ q[i] = q[k + j]
        BY <1>2, <1>3, <1>9, <2>3
      <3>2. i = k + j
        BY <1>2, <3>1 DEF IsInjective
      <3> QED BY <1>2, <1>3, <3>2
    <2> QED BY <2>1, <2>2, <2>3, <1>10 DEF Range
  <1>12. Range(a) \cup Range(b) = Range(q) \ {e}
    <2>1. ASSUME NEW i \in 1..(k - 1) PROVE a[i] \in Range(q) \ {e}
      <3>1. i \in 1..m /\ i # k /\ a[i] = q[i]
        BY <1>2, <1>3, <1>9
      <3> QED BY <3>1, <1>2, <1>4 DEF Range
    <2>2. ASSUME NEW i \in 1..(m - k) PROVE b[i] \in Range(q) \ {e}
      <3>1. k + i \in 1..m /\ k + i # k /\ b[i] = q[k + i]
        BY <1>2, <1>3, <1>9
      <3> QED BY <3>1, <1>2, <1>4 DEF Range
    <2>3. ASSUME NEW i \in 1..m, q[i] # e PROVE q[i] \in Range(a) \cup Range(b)
      <3>1. CASE i < k
        <4>1. i \in 1..(k - 1)
          BY <1>2, <1>3, <3>1
        <4> QED BY <1>9, <1>10, <4>1 DEF Range
      <3>2. CASE i > k
        <4>1. i - k \in 1..(m - k) /\ k + (i - k) = i
          BY <1>2, <1>3, <3>2
        <4>2. b[i - k] = q[i]
          BY <1>9, <4>1
        <4> QED BY <1>10, <4>1, <4>2 DEF Range
      <3>3. i # k
        BY <1>3, <2>3
      <3> QED BY <1>2, <1>3, <3>1, <3>2, <3>3
    <2>4. Range(a) \cup Range(b) \subseteq Range(q) \ {e}
      BY <1>10, <2>1, <2>2 DEF Range
    <2>5. Range(q) \ {e} \subseteq Range(a) \cup Range(b)
      BY <1>2, <2>3 DEF Range
    <2> QED BY <2>4, <2>5
  <1>13. a \o b \in Seq(S) /\ Range(a \o b) = Range(a) \cup Range(b) /\ IsInjective(a \o b)
    BY <1>9, <1>11, ConcatRange
  <1> QED BY <1>1, <1>7, <1>8, <1>12, <1>13 DEF RemoveAt

-----------------------------------------------------------------------------
(***************************************************************************)
(* Threads that stop, appear or exit                                       *)
(***************************************************************************)

LEMMA AsksRec ==
  ASSUME NEW t, NEW k \in Int, RecInv(t, k), NEW r, Base(r, k), Asks(t, r)
  PROVE  RecInv(r, k) /\ r.bi = t.bi /\ r.ctx = t.ctx /\ Others(t, r, {})
  <1>1. Wanted(r)
    BY AsksWanted DEF RecInv
  <1>2. RecInv(r, k)
    BY <1>1 DEF RecInv, Base
  <1>3. Others(t, r, {})
    BY DEF Asks, Others, Raise
  <1> QED BY <1>2, <1>3 DEF Asks

LEMMA RecBase ==
  ASSUME NEW t, NEW k, RecInv(t, k)
  PROVE  Base(t, k) /\ t \in DState
  BY DEF RecInv, Base

LEMMA EvaluateBreakpoint ==
  ASSUME NEW t, NEW k \in Int, RecInv(t, k), NEW c \in Threads, NEW dead
  PROVE  LET r == evaluate_breakpoint(t, dead, c) IN
         RecInv(r, k) /\ r.bi = t.bi /\ Others(t, r, {})
  <1>0. t \in DState
    BY DEF RecInv
  <1>1. PICK p, r : p = ProcessOf[c] /\ r = evaluate_breakpoint(t, dead, c)
    OBVIOUS
  <1>2. p \in Processes
    BY <1>1, ContextsAssumption
  <1>3. PICK n : n = [t.conds EXCEPT ![p] = t.conds[p] \cup {c}]
    OBVIOUS
  <1>4. n \in [Processes -> SUBSET Threads]
    BY <1>0, <1>2, <1>3 DEF DState
  <1>5. PICK u : u = [t EXCEPT !.conds = n]
    OBVIOUS
  <1>6. u \in DState /\ u.ctx = t.ctx /\ SameRec(t, u)
    BY <1>0, <1>4, <1>5 DEF DState, SameRec, SameCtl, SameReq
  <1>7. Mild(t, u)
    BY <1>6 DEF Mild, Others, Raise
  <1>8. u = [t EXCEPT !.conds[p] = @ \cup {c}]
    BY <1>0, <1>3, <1>5 DEF DState
  <1>9. PICK v, w : v = post_evaluation_request(u, p) /\ w = suspend_debug_context(t, dead, c)
    OBVIOUS
  <1>10. r \in {t, u, v, w}
    BY <1>1, <1>8, <1>9 DEF evaluate_breakpoint
  <1>11. Mild(t, w) /\ Mild(t, t)
    BY <1>0, <1>9, SuspendMild, MildRefl
  <1>12. RecInv(u, k) /\ Others(t, u, {})
    BY <1>7, RecMild DEF Mild
  <1>13. RecInv(v, k) /\ v.bi = u.bi /\ Others(u, v, {})
    <2>1. Base(u, k)
      BY <1>12, RecBase
    <2>2. Base(v, k) /\ Asks(u, v)
      BY <1>2, <1>9, <2>1, PostEvaluation
    <2> QED BY <1>12, <2>2, AsksRec
  <1>14. Others(t, v, {})
    BY <1>12, <1>13, OthersTrans
  <1>15. RecInv(w, k) /\ Others(t, w, {}) /\ Others(t, t, {})
    BY <1>11, RecMild DEF Mild
  <1> QED BY <1>1, <1>6, <1>10, <1>11, <1>12, <1>13, <1>14, <1>15 DEF Mild, SameRec, SameCtl

\* The thread is reported as stopped.
HasStopped(x, y) ==
    /\ y.known = x.known /\ y.exited = x.exited /\ y.stopped
    /\ x.exiting => y.exiting

StopFields == {"sigstop_posted", "at_bp", "stopped_by_bp", "pending_intercept",
               "stopped_by_exception", "exiting"}

LEMMA ContextStopped ==
  ASSUME NEW t, NEW k \in Int, RecInv(t, k), NEW c \in Threads, NEW dd,
         DOMAIN dd \subseteq StopFields, \A f \in DOMAIN dd : dd[f] \in TypeOf(f),
         "exiting" \in DOMAIN dd => dd["exiting"]
  PROVE  LET r == context_stopped(t, c, dd) IN
         RecInv(r, k) /\ r.bi = t.bi /\ Others(t, r, {c}) /\ HasStopped(t.ctx[c], r.ctx[c])
  <1>0. t \in DState /\ Counted(t)
    BY DEF RecInv
  <1>1. PICK u : /\ u = Set(t, c, [stopped |-> TRUE, safe_single_step |-> FALSE, cannot_stop |-> FALSE, at_bp |-> FALSE])
                 /\ u \in DState /\ SameButCtx(t, u)
                 /\ \A x \in Threads \ {c} : u.ctx[x] = t.ctx[x]
                 /\ \A f \in CtxFields \ {"stopped", "safe_single_step", "cannot_stop", "at_bp"} : u.ctx[c][f] = t.ctx[c][f]
                 /\ u.ctx[c]["stopped"] = TRUE
                 /\ u.ctx[c]["safe_single_step"] = FALSE
                 /\ u.ctx[c]["cannot_stop"] = FALSE
                 /\ u.ctx[c]["at_bp"] = FALSE
    <2>1. PICK e : e = [stopped |-> TRUE, safe_single_step |-> FALSE, cannot_stop |-> FALSE, at_bp |-> FALSE]
      OBVIOUS
    <2>2. DOMAIN e = {"stopped", "safe_single_step", "cannot_stop", "at_bp"} /\ e["stopped"] = TRUE /\ e["safe_single_step"] = FALSE /\ e["cannot_stop"] = FALSE /\ e["at_bp"] = FALSE
      BY <2>1
    <2>3. \A f \in DOMAIN e : e[f] \in TypeOf(f)
      BY <2>2, <1>0 DEF TypeOf
    <2>4. DOMAIN e \subseteq CtxFields
      BY <2>2, Fields
    <2>5. PICK v : v = Set(t, c, e)
      OBVIOUS
    <2>6. /\ v \in DState /\ SameButCtx(t, v)
          /\ \A x \in Threads \ {c} : v.ctx[x] = t.ctx[x]
          /\ \A f \in CtxFields : v.ctx[c][f] = IF f \in DOMAIN e THEN e[f] ELSE t.ctx[c][f]
      BY <2>3, <2>4, <2>5, SetCtx, <1>0
    <2> QED BY <2>1, <2>2, <2>4, <2>5, <2>6
  <1>2. /\ SameCtl(t, u) /\ u.count = t.count /\ Others(t, u, {c}) /\ HasStopped(t.ctx[c], u.ctx[c])
        /\ u.ctx[c].pending_safe_event = t.ctx[c].pending_safe_event
    BY <1>1, Fields DEF SameCtl, SameReq, SameButCtx, Others, Raise, HasStopped
  <1>3. PICK v : v = Set(u, c, dd)
    OBVIOUS
  <1>4. Mild(u, v)
    <2>1. DOMAIN dd \subseteq CtxFields
      BY Fields DEF StopFields
    <2>2. DOMAIN dd \cap {"known", "exited", "stopped", "cannot_stop", "pending_safe_event",
                          "safe_single_step"} = {}
      BY DEF StopFields
    <2> QED BY <1>1, <1>3, <2>1, <2>2, SetMild
  <1>5. RecInv(u, k)
    <2>1. Pending(u) = Pending(t)
      BY <1>2 DEF Pending, Others, Raise
    <2>2. Counted(u)
      BY <1>0, <1>2, <2>1 DEF Counted
    <2>3. \A x \in Threads : Alive(u, x) => ~ProcessExited(t, ProcessOf[x])
      BY <1>2, AliveProcess DEF Alive, Others, Raise, HasStopped
    <2> QED BY <1>1, <1>2, <2>2, <2>3, RecFrame
  <1>6. RecInv(v, k) /\ v.bi = t.bi /\ Others(t, v, {c}) /\ HasStopped(t.ctx[c], v.ctx[c])
    <2>1. RecInv(v, k)
      BY <1>4, <1>5, RecMild
    <2> QED BY <1>2, <1>4, <2>1 DEF Mild, SameRec, SameCtl, Others, Raise, HasStopped
  <1>7. PICK w : w = IF v.ctx[c].stopped_by_bp THEN evaluate_breakpoint(v, Dead, c) ELSE v
    OBVIOUS
  <1>8. RecInv(w, k) /\ w.bi = v.bi /\ Others(v, w, {})
    <2>1. PICK dead : dead = Dead
      OBVIOUS
    <2>2. PICK e : e = evaluate_breakpoint(v, dead, c)
      OBVIOUS
    <2>3. RecInv(e, k) /\ e.bi = v.bi /\ Others(v, e, {})
      BY <1>6, <2>2, EvaluateBreakpoint
    <2>4. Others(v, v, {})
      BY DEF Others, Raise
    <2>5. w \in {e, v}
      BY <1>7, <2>1, <2>2
    <2> QED BY <1>6, <2>3, <2>4, <2>5
  <1>9. w.bi = t.bi /\ Others(t, w, {c}) /\ HasStopped(t.ctx[c], w.ctx[c])
    BY <1>6, <1>8 DEF Others, Raise, HasStopped
  <1>10. PICK y : y = IF w.ctx[c].pending_safe_event THEN check_safe_events(w, c) ELSE w
    OBVIOUS
  <1>11. RecInv(y, k) /\ y.bi = t.bi /\ Others(t, y, {c}) /\ HasStopped(t.ctx[c], y.ctx[c])
    <2>1. CASE w.ctx[c].pending_safe_event
      <3>1. y = check_safe_events(w, c)
        BY <1>10, <2>1
      <3>2. RecInv(y, k) /\ SameCtl(w, y) /\ Others(w, y, {c}) /\ Keeps(w.ctx[c], y.ctx[c])
        BY <1>8, <2>1, <3>1, CheckSafeEvents
      <3> QED BY <1>9, <3>2 DEF SameCtl, Others, Raise, HasStopped, Keeps
    <2>2. CASE ~w.ctx[c].pending_safe_event
      <3>1. y = w
        BY <1>10, <2>2
      <3> QED BY <1>8, <1>9, <3>1
    <2> QED BY <2>1, <2>2
  <1>12. PICK z : z = lazy_sync(y)
    OBVIOUS
  <1>13. Mild(y, z)
    BY <1>11, <1>12, LazyMild DEF RecInv
  <1>14. RecInv(z, k)
    BY <1>11, <1>13, RecMild
  <1>15. z.bi = t.bi /\ Others(t, z, {c}) /\ HasStopped(t.ctx[c], z.ctx[c])
    BY <1>11, <1>13 DEF Mild, SameRec, SameCtl, Others, Raise, HasStopped
  <1>16. context_stopped(t, c, dd) = z
    BY <1>1, <1>3, <1>7, <1>10, <1>12, Zenon DEF context_stopped
  <1> QED BY <1>14, <1>15, <1>16

\* The thread has become known and is not stopped.
Appeared(x, y) == y.known /\ y.exited = x.exited /\ y.stopped = x.stopped

LEMMA ThreadAdded ==
  ASSUME NEW t, NEW k \in Int, RecInv(t, k), NEW c \in Threads, NEW e \in Threads,
         Alive(t, c), ProcessOf[c] = ProcessOf[e]
  PROVE  LET r == AddThread(t, e) IN
         RecInv(r, k) /\ r.bi = t.bi /\ Others(t, r, {e}) /\ Appeared(t.ctx[e], r.ctx[e])
  <1>0. t \in DState /\ Counted(t)
    BY DEF RecInv
  <1>1. PICK u : /\ u = Set(t, e, [known |-> TRUE, sigstop_posted |-> TRUE])
                 /\ u \in DState /\ SameButCtx(t, u)
                 /\ \A x \in Threads \ {e} : u.ctx[x] = t.ctx[x]
                 /\ \A f \in CtxFields \ {"known", "sigstop_posted"} : u.ctx[e][f] = t.ctx[e][f]
                 /\ u.ctx[e]["known"] = TRUE
                 /\ u.ctx[e]["sigstop_posted"] = TRUE
    <2>1. PICK g : g = [known |-> TRUE, sigstop_posted |-> TRUE]
      OBVIOUS
    <2>2. DOMAIN g = {"known", "sigstop_posted"} /\ g["known"] = TRUE /\ g["sigstop_posted"] = TRUE
      BY <2>1
    <2>3. \A f \in DOMAIN g : g[f] \in TypeOf(f)
      BY <2>2, <1>0 DEF TypeOf
    <2>4. DOMAIN g \subseteq CtxFields
      BY <2>2, Fields
    <2>5. PICK v : v = Set(t, e, g)
      OBVIOUS
    <2>6. /\ v \in DState /\ SameButCtx(t, v)
          /\ \A x \in Threads \ {e} : v.ctx[x] = t.ctx[x]
          /\ \A f \in CtxFields : v.ctx[e][f] = IF f \in DOMAIN g THEN g[f] ELSE t.ctx[e][f]
      BY <2>3, <2>4, <2>5, SetCtx, <1>0
    <2> QED BY <2>1, <2>2, <2>4, <2>5, <2>6
  <1>2. /\ SameCtl(t, u) /\ u.count = t.count /\ Others(t, u, {e}) /\ Appeared(t.ctx[e], u.ctx[e])
        /\ u.ctx[e].pending_safe_event = t.ctx[e].pending_safe_event
    BY <1>1, Fields DEF SameCtl, SameReq, SameButCtx, Others, Raise, Appeared
  <1>3. RecInv(u, k)
    <2>1. Pending(u) = Pending(t)
      BY <1>2 DEF Pending, Others, Raise
    <2>2. Counted(u)
      BY <1>0, <1>2, <2>1 DEF Counted
    <2>3. \A x \in Threads : Alive(u, x) => ~ProcessExited(t, ProcessOf[x])
      <3>1. ~ProcessExited(t, ProcessOf[e])
        BY AliveProcess
      <3>2. \A x \in Threads \ {e} : Alive(u, x) => Alive(t, x)
        BY <1>2 DEF Alive, Others, Raise
      <3> QED BY <3>1, <3>2, AliveProcess
    <2> QED BY <1>1, <1>2, <2>2, <2>3, RecFrame
  <1>4. PICK dead, v : dead = Dead /\ v = stop_if_safe_events(u, dead, e)
    OBVIOUS
  <1>5. RecInv(v, k) /\ SameCtl(u, v) /\ Others(u, v, {e}) /\ Keeps(u.ctx[e], v.ctx[e])
    BY <1>3, <1>4, StopIfSafeEvents
  <1>6. v.bi = t.bi /\ Others(t, v, {e}) /\ Appeared(t.ctx[e], v.ctx[e])
    BY <1>2, <1>5 DEF SameCtl, Others, Raise, Appeared, Keeps
  <1>7. PICK p, w : p = ProcessOf[e] /\ w = post_location_evaluation_request(v, p)
    OBVIOUS
  <1>8. Base(w, k) /\ Asks(v, w)
    <2>1. p \in Processes
      BY <1>7, ContextsAssumption
    <2>2. Base(v, k)
      BY <1>5, RecBase
    <2> QED BY <1>7, <2>1, <2>2, PostLocationEvaluation
  <1>9. RecInv(w, k) /\ w.bi = v.bi /\ w.ctx = v.ctx
    BY <1>5, <1>8, AsksRec
  <1>10. w.bi = t.bi /\ Others(t, w, {e}) /\ Appeared(t.ctx[e], w.ctx[e])
    BY <1>6, <1>9 DEF Others
  <1>11. AddThread(t, e) = w
    BY <1>1, <1>4, <1>7 DEF AddThread
  <1> QED BY <1>9, <1>10, <1>11

\* What event_pid_exited() leaves.
Exited(t, dead, c) ==
    LET s1 == Set(t, c, [exiting |-> TRUE])
        s2 == IF t.ctx[c].stopped THEN context_started(s1, dead, c) ELSE s1
        s3 == Set(s2, c, [exiting |-> FALSE, exited |-> TRUE,
                          pending_intercept |-> FALSE, intercepted |-> FALSE,
                          safe_single_step |-> FALSE, terminate |-> FALSE])
        s4 == IF s3.ctx[c].pending_safe_event THEN check_safe_events(s3, c) ELSE s3
    IN  post_location_evaluation_request(s4, ProcessOf[c])

\* The thread has ended; it is not stopped any more.
HasExited(x, y) == y.known = x.known /\ y.exited /\ ~y.stopped

LEMMA ContextExited ==
  ASSUME NEW t, NEW k \in Int, RecInv(t, k), NEW c \in Threads, NEW dead
  PROVE  LET r == Exited(t, dead, c) IN
         RecInv(r, k) /\ r.bi = t.bi /\ Others(t, r, {c}) /\ HasExited(t.ctx[c], r.ctx[c])
  <1>0. t \in DState /\ Counted(t)
    BY DEF RecInv
  <1>1. Mild(t, Set(t, c, [exiting |-> TRUE])) /\ SameButCtx(t, Set(t, c, [exiting |-> TRUE]))
    <2>1. PICK d : d = [exiting |-> TRUE]
      OBVIOUS
    <2>2. DOMAIN d = {"exiting"} /\ d["exiting"] = TRUE
      BY <2>1
    <2>3. \A f \in DOMAIN d : d[f] \in TypeOf(f)
      BY <2>2, <1>0 DEF TypeOf
    <2>4. Mild(t, Set(t, c, d)) /\ SameButCtx(t, Set(t, c, d))
      BY <2>2, <2>3, SetMild, Fields, <1>0
    <2> QED BY <2>1, <2>4
  <1>2. PICK s1 : s1 = Set(t, c, [exiting |-> TRUE])
    OBVIOUS
  <1>3. Mild(t, s1)
    BY <1>1, <1>2
  <1>4. RecInv(s1, k)
    BY <1>3, RecMild
  <1>5. PICK s2 : s2 = IF t.ctx[c].stopped THEN context_started(s1, dead, c) ELSE s1
    OBVIOUS
  <1>6. RecInv(s2, k) /\ s2.bi = t.bi /\ Others(t, s2, {c})
        /\ s2.ctx[c].known = t.ctx[c].known /\ ~s2.ctx[c].stopped /\ s2.ctx[c].exited = t.ctx[c].exited
    <2>1. CASE t.ctx[c].stopped
      <3>1. s2 = context_started(s1, dead, c)
        BY <1>5, <2>1
      <3>2. RecInv(s2, k) /\ SameCtl(s1, s2) /\ Others(s1, s2, {c}) /\ Started(s1.ctx[c], s2.ctx[c])
        BY <1>4, <3>1, ContextStarted
      <3> QED BY <1>3, <3>2 DEF Mild, SameRec, SameCtl, Others, Raise, Started
    <2>2. CASE ~t.ctx[c].stopped
      <3>1. s2 = s1
        BY <1>5, <2>2
      <3> QED BY <1>3, <1>4, <2>2, <3>1 DEF Mild, SameRec, SameCtl, Others, Raise
    <2> QED BY <2>1, <2>2
  <1>7. s2 \in DState /\ Counted(s2)
    BY <1>6 DEF RecInv
  <1>8. PICK s3 : /\ s3 = Set(s2, c, [exiting |-> FALSE, exited |-> TRUE, pending_intercept |-> FALSE, intercepted |-> FALSE, safe_single_step |-> FALSE, terminate |-> FALSE])
                  /\ s3 \in DState /\ SameButCtx(s2, s3)
                  /\ \A x \in Threads \ {c} : s3.ctx[x] = s2.ctx[x]
                  /\ \A f \in CtxFields \ {"exiting", "exited", "pending_intercept", "intercepted", "safe_single_step", "terminate"} : s3.ctx[c][f] = s2.ctx[c][f]
                  /\ s3.ctx[c]["exiting"] = FALSE
                  /\ s3.ctx[c]["exited"] = TRUE
                  /\ s3.ctx[c]["pending_intercept"] = FALSE
                  /\ s3.ctx[c]["intercepted"] = FALSE
                  /\ s3.ctx[c]["safe_single_step"] = FALSE
                  /\ s3.ctx[c]["terminate"] = FALSE
    <2>1. PICK e : e = [exiting |-> FALSE, exited |-> TRUE, pending_intercept |-> FALSE, intercepted |-> FALSE, safe_single_step |-> FALSE, terminate |-> FALSE]
      OBVIOUS
    <2>2. DOMAIN e = {"exiting", "exited", "pending_intercept", "intercepted", "safe_single_step", "terminate"} /\ e["exiting"] = FALSE /\ e["exited"] = TRUE /\ e["pending_intercept"] = FALSE /\ e["intercepted"] = FALSE /\ e["safe_single_step"] = FALSE /\ e["terminate"] = FALSE
      BY <2>1
    <2>3. \A f \in DOMAIN e : e[f] \in TypeOf(f)
      BY <2>2, <1>7 DEF TypeOf
    <2>4. DOMAIN e \subseteq CtxFields
      BY <2>2, Fields
    <2>5. PICK v : v = Set(s2, c, e)
      OBVIOUS
    <2>6. /\ v \in DState /\ SameButCtx(s2, v)
          /\ \A x \in Threads \ {c} : v.ctx[x] = s2.ctx[x]
          /\ \A f \in CtxFields : v.ctx[c][f] = IF f \in DOMAIN e THEN e[f] ELSE s2.ctx[c][f]
      BY <2>3, <2>4, <2>5, SetCtx, <1>7
    <2> QED BY <2>1, <2>2, <2>4, <2>5, <2>6
  <1>9. /\ SameCtl(s2, s3) /\ s3.count = s2.count /\ Others(s2, s3, {c}) /\ HasExited(s2.ctx[c], s3.ctx[c])
        /\ s3.ctx[c].pending_safe_event = s2.ctx[c].pending_safe_event
    BY <1>6, <1>8, Fields DEF SameCtl, SameReq, SameButCtx, Others, Raise, HasExited
  <1>10. RecInv(s3, k)
    <2>1. Pending(s3) = Pending(s2)
      BY <1>9 DEF Pending, Others, Raise
    <2>2. Counted(s3)
      BY <1>7, <1>9, <2>1 DEF Counted
    <2>3. \A x \in Threads : Alive(s3, x) => ~ProcessExited(s2, ProcessOf[x])
      BY <1>9, AliveProcess DEF Alive, Others, Raise, HasExited
    <2> QED BY <1>6, <1>8, <1>9, <2>2, <2>3, RecFrame
  <1>11. s3.bi = t.bi /\ Others(t, s3, {c}) /\ HasExited(t.ctx[c], s3.ctx[c])
    BY <1>6, <1>9 DEF SameCtl, Others, Raise, HasExited
  <1>12. PICK s4 : s4 = IF s3.ctx[c].pending_safe_event THEN check_safe_events(s3, c) ELSE s3
    OBVIOUS
  <1>13. RecInv(s4, k) /\ s4.bi = t.bi /\ Others(t, s4, {c}) /\ HasExited(t.ctx[c], s4.ctx[c])
    <2>1. CASE s3.ctx[c].pending_safe_event
      <3>1. s4 = check_safe_events(s3, c)
        BY <1>12, <2>1
      <3>2. RecInv(s4, k) /\ SameCtl(s3, s4) /\ Others(s3, s4, {c}) /\ Keeps(s3.ctx[c], s4.ctx[c])
        BY <1>10, <2>1, <3>1, CheckSafeEvents
      <3> QED BY <1>11, <3>2 DEF SameCtl, Others, Raise, HasExited, Keeps
    <2>2. CASE ~s3.ctx[c].pending_safe_event
      <3>1. s4 = s3
        BY <1>12, <2>2
      <3> QED BY <1>10, <1>11, <3>1
    <2> QED BY <2>1, <2>2
  <1>14. PICK p, r : p = ProcessOf[c] /\ r = post_location_evaluation_request(s4, p)
    OBVIOUS
  <1>15. Base(r, k) /\ Asks(s4, r)
    <2>1. p \in Processes
      BY <1>14, ContextsAssumption
    <2>2. Base(s4, k)
      BY <1>13, RecBase
    <2> QED BY <1>14, <2>1, <2>2, PostLocationEvaluation
  <1>16. RecInv(r, k) /\ r.bi = s4.bi /\ r.ctx = s4.ctx
    BY <1>13, <1>15, AsksRec
  <1>17. r.bi = t.bi /\ Others(t, r, {c}) /\ HasExited(t.ctx[c], r.ctx[c])
    BY <1>13, <1>16 DEF Others
  <1>18. Exited(t, dead, c) = r
    BY <1>2, <1>5, <1>8, <1>12, <1>14, Zenon DEF Exited
  <1> QED BY <1>16, <1>17, <1>18

-----------------------------------------------------------------------------
(***************************************************************************)
(* Stepping over an instruction                                            *)
(***************************************************************************)

\* The invariant without Steps, and Steps when an event for p is about to be posted.
Core(t, k) ==
    t \in DState /\ Locked(t, k) /\ Counted(t) /\ Requests(t) /\ Wanted(t) /\ Plants(t)

StepsPlus(t, p) ==
    \A q \in Processes :
        t.bi[q].stepping = Cardinality(StepEvents(t.list, q)) + (IF q = p THEN 1 ELSE 0)

LEMMA CoreMild ==
  ASSUME NEW t, NEW k, Core(t, k), NEW r, Mild(t, r)
  PROVE  Core(r, k)
  <1>1. Pending(r) = Pending(t)
    BY DEF Mild, Others, Raise, Pending
  <1>2. \A p : ProcessExited(r, p) <=> ProcessExited(t, p)
    BY DEF Mild, Others, Raise, Alive, ProcessExited, Group
  <1>3. Counted(r)
    BY <1>1 DEF Core, Counted, Mild, SameRec
  <1>4. Locked(r, k) /\ Requests(r)
    BY DEF Core, Mild, SameRec, SameCtl, SameReq, Locked, Requests
  <1>5. Wanted(r) /\ Plants(r)
    BY <1>2 DEF Core, Mild, SameRec, SameCtl, SameReq, Wanted, Plants
  <1> QED BY <1>3, <1>4, <1>5 DEF Core, Mild

\* A safe event is posted.
LEMMA Posts ==
  ASSUME NEW t, NEW k \in Int, Core(t, k), NEW x, NEW done, NEW ev \in SafeEv,
         ev = [ctx |-> x, done |-> done],
         \A q \in Processes : t.bi[q].stepping
             = Cardinality(StepEvents(t.list, q)) + (IF IsStep(ev, q) THEN 1 ELSE 0)
  PROVE  LET r == post_safe_event(t, x, done) IN
         /\ RecInv(r, k) /\ r.ctx = t.ctx /\ r.bi = t.bi /\ SameReq(t, r)
         /\ r.list = Append(t.list, ev) /\ r.lock = t.lock + 1
  <1>0. t \in DState /\ t.list \in Seq(SafeEv)
    BY DEF Core, DState
  <1>1. PICK r : r = post_safe_event(t, x, done)
    OBVIOUS
  <1>2. /\ r \in DState /\ r.ctx = t.ctx /\ r.bi = t.bi /\ SameReq(t, r) /\ r.count = t.count
        /\ r.lock = t.lock + 1 /\ r.list = Append(t.list, ev)
    BY <1>0, <1>1, PostSafeEvent
  <1>3. Locked(r, k)
    <2>1. PICK m, n, l : m = Len(t.list) /\ n = (IF t.replanting THEN 1 ELSE 0) /\ l = t.lock
      OBVIOUS
    <2>2. m \in Nat /\ n \in Int /\ l \in Int /\ l = m + n + k
      BY <1>0, <2>1 DEF Core, Locked, DState
    <2>3. Len(r.list) = m + 1
      BY <1>0, <1>2, <2>1
    <2>4. n = IF r.replanting THEN 1 ELSE 0
      BY <1>2, <2>1 DEF SameReq
    <2>5. l + 1 = (m + 1) + n + k
      BY <2>2
    <2> QED BY <1>2, <2>1, <2>3, <2>4, <2>5 DEF Locked
  <1>4. \A p : ProcessExited(r, p) <=> ProcessExited(t, p)
    BY <1>2 DEF ProcessExited, Alive
  <1>5. Counted(r) /\ Requests(r)
    BY <1>2 DEF Core, Counted, Pending, Requests, SameReq
  <1>6. Wanted(r)
    BY <1>2, <1>4 DEF Core, Wanted, SameReq
  <1>7. Plants(r)
    BY <1>2, <1>4 DEF Core, Plants, SameReq
  <1>8. Steps(r)
    BY <1>0, <1>2, StepAppend DEF Steps
  <1> QED BY <1>1, <1>2, <1>3, <1>5, <1>6, <1>7, <1>8 DEF RecInv

\* The records agree but for the instructions.
SameButBi(t, r) ==
    r.ctx = t.ctx /\ r.list = t.list /\ r.lock = t.lock /\ r.count = t.count /\ SameReq(t, r)

WithInstr(t, p, b) == [t EXCEPT !.bi = [t.bi EXCEPT ![p] = b]]

LEMMA NewInstr ==
  ASSUME NEW t \in DState, NEW p \in Processes, NEW b \in Instr,
         NEW r, r = WithInstr(t, p, b)
  PROVE  /\ r \in DState /\ SameButBi(t, r) /\ r.bi[p] = b
         /\ \A q \in Processes \ {p} : r.bi[q] = t.bi[q]
  <1>1. PICK n : n = [t.bi EXCEPT ![p] = b]
    OBVIOUS
  <1>2. t.bi \in [Processes -> Instr]
    BY DEF DState
  <1>3. n \in [Processes -> Instr] /\ n[p] = b /\ \A q \in Processes \ {p} : n[q] = t.bi[q]
    BY <1>1, <1>2
  <1>4. r = [t EXCEPT !.bi = n]
    BY <1>1 DEF WithInstr
  <1>5. r \in DState /\ r.bi = n /\ SameButBi(t, r)
    BY <1>3, <1>4 DEF DState, SameButBi, SameReq
  <1> QED BY <1>3, <1>5

\* Only stepping or planted of the instruction of p changes.
LEMMA InstrCore ==
  ASSUME NEW t, NEW k, Core(t, k), NEW p \in Processes, NEW r \in DState, SameButBi(t, r),
         \A q \in Processes \ {p} : r.bi[q] = t.bi[q],
         r.bi[p].refs = t.bi[p].refs, r.bi[p].valid = t.bi[p].valid,
         ~ProcessExited(t, p) /\ r.bi[p].refs /\ ~r.bi[p].planted
             => ~r.bi[p].valid \/ r.bi[p].stepping > 0
  PROVE  Core(r, k)
  <1>1. \A q : ProcessExited(r, q) <=> ProcessExited(t, q)
    BY DEF SameButBi, ProcessExited, Alive
  <1>2. Locked(r, k) /\ Counted(r) /\ Requests(r)
    BY DEF SameButBi, Core, Locked, Counted, Pending, Requests, SameReq
  <1>3. Wanted(r)
    <2>1. \A q \in Processes : r.bi[q].refs = t.bi[q].refs
      OBVIOUS
    <2> QED BY <1>1, <2>1 DEF SameButBi, Core, Wanted, SameReq
  <1>4. Plants(r)
    <2>1. ASSUME NEW q \in Processes
          PROVE  /\ ~ProcessExited(r, q) /\ r.bi[q].refs /\ ~r.bi[q].planted
                        => ~r.bi[q].valid \/ r.bi[q].stepping > 0
                 /\ ~r.bi[q].valid => r.replanting
      <3>1. CASE q = p
        BY <1>1, <3>1 DEF Core, Plants, SameButBi, SameReq
      <3>2. CASE q # p
        BY <1>1, <3>2 DEF Core, Plants, SameButBi, SameReq
      <3> QED BY <3>1, <3>2
    <2> QED BY <2>1 DEF Plants
  <1> QED BY <1>2, <1>3, <1>4 DEF Core

LEMMA ResumeError ==
  ASSUME NEW t, NEW k \in Int, RecInv(t, k), NEW c \in Threads
  PROVE  LET r == resume_error(t, c) IN RecInv(r, k) /\ r.bi = t.bi /\ Others(t, r, {})
  <1>0. t \in DState
    BY DEF RecInv
  <1>1. Mild(t, Set(t, c, [stopped_by_bp |-> FALSE, stopped_by_exception |-> TRUE, pending_intercept |-> TRUE])) /\ SameButCtx(t, Set(t, c, [stopped_by_bp |-> FALSE, stopped_by_exception |-> TRUE, pending_intercept |-> TRUE]))
    <2>1. PICK d : d = [stopped_by_bp |-> FALSE, stopped_by_exception |-> TRUE, pending_intercept |-> TRUE]
      OBVIOUS
    <2>2. DOMAIN d = {"stopped_by_bp", "stopped_by_exception", "pending_intercept"} /\ d["stopped_by_bp"] = FALSE /\ d["stopped_by_exception"] = TRUE /\ d["pending_intercept"] = TRUE
      BY <2>1
    <2>3. \A f \in DOMAIN d : d[f] \in TypeOf(f)
      BY <2>2, <1>0 DEF TypeOf
    <2>4. Mild(t, Set(t, c, d)) /\ SameButCtx(t, Set(t, c, d))
      BY <2>2, <2>3, SetMild, Fields, <1>0
    <2> QED BY <2>1, <2>4
  <1>2. PICK u : u = Set(t, c, [stopped_by_bp |-> FALSE, stopped_by_exception |-> TRUE, pending_intercept |-> TRUE])
    OBVIOUS
  <1>3. RecInv(u, k) /\ u.bi = t.bi /\ Others(t, u, {})
    <2>1. Mild(t, u)
      BY <1>1, <1>2
    <2>2. RecInv(u, k)
      BY <2>1, RecMild
    <2> QED BY <2>1, <2>2 DEF Mild, SameRec, SameCtl
  <1>4. PICK p, r : p = ProcessOf[c] /\ r = post_location_evaluation_request(u, p)
    OBVIOUS
  <1>5. Base(r, k) /\ Asks(u, r)
    <2>1. p \in Processes
      BY <1>4, ContextsAssumption
    <2>2. Base(u, k)
      BY <1>3, RecBase
    <2> QED BY <1>4, <2>1, <2>2, PostLocationEvaluation
  <1>6. RecInv(r, k) /\ r.bi = u.bi /\ r.ctx = u.ctx
    BY <1>3, <1>5, AsksRec
  <1>7. resume_error(t, c) = r
    BY <1>2, <1>4 DEF resume_error
  <1> QED BY <1>3, <1>6, <1>7 DEF Others

\* The thread is on its single step, and waited for unless it exits.
SingleStep(x, y) ==
    /\ y.known = x.known /\ y.exited = x.exited /\ ~y.stopped
    /\ y.safe_single_step /\ y.cannot_stop = x.cannot_stop
    /\ x.exiting => y.exiting
    /\ y.exiting \/ y.pending_safe_event

LEMMA SingleStepStarts ==
  ASSUME NEW t, NEW k \in Int, RecInv(t, k), NEW c \in Threads, NEW dead,
         ~t.ctx[c].exiting, t.lock # 0
  PROVE  LET r == safe_context_single_step(t, dead, c) IN
         RecInv(r, k) /\ r.bi = t.bi /\ Others(t, r, {c}) /\ SingleStep(t.ctx[c], r.ctx[c])
  <1>0. t \in DState /\ Counted(t)
    BY DEF RecInv
  <1>a. (c \in dead) \in BOOLEAN
    OBVIOUS
  <1>b. PICK b \in BOOLEAN : b = (c \in dead)
    BY <1>a
  <1>1. PICK u : /\ u = Set(t, c, [safe_single_step |-> TRUE, exiting |-> b])
                 /\ u \in DState /\ SameButCtx(t, u)
                 /\ \A x \in Threads \ {c} : u.ctx[x] = t.ctx[x]
                 /\ \A f \in CtxFields \ {"safe_single_step", "exiting"} : u.ctx[c][f] = t.ctx[c][f]
                 /\ u.ctx[c]["safe_single_step"] = TRUE
                 /\ u.ctx[c]["exiting"] = b
    <2>1. PICK e : e = [safe_single_step |-> TRUE, exiting |-> b]
      OBVIOUS
    <2>2. DOMAIN e = {"safe_single_step", "exiting"} /\ e["safe_single_step"] = TRUE /\ e["exiting"] = b
      BY <2>1
    <2>3. \A f \in DOMAIN e : e[f] \in TypeOf(f)
      BY <2>2, <1>0 DEF TypeOf
    <2>4. DOMAIN e \subseteq CtxFields
      BY <2>2, Fields
    <2>5. PICK v : v = Set(t, c, e)
      OBVIOUS
    <2>6. /\ v \in DState /\ SameButCtx(t, v)
          /\ \A x \in Threads \ {c} : v.ctx[x] = t.ctx[x]
          /\ \A f \in CtxFields : v.ctx[c][f] = IF f \in DOMAIN e THEN e[f] ELSE t.ctx[c][f]
      BY <2>3, <2>4, <2>5, SetCtx, <1>0
    <2> QED BY <2>1, <2>2, <2>4, <2>5, <2>6
  <1>2. /\ SameCtl(t, u) /\ u.count = t.count /\ Others(t, u, {c})
        /\ u.ctx[c].known = t.ctx[c].known /\ u.ctx[c].exited = t.ctx[c].exited
        /\ u.ctx[c].cannot_stop = t.ctx[c].cannot_stop /\ u.ctx[c].safe_single_step
        /\ u.ctx[c].pending_safe_event = t.ctx[c].pending_safe_event
    BY <1>1, Fields DEF SameCtl, SameReq, SameButCtx, Others, Raise
  <1>3. RecInv(u, k)
    <2>1. Pending(u) = Pending(t)
      BY <1>2 DEF Pending, Others, Raise
    <2>2. Counted(u)
      BY <1>0, <1>2, <2>1 DEF Counted
    <2>3. \A x \in Threads : Alive(u, x) => ~ProcessExited(t, ProcessOf[x])
      BY <1>2, AliveProcess DEF Alive, Others, Raise
    <2> QED BY <1>1, <1>2, <2>2, <2>3, RecFrame
  <1>4. PICK r : r = context_started(u, dead, c)
    OBVIOUS
  <1>5. /\ RecInv(r, k) /\ SameCtl(u, r) /\ Others(u, r, {c}) /\ Started(u.ctx[c], r.ctx[c])
        /\ u.lock # 0 => r.ctx[c].exiting \/ r.ctx[c].pending_safe_event
    BY <1>3, <1>4, ContextStarted
  <1>6. r.bi = t.bi /\ Others(t, r, {c}) /\ SingleStep(t.ctx[c], r.ctx[c])
    BY <1>2, <1>5 DEF SameCtl, Others, Raise, Started, SingleStep
  <1>7. safe_context_single_step(t, dead, c) = r
    BY <1>b, <1>1, <1>4 DEF safe_context_single_step
  <1> QED BY <1>5, <1>6, <1>7

\* What a safe event of c does to the other threads and processes, and to c.
Stepped(t, r, c) ==
    /\ \A q \in Processes \ {ProcessOf[c]} : r.bi[q] = t.bi[q]
    /\ Others(t, r, {c})
    /\ Raise(t.ctx[c], r.ctx[c]) \/ SingleStep(t.ctx[c], r.ctx[c])

LEMMA SafeSkip ==
  ASSUME NEW t, NEW k \in Nat, Core(t, k), NEW c \in Threads, StepsPlus(t, ProcessOf[c]),
         NEW dead, NEW failing
  PROVE  LET r == safe_skip_breakpoint(t, dead, failing, c) IN RecInv(r, k) /\ Stepped(t, r, c)
  <1>0. t \in DState /\ t.list \in Seq(SafeEv)
    BY DEF Core, DState
  <1>1. PICK p : p = ProcessOf[c]
    OBVIOUS
  <1>2. p \in Processes /\ GroupOf(c) = p
    BY <1>1, ContextsAssumption DEF GroupOf
  <1>3. PICK ev : ev = [ctx |-> c, done |-> "restore"]
    OBVIOUS
  <1>4. ev \in SafeEv /\ \A q : IsStep(ev, q) <=> q = p
    BY <1>2, <1>3 DEF SafeEv, IsStep
  <1>5. PICK u : u = post_safe_event(t, c, "restore")
    OBVIOUS
  <1>6. /\ RecInv(u, k) /\ u.ctx = t.ctx /\ u.bi = t.bi /\ u.list = Append(t.list, ev)
        /\ u.lock = t.lock + 1
    <2>1. \A q \in Processes : t.bi[q].stepping
             = Cardinality(StepEvents(t.list, q)) + (IF IsStep(ev, q) THEN 1 ELSE 0)
      BY <1>1, <1>4 DEF StepsPlus
    <2> QED BY <1>3, <1>4, <1>5, <2>1, Posts
  <1>7. u.bi[p].stepping > 0
    <2>1. IsFiniteSet(StepEvents(t.list, p))
      <3>1. StepEvents(t.list, p) \subseteq 1..Len(t.list)
        BY DEF StepEvents
      <3>2. Len(t.list) \in Int /\ 1 \in Int
        BY <1>0
      <3>3. IsFiniteSet(1..Len(t.list))
        BY <3>2, FS_Interval
      <3> QED BY <3>1, <3>3, FS_Subset
    <2>2. PICK n \in Nat : n = Cardinality(StepEvents(t.list, p))
      BY <2>1, FS_CardinalityType
    <2>3. u.bi[p].stepping = n + 1
      BY <1>1, <1>2, <1>6, <2>2 DEF StepsPlus
    <2> QED BY <2>3
  <1>8. u.lock # 0
    <2>1. Len(u.list) \in Nat /\ Len(u.list) > 0
      BY <1>0, <1>4, <1>6
    <2>2. PICK n \in Nat : n = IF u.replanting THEN 1 ELSE 0
      OBVIOUS
    <2>3. u.lock = Len(u.list) + n + k
      BY <1>6, <2>2 DEF RecInv, Locked
    <2> QED BY <2>1, <2>3
  <1>9. Stepped(t, u, c)
    BY <1>6 DEF Stepped, Others, Raise
  <1>10. u \in DState /\ u.bi[p] \in Instr
    BY <1>2, <1>6 DEF RecInv, DState
  <1>11. PICK b : b = [u.bi[p] EXCEPT !.planted = FALSE]
    OBVIOUS
  <1>12. b \in Instr /\ b.refs = u.bi[p].refs /\ b.valid = u.bi[p].valid
         /\ b.stepping = u.bi[p].stepping
    BY <1>10, <1>11 DEF Instr
  <1>13. PICK v : v = WithInstr(u, p, b)
    OBVIOUS
  <1>14. /\ v \in DState /\ SameButBi(u, v) /\ v.bi[p] = b
         /\ \A q \in Processes \ {p} : v.bi[q] = u.bi[q]
    BY <1>2, <1>10, <1>12, <1>13, NewInstr
  <1>15. RecInv(v, k)
    <2>1. Core(u, k) /\ Steps(u)
      BY <1>6 DEF RecInv, Core
    <2>2. Core(v, k)
      BY <1>2, <1>7, <1>12, <1>14, <2>1, InstrCore
    <2>3. \A q \in Processes : v.bi[q].stepping = u.bi[q].stepping
      BY <1>12, <1>14
    <2>4. Steps(v)
      BY <1>14, <2>1, <2>3 DEF Steps, SameButBi
    <2> QED BY <2>2, <2>4 DEF Core, RecInv
  <1>16. Stepped(t, v, c) /\ v.lock # 0 /\ v.ctx = t.ctx
    BY <1>1, <1>6, <1>8, <1>14 DEF Stepped, Others, Raise, SameButBi
  <1>17. remove_instruction(u, p) = v
    BY <1>10, <1>11, <1>13 DEF remove_instruction, DState, WithInstr
  <1>18. PICK r : r = safe_skip_breakpoint(t, dead, failing, c)
    OBVIOUS
  <1>19. r = IF t.ctx[c].exited \/ t.ctx[c].exiting THEN u
             ELSE IF c \in failing THEN resume_error(v, c)
             ELSE safe_context_single_step(v, dead, c)
    BY <1>1, <1>5, <1>17, <1>18 DEF safe_skip_breakpoint
  <1>20. CASE t.ctx[c].exited \/ t.ctx[c].exiting
    <2>1. r = u
      BY <1>19, <1>20
    <2> QED BY <1>6, <1>9, <1>18, <2>1
  <1>21. CASE ~(t.ctx[c].exited \/ t.ctx[c].exiting) /\ c \in failing
    <2>1. r = resume_error(v, c)
      BY <1>19, <1>21
    <2>2. RecInv(r, k) /\ r.bi = v.bi /\ Others(v, r, {})
      BY <1>15, <2>1, ResumeError
    <2>3. Stepped(t, r, c)
      BY <1>16, <2>2 DEF Stepped, Others, Raise
    <2> QED BY <1>18, <2>2, <2>3
  <1>22. CASE ~(t.ctx[c].exited \/ t.ctx[c].exiting) /\ c \notin failing
    <2>1. r = safe_context_single_step(v, dead, c)
      BY <1>19, <1>22
    <2>2. RecInv(r, k) /\ r.bi = v.bi /\ Others(v, r, {c}) /\ SingleStep(v.ctx[c], r.ctx[c])
      BY <1>15, <1>16, <1>22, <2>1, SingleStepStarts
    <2>3. Stepped(t, r, c)
      BY <1>16, <2>2 DEF Stepped, Others, Raise
    <2> QED BY <1>18, <2>2, <2>3
  <1> QED BY <1>20, <1>21, <1>22

LEMMA SafeRestore ==
  ASSUME NEW t, NEW k \in Nat, Core(t, k), NEW c \in Threads, StepsPlus(t, ProcessOf[c]),
         NEW dead, NEW failing
  PROVE  LET r == safe_restore_breakpoint(t, dead, failing, c) IN RecInv(r, k) /\ Stepped(t, r, c)
  <1>0. t \in DState /\ t.list \in Seq(SafeEv) /\ t.ctx[c]["skips"] \in Nat
    BY CtxType DEF Core, DState
  <1>1. PICK p : p = ProcessOf[c]
    OBVIOUS
  <1>2. p \in Processes /\ StepsPlus(t, p)
    BY <1>1, ContextsAssumption
  <1>3. PICK n \in Nat : n = t.ctx[c].skips + 1
    BY <1>0
  <1>4. Mild(t, Set(t, c, [skips |-> n])) /\ SameButCtx(t, Set(t, c, [skips |-> n]))
    <2>1. PICK d : d = [skips |-> n]
      OBVIOUS
    <2>2. DOMAIN d = {"skips"} /\ d["skips"] = n
      BY <2>1
    <2>3. \A f \in DOMAIN d : d[f] \in TypeOf(f)
      BY <2>2, <1>0 DEF TypeOf
    <2>4. Mild(t, Set(t, c, d)) /\ SameButCtx(t, Set(t, c, d))
      BY <2>2, <2>3, SetMild, Fields, <1>0
    <2> QED BY <2>1, <2>4
  <1>5. Mild(t, Set(t, c, [stepping_over_bp |-> FALSE, skips |-> 0])) /\ SameButCtx(t, Set(t, c, [stepping_over_bp |-> FALSE, skips |-> 0]))
    <2>1. PICK d : d = [stepping_over_bp |-> FALSE, skips |-> 0]
      OBVIOUS
    <2>2. DOMAIN d = {"stepping_over_bp", "skips"} /\ d["stepping_over_bp"] = FALSE /\ d["skips"] = 0
      BY <2>1
    <2>3. \A f \in DOMAIN d : d[f] \in TypeOf(f)
      <3>1. 0 \in TypeOf("skips") /\ FALSE \in TypeOf("stepping_over_bp")
        BY DEF TypeOf
      <3> QED BY <2>2, <3>1
    <2>4. Mild(t, Set(t, c, d)) /\ SameButCtx(t, Set(t, c, d))
      BY <2>2, <2>3, SetMild, Fields, <1>0
    <2> QED BY <2>1, <2>4
  <1>6. PICK r : r = safe_restore_breakpoint(t, dead, failing, c)
    OBVIOUS
  <1>7. CASE StepAgain(t, c)
    <2>1. PICK u : u = Set(t, c, [skips |-> n])
      OBVIOUS
    <2>2. r = safe_skip_breakpoint(u, dead, failing, c)
      BY <1>3, <1>6, <1>7, <2>1 DEF safe_restore_breakpoint
    <2>3. Mild(t, u) /\ Core(u, k)
      BY <1>4, <2>1, CoreMild
    <2>4. StepsPlus(u, p)
      BY <1>2, <2>3 DEF StepsPlus, Mild, SameRec, SameCtl
    <2>5. RecInv(r, k) /\ Stepped(u, r, c)
      BY <1>1, <2>2, <2>3, <2>4, SafeSkip
    <2>6. Stepped(t, r, c)
      BY <2>3, <2>5 DEF Stepped, Mild, SameRec, SameCtl, Others, Raise, SingleStep
    <2> QED BY <1>6, <2>5, <2>6
  <1>8. CASE ~StepAgain(t, c)
    <2>1. PICK u : u = Set(t, c, [stepping_over_bp |-> FALSE, skips |-> 0])
      OBVIOUS
    <2>2. Mild(t, u) /\ Core(u, k) /\ u \in DState
      BY <1>5, <2>1, CoreMild DEF Mild
    <2>3. StepsPlus(u, p) /\ u.bi = t.bi /\ u.bi[p] \in Instr
      BY <1>2, <2>2 DEF StepsPlus, Mild, SameRec, SameCtl, DState
    <2>4. PICK m \in Int : m = u.bi[p].stepping - 1
      BY <2>3 DEF Instr
    <2>5. PICK b : b = [u.bi[p] EXCEPT !.stepping = m]
      OBVIOUS
    <2>6. b \in Instr /\ b.stepping = m /\ b.refs = u.bi[p].refs /\ b.valid = u.bi[p].valid
          /\ b.planted = u.bi[p].planted
      BY <2>3, <2>5 DEF Instr
    <2>7. PICK v : v = WithInstr(u, p, b)
      OBVIOUS
    <2>8. /\ v \in DState /\ SameButBi(u, v) /\ v.bi[p] = b
          /\ \A q \in Processes \ {p} : v.bi[q] = u.bi[q]
      BY <1>2, <2>2, <2>6, <2>7, NewInstr
    <2>9. m = Cardinality(StepEvents(t.list, p)) /\ m \in Nat
      <3>1. IsFiniteSet(StepEvents(t.list, p))
        <4>1. StepEvents(t.list, p) \subseteq 1..Len(t.list)
          BY DEF StepEvents
        <4>2. Len(t.list) \in Int /\ 1 \in Int
          BY <1>0
        <4>3. IsFiniteSet(1..Len(t.list))
          BY <4>2, FS_Interval
        <4> QED BY <4>1, <4>3, FS_Subset
      <3>2. PICK h \in Nat : h = Cardinality(StepEvents(t.list, p))
        BY <3>1, FS_CardinalityType
      <3>3. u.bi[p].stepping = h + 1
        BY <1>2, <2>3, <3>2 DEF StepsPlus
      <3> QED BY <2>4, <3>2, <3>3
    <2>10. PICK a : a = [b EXCEPT !.planted = TRUE]
      OBVIOUS
    <2>11. a \in Instr /\ a.stepping = m /\ a.refs = b.refs /\ a.valid = b.valid /\ a.planted
      BY <2>6, <2>10 DEF Instr
    <2>12. PICK w : w = WithInstr(v, p, a)
      OBVIOUS
    <2>13. /\ w \in DState /\ SameButBi(v, w) /\ w.bi[p] = a
           /\ \A q \in Processes \ {p} : w.bi[q] = v.bi[q]
      BY <1>2, <2>8, <2>11, <2>12, NewInstr
    <2>14. v = [u EXCEPT !.bi[p].stepping = @ - 1]
      BY <2>2, <2>4, <2>5, <2>7 DEF DState, WithInstr
    <2>15. w = plant_instruction(v, p)
      BY <2>8, <2>10, <2>12, <1>2 DEF plant_instruction, DState, WithInstr
    <2>16. r = IF b.stepping = 0 /\ b.valid /\ b.refs /\ ~ProcessExited(t, p) THEN w ELSE v
      BY <1>1, <1>6, <1>8, <2>1, <2>8, <2>14, <2>15 DEF safe_restore_breakpoint
    <2>17. /\ u.list = t.list /\ v.list = t.list /\ w.list = t.list
           /\ \A q \in Processes : v.bi[q].stepping = Cardinality(StepEvents(t.list, q))
           /\ \A q \in Processes : w.bi[q].stepping = Cardinality(StepEvents(t.list, q))
      <3>1. u.list = t.list /\ v.list = t.list /\ w.list = t.list
        BY <2>2, <2>8, <2>13 DEF Mild, SameRec, SameCtl, SameButBi
      <3>2. ASSUME NEW q \in Processes, q # p
            PROVE  u.bi[q].stepping = Cardinality(StepEvents(t.list, q))
        <4>1. u.bi[q].stepping = Cardinality(StepEvents(t.list, q)) + 0
          BY <2>3, <3>1, <3>2 DEF StepsPlus
        <4>2. StepEvents(t.list, q) \subseteq 1..Len(t.list)
          BY DEF StepEvents
        <4>3. Len(t.list) \in Int /\ 1 \in Int
          BY <1>0
        <4>4. Cardinality(StepEvents(t.list, q)) \in Nat
          BY <4>2, <4>3, FS_Interval, FS_Subset, FS_CardinalityType
        <4> QED BY <4>1, <4>4
      <3>3. ASSUME NEW q \in Processes
            PROVE  /\ v.bi[q].stepping = Cardinality(StepEvents(t.list, q))
                   /\ w.bi[q].stepping = Cardinality(StepEvents(t.list, q))
        BY <2>6, <2>8, <2>9, <2>11, <2>13, <3>2
      <3> QED BY <3>1, <3>3
    <2>18. Steps(v) /\ Steps(w)
      BY <2>17 DEF Steps
    <2>19. ASSUME r = v PROVE Core(v, k)
      <3>1. \A q : ProcessExited(u, q) <=> ProcessExited(t, q)
        BY <2>2 DEF Mild, Others, Raise, Alive, ProcessExited, Group
      <3>2. ~ProcessExited(u, p) /\ b.refs /\ ~b.planted => ~b.valid \/ b.stepping > 0
        <4>1. CASE b.stepping = 0 /\ b.valid /\ b.refs /\ ~ProcessExited(t, p)
          <5>1. w = v
            BY <2>16, <2>19, <4>1
          <5> QED BY <2>8, <2>11, <2>13, <5>1
        <4>2. CASE ~(b.stepping = 0 /\ b.valid /\ b.refs /\ ~ProcessExited(t, p))
          <5>1. b.stepping # 0 => b.stepping > 0
            BY <2>6, <2>9
          <5> QED BY <3>1, <4>2, <5>1
        <4> QED BY <4>1, <4>2
      <3> QED BY <1>2, <2>2, <2>6, <2>8, <3>2, InstrCore
    <2>20. ASSUME r = w PROVE Core(w, k)
      <3>1. /\ SameButBi(u, w) /\ \A q \in Processes \ {p} : w.bi[q] = u.bi[q]
        BY <2>8, <2>13 DEF SameButBi, SameReq
      <3> QED BY <1>2, <2>2, <2>6, <2>11, <2>13, <3>1, InstrCore
    <2>21. r \in {v, w}
      BY <2>16
    <2>22. RecInv(r, k)
      BY <2>18, <2>19, <2>20, <2>21 DEF Core, RecInv
    <2>23. Stepped(t, r, c)
      <3>1. r.ctx = u.ctx /\ \A q \in Processes \ {p} : r.bi[q] = t.bi[q]
        BY <2>3, <2>8, <2>13, <2>21 DEF SameButBi
      <3> QED BY <1>1, <2>2, <3>1 DEF Stepped, Mild, Others
    <2> QED BY <1>6, <2>22, <2>23
  <1> QED BY <1>7, <1>8

\* Instructions are wanted and planted as before.
SamePlants(t, r) ==
    \A q \in Processes : r.bi[q].refs = t.bi[q].refs /\ r.bi[q].planted = t.bi[q].planted

LEMMA Skip ==
  ASSUME NEW t, NEW k \in Nat, RecInv(t, k), NEW c \in Threads
  PROVE  LET r == skip_breakpoint(t, c) IN RecInv(r, k) /\ SamePlants(t, r) /\ Others(t, r, {})
  <1>0. t \in DState
    BY DEF RecInv
  <1>1. PICK p : p = ProcessOf[c]
    OBVIOUS
  <1>2. p \in Processes /\ GroupOf(c) = p
    BY <1>1, ContextsAssumption DEF GroupOf
  <1>3. PICK ev : ev = [ctx |-> c, done |-> "skip"]
    OBVIOUS
  <1>4. ev \in SafeEv /\ \A q : IsStep(ev, q) <=> q = p
    BY <1>2, <1>3 DEF SafeEv, IsStep
  <1>z. 1 \in TypeOf("skips") /\ TRUE \in TypeOf("stepping_over_bp")
    BY DEF TypeOf
  <1>5. Mild(t, Set(t, c, [stepping_over_bp |-> TRUE, skips |-> 1])) /\ SameButCtx(t, Set(t, c, [stepping_over_bp |-> TRUE, skips |-> 1]))
    <2>1. PICK d : d = [stepping_over_bp |-> TRUE, skips |-> 1]
      OBVIOUS
    <2>2. DOMAIN d = {"stepping_over_bp", "skips"} /\ d["stepping_over_bp"] = TRUE /\ d["skips"] = 1
      BY <2>1
    <2>3. \A f \in DOMAIN d : d[f] \in TypeOf(f)
      BY <2>2, <1>z
    <2>4. Mild(t, Set(t, c, d)) /\ SameButCtx(t, Set(t, c, d))
      BY <2>2, <2>3, SetMild, Fields, <1>0
    <2> QED BY <2>1, <2>4
  <1>6. PICK u : u = Set(t, c, [stepping_over_bp |-> TRUE, skips |-> 1])
    OBVIOUS
  <1>7. Mild(t, u) /\ RecInv(u, k) /\ u \in DState /\ u.bi[p] \in Instr
    <2>1. Mild(t, u)
      BY <1>5, <1>6
    <2>2. RecInv(u, k)
      BY <2>1, RecMild
    <2> QED BY <1>2, <2>1, <2>2 DEF RecInv, DState
  <1>8. PICK m \in Int : m = u.bi[p].stepping + 1
    BY <1>7 DEF Instr
  <1>9. PICK b : b = [u.bi[p] EXCEPT !.stepping = m]
    OBVIOUS
  <1>10. b \in Instr /\ b.stepping = m /\ b.refs = u.bi[p].refs /\ b.valid = u.bi[p].valid
         /\ b.planted = u.bi[p].planted
    BY <1>7, <1>9 DEF Instr
  <1>11. PICK v : v = WithInstr(u, p, b)
    OBVIOUS
  <1>12. /\ v \in DState /\ SameButBi(u, v) /\ v.bi[p] = b
         /\ \A q \in Processes \ {p} : v.bi[q] = u.bi[q]
    BY <1>2, <1>7, <1>10, <1>11, NewInstr
  <1>13. u.bi[p].stepping \in Int
    BY <1>7 DEF Instr
  <1>14. Core(v, k)
    <2>1. Core(u, k)
      BY <1>7 DEF RecInv, Core
    <2>2. ~ProcessExited(u, p) /\ b.refs /\ ~b.planted => ~b.valid \/ b.stepping > 0
      <3>1. ~ProcessExited(u, p) /\ u.bi[p].refs /\ ~u.bi[p].planted
              => ~u.bi[p].valid \/ u.bi[p].stepping > 0
        BY <1>2, <2>1 DEF Core, Plants
      <3>2. u.bi[p].stepping > 0 => b.stepping > 0
        BY <1>8, <1>10, <1>13
      <3> QED BY <1>10, <3>1, <3>2
    <2> QED BY <1>2, <1>10, <1>12, <2>1, <2>2, InstrCore
  <1>15. PICK r : r = post_safe_event(v, c, "skip")
    OBVIOUS
  <1>16. RecInv(r, k) /\ r.ctx = v.ctx /\ r.bi = v.bi
    <2>1. ASSUME NEW q \in Processes
          PROVE  v.bi[q].stepping
                   = Cardinality(StepEvents(v.list, q)) + (IF IsStep(ev, q) THEN 1 ELSE 0)
      <3>1. u.bi[q].stepping = Cardinality(StepEvents(u.list, q)) /\ u.bi[q].stepping \in Int
        BY <1>7 DEF RecInv, Steps, DState, Instr
      <3>2. CASE q = p
        BY <1>4, <1>8, <1>10, <1>12, <3>1, <3>2 DEF SameButBi
      <3>3. CASE q # p
        BY <1>4, <1>12, <3>1, <3>3 DEF SameButBi
      <3> QED BY <3>2, <3>3
    <2> QED BY <1>3, <1>4, <1>14, <1>15, <2>1, Posts
  <1>17. SamePlants(t, r) /\ Others(t, r, {})
    <2>1. u.bi = t.bi /\ Others(t, u, {}) /\ r.ctx = u.ctx
      BY <1>7, <1>12, <1>16 DEF Mild, SameRec, SameCtl, SameButBi
    <2>2. ASSUME NEW q \in Processes
          PROVE  r.bi[q].refs = t.bi[q].refs /\ r.bi[q].planted = t.bi[q].planted
      BY <1>10, <1>12, <1>16, <2>1
    <2> QED BY <2>1, <2>2 DEF SamePlants, Others
  <1>18. v = [u EXCEPT !.bi[p].stepping = @ + 1]
    BY <1>7, <1>8, <1>9, <1>11 DEF DState, WithInstr
  <1>19. skip_breakpoint(t, c) = r
    BY <1>1, <1>6, <1>15, <1>18 DEF skip_breakpoint
  <1> QED BY <1>16, <1>17, <1>19

\* A thread that context_resume() may start.
MayStart(x, y) == Raise(x, y) \/ Started(x, y)

LEMMA ContextResumed ==
  ASSUME NEW t, NEW k \in Nat, RecInv(t, k), NEW c \in Threads
  PROVE  LET r == Resumed(t, c) IN
         /\ RecInv(r, k) /\ SamePlants(t, r) /\ Others(t, r, {c})
         /\ t.lock = 0 => r.ctx[c].pending_safe_event = t.ctx[c].pending_safe_event
         /\ IF must_skip(t, c) THEN Raise(t.ctx[c], r.ctx[c]) ELSE Started(t.ctx[c], r.ctx[c])
  <1>0. t \in DState /\ t.ctx[c]["exiting"] \in BOOLEAN
    BY CtxType, Fields DEF RecInv
  <1>1. PICK dead, r : dead = Dead /\ r = Resumed(t, c)
    OBVIOUS
  <1>2. CASE must_skip(t, c)
    <2>1. r = skip_breakpoint(t, c)
      BY <1>1, <1>2 DEF Resumed
    <2>2. RecInv(r, k) /\ SamePlants(t, r) /\ Others(t, r, {})
      BY <2>1, Skip
    <2> QED BY <1>1, <1>2, <2>2 DEF Others, Raise
  <1>3. CASE ~must_skip(t, c)
    <2>a. (t.ctx[c].exiting \/ c \in dead) \in BOOLEAN
      OBVIOUS
    <2>b. PICK b \in BOOLEAN : b = (t.ctx[c].exiting \/ c \in dead)
      BY <2>a
    <2>5. Mild(t, Set(t, c, [exiting |-> b])) /\ SameButCtx(t, Set(t, c, [exiting |-> b]))
      <3>1. PICK d : d = [exiting |-> b]
        OBVIOUS
      <3>2. DOMAIN d = {"exiting"} /\ d["exiting"] = b
        BY <3>1
      <3>3. \A f \in DOMAIN d : d[f] \in TypeOf(f)
        BY <3>2, <1>0 DEF TypeOf
      <3>4. Mild(t, Set(t, c, d)) /\ SameButCtx(t, Set(t, c, d))
        BY <3>2, <3>3, SetMild, Fields, <1>0, <2>b
      <3> QED BY <3>1, <3>4
    <2>6. PICK u : u = Set(t, c, [exiting |-> b])
      OBVIOUS
    <2>7. Mild(t, u) /\ RecInv(u, k)
      BY <2>5, <2>6, RecMild
    <2>8. r = context_started(u, dead, c)
      BY <1>1, <1>3, <2>b, <2>6 DEF Resumed
    <2>9. /\ RecInv(r, k) /\ SameCtl(u, r) /\ Others(u, r, {c}) /\ Started(u.ctx[c], r.ctx[c])
          /\ u.lock = 0 => r.ctx[c].pending_safe_event = u.ctx[c].pending_safe_event
      BY <2>7, <2>8, ContextStarted
    <2>10. SamePlants(t, r) /\ Others(t, r, {c}) /\ Started(t.ctx[c], r.ctx[c])
      BY <2>7, <2>9 DEF SamePlants, Mild, SameRec, SameCtl, Others, Raise, Started
    <2>11. t.lock = 0 => r.ctx[c].pending_safe_event = t.ctx[c].pending_safe_event
      BY <2>7, <2>9 DEF Mild, SameRec, SameCtl, Others, Raise
    <2> QED BY <1>1, <1>3, <2>9, <2>10, <2>11
  <1> QED BY <1>2, <1>3

-----------------------------------------------------------------------------
(***************************************************************************)
(* Replanting                                                              *)
(***************************************************************************)

\* The threads whose condition held are intercepted; no evaluation is active.
LEMMA DoneEvaluations ==
  ASSUME NEW t \in DState, NEW dead, t.waiting = <<>>
  PROVE  LET r == done_all_evaluations(t, dead) IN
         /\ r \in DState /\ Others(t, r, {}) /\ r.waiting = <<>>
         /\ r.bi = t.bi /\ r.list = t.list /\ r.lock = t.lock /\ r.count = t.count
         /\ r.enabled = t.enabled /\ r.posted = t.posted /\ r.loc_posted = t.loc_posted
         /\ r.replanting = t.replanting /\ r.queue = t.queue
  <1>1. PICK hit : hit = {c \in t.ok : /\ ProcessOf[c] \in t.active
                                       /\ Alive(t, c) /\ ~t.ctx[c].exiting}
    OBVIOUS
  <1>2. PICK f : f = [c \in Threads |-> IF c \in hit THEN suspend_debug_context(t, dead, c).ctx[c]
                                                     ELSE t.ctx[c]]
    OBVIOUS
  <1>3. ASSUME NEW c \in Threads PROVE f[c] \in Ctx /\ Raise(t.ctx[c], f[c])
    <2>1. PICK u : u = suspend_debug_context(t, dead, c)
      OBVIOUS
    <2>2. Mild(t, u)
      BY <2>1, SuspendMild
    <2>3. u.ctx[c] \in Ctx /\ t.ctx[c] \in Ctx
      BY <2>2, CtxType DEF Mild
    <2>4. f[c] \in {u.ctx[c], t.ctx[c]}
      BY <1>2, <2>1
    <2>5. Raise(t.ctx[c], u.ctx[c]) /\ Raise(t.ctx[c], t.ctx[c])
      BY <2>2 DEF Mild, Others, Raise
    <2> QED BY <2>3, <2>4, <2>5
  <1>4. DOMAIN f = Threads /\ f = [c \in Threads |-> f[c]]
    BY <1>2
  <1>5. f \in [Threads -> Ctx]
    BY <1>3, <1>4
  <1>6. PICK g : g = [p \in Processes |-> IF p \in t.active THEN {} ELSE t.conds[p]]
    OBVIOUS
  <1>7. g \in [Processes -> SUBSET Threads]
    BY <1>6 DEF DState
  <1>8. PICK u : u = [t EXCEPT !.ctx = f]
    OBVIOUS
  <1>9. u \in DState /\ SameButCtx(t, u) /\ u.ctx = f
    BY <1>5, <1>8, NewCtx
  <1>10. PICK v : v = [u EXCEPT !.conds = g, !.ok = {}]
    OBVIOUS
  <1>11. v \in DState /\ v.ctx = f /\ v.waiting = <<>> /\ v.bi = t.bi /\ v.list = t.list
         /\ v.lock = t.lock /\ v.count = t.count /\ v.enabled = t.enabled
         /\ v.posted = t.posted /\ v.loc_posted = t.loc_posted
         /\ v.replanting = t.replanting /\ v.queue = t.queue
    BY <1>7, <1>9, <1>10 DEF DState, SameButCtx
  <1>12. PICK r : r = [v EXCEPT !.active = {}, !.loc_active = {}]
    OBVIOUS
  <1>13. r \in DState /\ r.ctx = f /\ r.waiting = <<>> /\ r.bi = t.bi /\ r.list = t.list
         /\ r.lock = t.lock /\ r.count = t.count /\ r.enabled = t.enabled
         /\ r.posted = t.posted /\ r.loc_posted = t.loc_posted
         /\ r.replanting = t.replanting /\ r.queue = t.queue
    BY <1>11, <1>12 DEF DState
  <1>14. Others(t, r, {})
    BY <1>3, <1>13 DEF Others
  <1>15. r = [t EXCEPT !.ctx = f, !.conds = g, !.ok = {}, !.active = {}, !.loc_active = {}]
    BY <1>8, <1>10, <1>12
  <1>16. done_all_evaluations(t, dead) = r
    BY <1>1, <1>2, <1>6, <1>15, Zenon DEF done_all_evaluations
  <1> QED BY <1>13, <1>14, <1>16

\* What is left of an instruction that is flushed.
LEMMA FlushOne ==
  ASSUME NEW t \in DState, NEW p \in Processes, t.bi[p].stepping \in Nat
  PROVE  LET b == t.bi[p]
             n == flush_instruction(t, p) IN
         /\ n \in Instr /\ n.valid /\ n.stepping = b.stepping
         /\ n.refs => b.refs /\ (b.planted => n.planted)
         /\ ~ProcessExited(t, p) => n.refs = b.refs
         /\ n.refs /\ ~n.planted => b.valid \/ b.stepping > 0
  <1>1. PICK b : b = t.bi[p] /\ b \in Instr
    BY DEF DState
  <1>2. PICK refs \in BOOLEAN : refs = (b.refs /\ (b.valid \/ ~ProcessExited(t, p)))
    OBVIOUS
  <1>3. PICK plant \in BOOLEAN : plant = (~b.valid /\ b.stepping = 0 /\ refs)
    OBVIOUS
  <1>4. PICK n : n = flush_instruction(t, p)
    OBVIOUS
  <1>5. n = IF refs \/ b.stepping > 0
              THEN [b EXCEPT !.valid = TRUE, !.refs = refs, !.planted = @ \/ plant]
            ELSE IF b.planted /\ ~is_all_stopped(t, p)
              THEN [b EXCEPT !.valid = TRUE, !.refs = FALSE]
            ELSE NoInstruction
    BY <1>1, <1>2, <1>3, <1>4 DEF flush_instruction
  <1>6. b.stepping \in Nat /\ b.planted \in BOOLEAN /\ b.refs \in BOOLEAN /\ b.valid \in BOOLEAN
    BY <1>1 DEF Instr
  <1>7. CASE refs \/ b.stepping > 0
    <2>1. PICK g \in BOOLEAN : g = (b.planted \/ plant)
      OBVIOUS
    <2>2. n = [b EXCEPT !.valid = TRUE, !.refs = refs, !.planted = g]
      BY <1>5, <1>7, <2>1
    <2>3. n \in Instr /\ n.valid = TRUE /\ n.refs = refs /\ n.planted = g /\ n.stepping = b.stepping
      BY <1>1, <2>2 DEF Instr
    <2>4. n.refs /\ ~n.planted => b.valid \/ b.stepping > 0
      <3>1. b.stepping # 0 => b.stepping > 0
        BY <1>6
      <3> QED BY <1>3, <2>1, <2>3, <3>1
    <2>5. n.refs => b.refs
      BY <1>2, <2>3
    <2>6. b.planted => n.planted
      BY <2>1, <2>3
    <2>7. ~ProcessExited(t, p) => n.refs = b.refs
      <3>1. SUFFICES ASSUME ~ProcessExited(t, p) PROVE n.refs = b.refs
        OBVIOUS
      <3>2. refs => b.refs
        BY <1>2
      <3>3. b.refs => refs
        <4>1. CASE b.valid
          BY <1>2, <4>1
        <4>2. CASE ~b.valid
          BY <1>2, <3>1
        <4> QED BY <4>1, <4>2
      <3> QED BY <1>6, <2>3, <3>2, <3>3
    <2> QED BY <1>1, <1>4, <2>3, <2>4, <2>5, <2>6, <2>7
  <1>8. CASE ~(refs \/ b.stepping > 0)
    <2>1. b.stepping = 0 /\ refs = FALSE
      BY <1>6, <1>8
    <2>2. PICK x : x = [b EXCEPT !.valid = TRUE, !.refs = FALSE]
      OBVIOUS
    <2>3. x \in Instr /\ x.valid = TRUE /\ x.refs = FALSE /\ x.stepping = b.stepping
      BY <1>1, <2>2 DEF Instr
    <2>4. NoInstruction \in Instr /\ NoInstruction.valid = TRUE /\ NoInstruction.refs = FALSE
          /\ NoInstruction.stepping = 0
      BY DEF NoInstruction, Instr
    <2>5. n \in {x, NoInstruction}
      BY <1>5, <1>8, <2>2
    <2>6. n \in Instr /\ n.valid = TRUE /\ n.refs = FALSE /\ n.stepping = b.stepping
      BY <2>1, <2>3, <2>4, <2>5
    <2>7. ~ProcessExited(t, p) => b.refs = FALSE
      BY <1>2, <1>6, <2>1
    <2> QED BY <1>1, <1>4, <2>6, <2>7
  <1> QED BY <1>7, <1>8

\* No instruction that is planted or not wanted becomes a wanted one that is not planted.
StaysPlanted(t, r) ==
    \A q \in Processes :
        r.bi[q].refs /\ ~r.bi[q].planted => t.bi[q].refs /\ ~t.bi[q].planted

LEMMA SameExited ==
  ASSUME NEW t, NEW r, Others(t, r, {})
  PROVE  \A p : ProcessExited(r, p) <=> ProcessExited(t, p)
  BY DEF Others, Raise, Alive, ProcessExited, Group

LEMMA SamePending ==
  ASSUME NEW t, NEW r, Others(t, r, {})
  PROVE  Pending(r) = Pending(t)
  BY DEF Others, Raise, Pending

LEMMA DoneReplanting ==
  ASSUME NEW t, NEW k \in Int, RecInv(t, k), t.waiting = <<>>, t.replanting, NEW dead
  PROVE  LET r == done_replanting(t, dead) IN
         RecInv(r, k) /\ StaysPlanted(t, r) /\ Others(t, r, {}) /\ r.waiting = <<>>
  <1>0. t \in DState
    BY DEF RecInv
  <1>1. PICK u : u = done_all_evaluations(t, dead)
    OBVIOUS
  <1>2. /\ u \in DState /\ Others(t, u, {}) /\ u.waiting = <<>>
        /\ u.bi = t.bi /\ u.list = t.list /\ u.lock = t.lock /\ u.count = t.count
        /\ u.enabled = t.enabled /\ u.posted = t.posted /\ u.loc_posted = t.loc_posted
        /\ u.replanting = t.replanting /\ u.queue = t.queue
    BY <1>0, <1>1, DoneEvaluations
  <1>3. (\A p : ProcessExited(u, p) <=> ProcessExited(t, p)) /\ Pending(u) = Pending(t)
    BY <1>2, SameExited, SamePending
  <1>4. Locked(u, k) /\ Counted(u) /\ Requests(u) /\ Steps(u) /\ Plants(u)
    BY <1>2, <1>3 DEF RecInv, Locked, Counted, Requests, Steps, Plants
  <1>5. \A p \in Processes : ~ProcessExited(u, p) => u.bi[p].refs = u.enabled \/ p \in u.loc_posted
    <2>1. Range(t.waiting) = {}
      BY <1>0, RangeOf DEF DState
    <2> QED BY <1>2, <1>3, <2>1 DEF RecInv, Wanted
  <1>6. PICK r : r = done_replanting(t, dead)
    OBVIOUS
  <1>7. CASE u.posted # <<>>
    <2>1. r = post_event(u, "replant")
      BY <1>1, <1>6, <1>7 DEF done_replanting
    <2>2. PICK q : q = Append(u.queue, "replant")
      OBVIOUS
    <2>3. q \in Seq({"safe", "sync", "replant"})
      BY <1>2, <2>2, AppendRange DEF DState
    <2>4. r = [u EXCEPT !.queue = q]
      BY <1>2, <2>1, <2>2 DEF post_event, DState
    <2>5. /\ r \in DState /\ r.ctx = u.ctx /\ r.waiting = u.waiting
          /\ r.bi = u.bi /\ r.list = u.list /\ r.lock = u.lock /\ r.count = u.count
          /\ r.enabled = u.enabled /\ r.posted = u.posted /\ r.loc_posted = u.loc_posted
          /\ r.replanting = u.replanting
      BY <1>2, <2>3, <2>4 DEF DState
    <2>6. Others(u, r, {})
      BY <2>5 DEF Others, Raise
    <2>7. (\A p : ProcessExited(r, p) <=> ProcessExited(u, p)) /\ Pending(r) = Pending(u)
      BY <2>6, SameExited, SamePending
    <2>8. Locked(r, k) /\ Counted(r) /\ Requests(r) /\ Steps(r) /\ Plants(r)
      BY <1>4, <1>7, <2>5, <2>7 DEF Locked, Counted, Requests, Steps, Plants
    <2>9. Wanted(r)
      BY <1>5, <2>5, <2>7 DEF Wanted
    <2>10. StaysPlanted(t, r)
      BY <1>2, <2>5 DEF StaysPlanted
    <2>11. Others(t, r, {})
      BY <1>2, <2>5 DEF Others
    <2> QED BY <1>2, <1>6, <2>5, <2>8, <2>9, <2>10, <2>11 DEF RecInv
  <1>8. CASE u.posted = <<>>
    <2>1. PICK f : f = [p \in Processes |-> flush_instruction(u, p)]
      OBVIOUS
    <2>2. ASSUME NEW p \in Processes
          PROVE  /\ f[p] \in Instr /\ f[p].valid /\ f[p].stepping = u.bi[p].stepping
                 /\ f[p].refs => u.bi[p].refs /\ (u.bi[p].planted => f[p].planted)
                 /\ ~ProcessExited(u, p) => f[p].refs = u.bi[p].refs
                 /\ f[p].refs /\ ~f[p].planted => u.bi[p].valid \/ u.bi[p].stepping > 0
      <3>1. u.bi[p].stepping \in Nat
        <4>1. IsFiniteSet(StepEvents(u.list, p))
          <5>1. StepEvents(u.list, p) \subseteq 1..Len(u.list)
            BY DEF StepEvents
          <5>2. Len(u.list) \in Int /\ 1 \in Int
            BY <1>2 DEF DState
          <5>3. IsFiniteSet(1..Len(u.list))
            BY <5>2, FS_Interval
          <5> QED BY <5>1, <5>3, FS_Subset
        <4> QED BY <1>4, <4>1, FS_CardinalityType DEF Steps
      <3>2. f[p] = flush_instruction(u, p)
        BY <2>1
      <3> QED BY <1>2, <3>1, <3>2, FlushOne
    <2>3. f \in [Processes -> Instr]
      BY <2>1, <2>2
    <2>4. PICK v : v = [u EXCEPT !.bi = f, !.replanting = FALSE]
      OBVIOUS
    <2>5. v = [flush_instructions(u) EXCEPT !.replanting = FALSE]
      BY <2>1, <2>4 DEF flush_instructions
    <2>6. r = run_ctrl_unlock(v)
      BY <1>1, <1>6, <1>8, <2>5 DEF done_replanting
    <2>7. /\ v \in DState /\ v.bi = f /\ v.replanting = FALSE /\ v.ctx = u.ctx
          /\ v.waiting = u.waiting /\ v.list = u.list /\ v.lock = u.lock /\ v.count = u.count
          /\ v.enabled = u.enabled /\ v.posted = u.posted /\ v.loc_posted = u.loc_posted
          /\ v.queue = u.queue
      BY <1>2, <2>3, <2>4 DEF DState
    <2>8. /\ r \in DState /\ r.ctx = v.ctx /\ r.bi = v.bi /\ SameReq(v, r) /\ r.count = v.count
          /\ r.lock = v.lock - 1 /\ r.list = v.list
      BY <2>6, <2>7, Unlock
    <2>9. Others(u, r, {})
      BY <2>7, <2>8 DEF Others, Raise
    <2>10. (\A p : ProcessExited(r, p) <=> ProcessExited(u, p)) /\ Pending(r) = Pending(u)
      BY <2>9, SameExited, SamePending
    <2>11. Locked(r, k)
      <3>1. PICK l, m : l = u.lock /\ m = Len(u.list)
        OBVIOUS
      <3>2. u.replanting
        BY <1>2
      <3>3. l = m + 1 + k
        BY <1>4, <3>1, <3>2 DEF Locked
      <3>4. m \in Nat
        BY <1>2, <3>1 DEF DState
      <3>5. l - 1 = m + 0 + k
        BY <3>3, <3>4
      <3>6. r.lock = l - 1 /\ Len(r.list) = m /\ ~r.replanting
        BY <2>7, <2>8, <3>1 DEF SameReq
      <3> QED BY <3>5, <3>6 DEF Locked
    <2>12. Counted(r)
      BY <1>4, <2>7, <2>8, <2>10 DEF Counted
    <2>13. Requests(r)
      BY <1>2, <1>4, <1>8, <2>7, <2>8 DEF Requests, SameReq
    <2>14. Steps(r)
      BY <1>4, <2>2, <2>7, <2>8 DEF Steps
    <2>15. Wanted(r)
      <3>1. Range(u.posted) = {}
        BY <1>2, <1>8, RangeOf DEF DState
      <3>2. \A p : p \notin u.loc_posted
        BY <1>4, <3>1 DEF Requests
      <3> QED BY <1>5, <2>2, <2>7, <2>8, <2>10, <3>2 DEF Wanted, SameReq
    <2>16. Plants(r)
      <3>1. ASSUME NEW p \in Processes
            PROVE  /\ ~ProcessExited(r, p) /\ r.bi[p].refs /\ ~r.bi[p].planted
                          => ~r.bi[p].valid \/ r.bi[p].stepping > 0
                   /\ ~r.bi[p].valid => r.replanting
        <4>1. r.bi[p] = f[p]
          BY <2>7, <2>8
        <4>2. ~ProcessExited(u, p) /\ u.bi[p].refs /\ ~u.bi[p].planted
                => ~u.bi[p].valid \/ u.bi[p].stepping > 0
          BY <1>4 DEF Plants
        <4> QED BY <2>2, <2>10, <4>1, <4>2
      <3> QED BY <3>1 DEF Plants
    <2>17. StaysPlanted(t, r)
      <3>1. ASSUME NEW p \in Processes, r.bi[p].refs, ~r.bi[p].planted
            PROVE  t.bi[p].refs /\ ~t.bi[p].planted
        BY <1>2, <2>2, <2>7, <2>8, <3>1
      <3> QED BY <3>1 DEF StaysPlanted
    <2>18. Others(t, r, {}) /\ r.waiting = <<>>
      BY <1>2, <2>7, <2>8 DEF Others, SameReq
    <2> QED BY <1>6, <2>8, <2>11, <2>12, <2>13, <2>14, <2>15, <2>16, <2>17, <2>18 DEF RecInv
  <1> QED BY <1>7, <1>8

\* What an evaluation in p leaves of its instruction.
Located(t, p, b) ==
    /\ b \in Instr /\ b.stepping = t.bi[p].stepping
    /\ ~ProcessExited(t, p) /\ p \in t.loc_active => b.refs = t.enabled /\ (b.refs => ~b.valid)
    /\ p \notin t.loc_active => b = t.bi[p]

AfterClient(t, p, b, ok) ==
    [WithInstr(t, p, b) EXCEPT !.ok = ok, !.waiting = RemoveFirst(t.waiting, p)]

\* One client of replant_breakpoints_cache_client() has evaluated the breakpoint in p.
LEMMA ClientDone ==
  ASSUME NEW t, NEW k \in Int, RecInv(t, k), NEW p \in Processes, p \in Range(t.waiting),
         NEW b, Located(t, p, b), NEW ok \in SUBSET Threads, NEW v, v = AfterClient(t, p, b, ok)
  PROVE  /\ RecInv(v, k) /\ v.ctx = t.ctx /\ v.replanting
         /\ Range(v.waiting) = Range(t.waiting) \ {p} /\ v.waiting \in Seq(Processes)
         /\ \A q \in Processes \ {p} : v.bi[q] = t.bi[q]
  <1>0. t \in DState /\ t.waiting \in Seq(Processes) /\ IsInjective(t.waiting)
    BY DEF RecInv, DState, Requests
  <1>b. /\ b \in Instr /\ b.stepping = t.bi[p].stepping
        /\ ~ProcessExited(t, p) /\ p \in t.loc_active => b.refs = t.enabled /\ (b.refs => ~b.valid)
        /\ p \notin t.loc_active => b = t.bi[p]
    BY DEF Located
  <1>a. PICK u : u = WithInstr(t, p, b)
    OBVIOUS
  <1>1. /\ u \in DState /\ SameButBi(t, u) /\ u.bi[p] = b
        /\ \A q \in Processes \ {p} : u.bi[q] = t.bi[q]
    BY <1>0, <1>a, <1>b, NewInstr
  <1>2. u.loc_active = t.loc_active /\ u.waiting = t.waiting
    BY <1>1 DEF SameButBi, SameReq
  <1>3. PICK w : /\ w = RemoveFirst(t.waiting, p)
                 /\ w \in Seq(Processes) /\ IsInjective(w) /\ Range(w) = Range(t.waiting) \ {p}
    BY <1>0, RemoveOne
  <1>4. v = [u EXCEPT !.ok = ok, !.waiting = w]
    BY <1>a, <1>3 DEF AfterClient
  <1>5. /\ v \in DState /\ v.waiting = w /\ v.bi = u.bi /\ v.ctx = u.ctx /\ v.list = u.list
        /\ v.lock = u.lock /\ v.count = u.count /\ v.enabled = u.enabled /\ v.posted = u.posted
        /\ v.loc_posted = u.loc_posted /\ v.loc_active = u.loc_active
        /\ v.replanting = u.replanting /\ v.queue = u.queue
    <2>1. PICK y : y = [u EXCEPT !.ok = ok]
      OBVIOUS
    <2>2. /\ y \in DState /\ y.waiting = u.waiting /\ y.bi = u.bi /\ y.ctx = u.ctx
          /\ y.list = u.list /\ y.lock = u.lock /\ y.count = u.count /\ y.enabled = u.enabled
          /\ y.posted = u.posted /\ y.loc_posted = u.loc_posted /\ y.loc_active = u.loc_active
          /\ y.replanting = u.replanting /\ y.queue = u.queue
      BY <1>1, <2>1 DEF DState
    <2>3. v = [y EXCEPT !.waiting = w]
      BY <1>1, <1>4, <2>1 DEF DState
    <2> QED BY <1>3, <2>2, <2>3 DEF DState
  <1>6. t.replanting
    <2>1. t.waiting # <<>>
      BY <1>0, RangeOf
    <2> QED BY <2>1 DEF RecInv, Requests
  <1>7. \A q : ProcessExited(v, q) <=> ProcessExited(t, q)
    BY <1>1, <1>5 DEF SameButBi, Alive, ProcessExited
  <1>8. Locked(v, k) /\ Counted(v)
    BY <1>1, <1>5 DEF RecInv, SameButBi, SameReq, Locked, Counted, Pending
  <1>9. Requests(v)
    BY <1>1, <1>3, <1>5, <1>6 DEF RecInv, SameButBi, SameReq, Requests
  <1>10. Steps(v)
    <2>1. \A q \in Processes : v.bi[q].stepping = t.bi[q].stepping
      BY <1>1, <1>5, <1>b
    <2> QED BY <1>1, <1>5, <2>1 DEF RecInv, SameButBi, Steps
  <1>11. Wanted(v)
    <2>1. ASSUME NEW q \in Processes, ~ProcessExited(v, q)
          PROVE  \/ v.bi[q].refs = v.enabled
                 \/ q \in v.loc_posted
                 \/ q \in v.loc_active /\ q \in Range(v.waiting)
      <3>1. \/ t.bi[q].refs = t.enabled
            \/ q \in t.loc_posted
            \/ q \in t.loc_active /\ q \in Range(t.waiting)
        BY <1>7, <2>1 DEF RecInv, Wanted
      <3>2. v.enabled = t.enabled /\ v.loc_posted = t.loc_posted /\ v.loc_active = t.loc_active
        BY <1>1, <1>5 DEF SameButBi, SameReq
      <3>3. CASE q # p
        <4>1. v.bi[q] = t.bi[q]
          BY <1>1, <1>5, <3>3
        <4> QED BY <1>3, <1>5, <3>1, <3>2, <3>3, <4>1
      <3>4. CASE q = p /\ p \in t.loc_active
        BY <1>1, <1>5, <1>7, <1>b, <2>1, <3>2, <3>4
      <3>5. CASE q = p /\ p \notin t.loc_active
        BY <1>1, <1>5, <1>b, <3>1, <3>2, <3>5
      <3> QED BY <3>3, <3>4, <3>5
    <2> QED BY <2>1 DEF Wanted
  <1>12. Plants(v)
    <2>1. ASSUME NEW q \in Processes
          PROVE  /\ ~ProcessExited(v, q) /\ v.bi[q].refs /\ ~v.bi[q].planted
                        => ~v.bi[q].valid \/ v.bi[q].stepping > 0
                 /\ ~v.bi[q].valid => v.replanting
      <3>1. v.replanting
        BY <1>1, <1>5, <1>6 DEF SameButBi, SameReq
      <3>2. ~ProcessExited(t, q) /\ t.bi[q].refs /\ ~t.bi[q].planted
              => ~t.bi[q].valid \/ t.bi[q].stepping > 0
        BY DEF RecInv, Plants
      <3>3. CASE v.bi[q] = t.bi[q]
        BY <1>7, <3>1, <3>2, <3>3
      <3>4. CASE q = p /\ p \in t.loc_active
        BY <1>1, <1>5, <1>7, <1>b, <3>1, <3>4
      <3>5. q # p \/ p \notin t.loc_active => v.bi[q] = t.bi[q]
        BY <1>1, <1>5, <1>b
      <3> QED BY <3>3, <3>4, <3>5
    <2> QED BY <2>1 DEF Plants
  <1>13. RecInv(v, k)
    BY <1>5, <1>8, <1>9, <1>10, <1>11, <1>12 DEF RecInv
  <1> QED BY <1>1, <1>3, <1>5, <1>6, <1>13 DEF SameButBi, SameReq

LEMMA ReplantClient ==
  ASSUME NEW t, NEW k \in Int, RecInv(t, k), NEW p \in Processes, p \in Range(t.waiting),
         NEW dead, NEW true \in SUBSET Threads
  PROVE  LET r == replant_client(t, dead, p, true) IN
         /\ RecInv(r, k) /\ Others(t, r, {})
         /\ Range(t.waiting) \ {p} \subseteq Range(r.waiting)
         /\ \/ r.bi = t.bi
            \/ /\ is_all_stopped(t, p)
               /\ \A q \in Processes \ {p} :
                    r.bi[q].refs /\ ~r.bi[q].planted => t.bi[q].refs /\ ~t.bi[q].planted
  <1>0. t \in DState /\ t.bi[p] \in Instr /\ t.enabled \in BOOLEAN
    BY DEF RecInv, DState
  <1>1. PICK b, ok : /\ b = evaluate_bp_location(t, p)
                     /\ ok = (t.ok \ t.conds[p]) \cup (IF t.enabled THEN true ELSE {})
    OBVIOUS
  <1>2. PICK s3 : s3 = AfterClient(t, p, b, ok)
    OBVIOUS
  <1>r. PICK r : r = replant_client(t, dead, p, true)
    OBVIOUS
  <1>3. r = IF ~is_all_stopped(t, p) THEN post_safe_event(t, p, "wait")
            ELSE IF s3.waiting = <<>> THEN done_replanting(s3, dead)
            ELSE s3
    <2>1. s3 = [t EXCEPT !.bi[p] = b, !.ok = ok, !.waiting = RemoveFirst(t.waiting, p)]
      BY <1>2 DEF AfterClient, WithInstr
    <2> QED BY <1>1, <1>r, <2>1 DEF replant_client
  <1>4. CASE ~is_all_stopped(t, p)
    <2>1. PICK ev : ev = [ctx |-> p, done |-> "wait"]
      OBVIOUS
    <2>2. ev \in SafeEv /\ \A q : ~IsStep(ev, q)
      BY <2>1 DEF SafeEv, IsStep
    <2>3. \A q \in Processes : t.bi[q].stepping
             = Cardinality(StepEvents(t.list, q)) + (IF IsStep(ev, q) THEN 1 ELSE 0)
      <3>1. ASSUME NEW q \in Processes
            PROVE  t.bi[q].stepping = Cardinality(StepEvents(t.list, q)) + 0
        <4>1. t.bi[q].stepping = Cardinality(StepEvents(t.list, q)) /\ t.bi[q].stepping \in Int
          BY <1>0 DEF RecInv, Steps, DState, Instr
        <4>2. PICK n \in Int : n = Cardinality(StepEvents(t.list, q))
          BY <4>1
        <4> QED BY <4>1, <4>2
      <3> QED BY <2>2, <3>1
    <2>4. Core(t, k)
      BY DEF RecInv, Core
    <2>5. r = post_safe_event(t, p, "wait")
      BY <1>3, <1>4
    <2>6. RecInv(r, k) /\ r.ctx = t.ctx /\ r.bi = t.bi /\ SameReq(t, r)
      BY <2>1, <2>2, <2>3, <2>4, <2>5, Posts
    <2> QED BY <1>r, <2>6 DEF Others, Raise, SameReq
  <1>5. CASE is_all_stopped(t, p)
    <2>1. b = IF p \notin t.loc_active THEN t.bi[p]
              ELSE IF ProcessExited(t, p)
                THEN [t.bi[p] EXCEPT !.refs = FALSE, !.valid = ~t.bi[p].refs]
              ELSE [t.bi[p] EXCEPT !.alive = t.bi[p].alive \/ t.enabled,
                                   !.valid = ~(t.enabled \/ t.bi[p].refs),
                                   !.refs  = t.enabled]
      BY <1>1 DEF evaluate_bp_location
    <2>2. Located(t, p, b)
      <3>1. CASE p \notin t.loc_active
        BY <1>0, <2>1, <3>1 DEF Located
      <3>2. CASE p \in t.loc_active /\ ProcessExited(t, p)
        BY <1>0, <2>1, <3>2 DEF Instr, Located
      <3>3. CASE p \in t.loc_active /\ ~ProcessExited(t, p)
        BY <1>0, <2>1, <3>3 DEF Instr, Located
      <3> QED BY <3>1, <3>2, <3>3
    <2>3. ok \in SUBSET Threads
      BY <1>0, <1>1 DEF DState
    <2>7. /\ RecInv(s3, k) /\ s3.ctx = t.ctx /\ s3.replanting
          /\ Range(s3.waiting) = Range(t.waiting) \ {p} /\ s3.waiting \in Seq(Processes)
          /\ \A q \in Processes \ {p} : s3.bi[q] = t.bi[q]
      BY <1>2, <2>2, <2>3, ClientDone
    <2>8. CASE s3.waiting = <<>>
      <3>1. r = done_replanting(s3, dead)
        BY <1>3, <1>5, <2>8
      <3>2. RecInv(r, k) /\ StaysPlanted(s3, r) /\ Others(s3, r, {}) /\ r.waiting = <<>>
        BY <2>7, <2>8, <3>1, DoneReplanting
      <3>3. Others(t, r, {})
        BY <2>7, <3>2 DEF Others
      <3>4. \A q \in Processes \ {p} :
               r.bi[q].refs /\ ~r.bi[q].planted => t.bi[q].refs /\ ~t.bi[q].planted
        BY <2>7, <3>2 DEF StaysPlanted
      <3> QED BY <1>r, <1>5, <2>7, <2>8, <3>2, <3>3, <3>4
    <2>9. CASE s3.waiting # <<>>
      <3>1. r = s3
        BY <1>3, <1>5, <2>9
      <3>2. Others(t, r, {})
        BY <2>7, <3>1 DEF Others, Raise
      <3> QED BY <1>r, <1>5, <2>7, <3>1, <3>2
    <2> QED BY <2>8, <2>9
  <1> QED BY <1>4, <1>5

-----------------------------------------------------------------------------
(***************************************************************************)
(* The invariant                                                           *)
(***************************************************************************)

OsStates == {"none", "new", "run", "step", "held", "dead", "gone"}

\* What the agent knows of a thread, and the kernel's view of it.
OsThread(x, k) ==
    /\ k = "none" <=> ~x.known
    /\ k = "gone" <=> x.exited
    /\ x.stopped => k \in {"held", "dead"}

OsOK(t, o) == o \in [Threads -> OsStates] /\ \A c \in Threads : OsThread(t.ctx[c], o[c])

NoneMissed(t, o) ==
    \A c \in Threads :
        o[c] = "run" /\ t.bi[ProcessOf[c]].refs /\ ~t.bi[ProcessOf[c]].planted
            => t.ctx[c].exiting \/ t.ctx[c].cannot_stop

ThreadsOK(t, o) == OsOK(t, o) /\ NoneMissed(t, o)

EventsWork(t, w) == w.op = "events" /\ Marked(t, w.marks)

ClientsWork(t, w) ==
    /\ w \in [op : {"clients"}, rest : Seq(Processes)]
    /\ IsInjective(w.rest) /\ Range(w.rest) \subseteq Range(t.waiting)

SyncWork(t, w) ==
    /\ w \in [op : {"sync"}, flags : SUBSET (Threads \cup Processes), err : BOOLEAN,
              rest : Seq(Threads), kills : Seq(Threads)]
    /\ IsInjective(w.rest) /\ Range(w.rest) \cap Pending(t) = {}

\* The handler in progress: the safe events run in groups that were asked to stop, the clients
\* wait for their turn, and the threads that are to be resumed are not waited for.
WorkOK(t, w) == w = Idle \/ EventsWork(t, w) \/ ClientsWork(t, w) \/ SyncWork(t, w)

\* No lock is held but those that Locked() counts.
NoMore == 0

LEMMA NoMoreType == NoMore \in Nat
  BY DEF NoMore

DbOK(t, o, w) == RecInv(t, NoMore) /\ ThreadsOK(t, o) /\ WorkOK(t, w)

DbInv == DbOK(s, os, work)

\* No thread of t is resumed under the lock.
NoneResumed(t, r) ==
    \A c \in Threads :
        t.ctx[c].stopped /\ ~r.ctx[c].stopped /\ t.lock > 0
            => r.ctx[c].safe_single_step \/ r.ctx[c].exiting \/ r.ctx[c].exited

-----------------------------------------------------------------------------
(* What the steps have in common. *)

LEMMA SameBi ==
  ASSUME NEW t, NEW r, r.bi = t.bi \/ SamePlants(t, r)
  PROVE  StaysPlanted(t, r)
  BY DEF StaysPlanted, SamePlants

LEMMA ThreadsMild ==
  ASSUME NEW t, NEW o, ThreadsOK(t, o), NEW r, Others(t, r, {}), StaysPlanted(t, r)
  PROVE  ThreadsOK(r, o) /\ NoneResumed(t, r)
  <1>1. OsOK(r, o)
    BY DEF ThreadsOK, OsOK, OsThread, Others, Raise
  <1>2. NoneMissed(r, o)
    <2>1. ASSUME NEW c \in Threads, o[c] = "run", r.bi[ProcessOf[c]].refs, ~r.bi[ProcessOf[c]].planted
          PROVE  r.ctx[c].exiting \/ r.ctx[c].cannot_stop
      <3>1. ProcessOf[c] \in Processes
        BY ContextsAssumption
      <3>2. t.bi[ProcessOf[c]].refs /\ ~t.bi[ProcessOf[c]].planted
        BY <2>1, <3>1 DEF StaysPlanted
      <3> QED BY <2>1, <3>2 DEF ThreadsOK, NoneMissed, Others, Raise
    <2> QED BY <2>1 DEF NoneMissed
  <1>3. NoneResumed(t, r)
    BY DEF NoneResumed, Others, Raise
  <1> QED BY <1>1, <1>2, <1>3 DEF ThreadsOK

LEMMA ThreadsChange ==
  ASSUME NEW t, NEW o, ThreadsOK(t, o), NEW r, NEW c \in Threads, Others(t, r, {c}),
         StaysPlanted(t, r), NEW k \in OsStates, NEW n, n = [o EXCEPT ![c] = k],
         OsThread(r.ctx[c], k),
         k = "run" /\ r.bi[ProcessOf[c]].refs /\ ~r.bi[ProcessOf[c]].planted
             => r.ctx[c].exiting \/ r.ctx[c].cannot_stop
  PROVE  ThreadsOK(r, n)
  <1>1. n \in [Threads -> OsStates] /\ n[c] = k /\ \A x \in Threads \ {c} : n[x] = o[x]
    BY DEF ThreadsOK, OsOK
  <1>2. OsOK(r, n)
    BY <1>1 DEF ThreadsOK, OsOK, OsThread, Others, Raise
  <1>3. NoneMissed(r, n)
    <2>1. ASSUME NEW x \in Threads, n[x] = "run", r.bi[ProcessOf[x]].refs, ~r.bi[ProcessOf[x]].planted
          PROVE  r.ctx[x].exiting \/ r.ctx[x].cannot_stop
      <3>1. CASE x = c
        BY <1>1, <2>1, <3>1
      <3>2. CASE x # c
        <4>1. ProcessOf[x] \in Processes
          BY ContextsAssumption
        <4>2. t.bi[ProcessOf[x]].refs /\ ~t.bi[ProcessOf[x]].planted
          BY <2>1, <4>1 DEF StaysPlanted
        <4> QED BY <1>1, <2>1, <3>2, <4>2 DEF ThreadsOK, NoneMissed, Others, Raise
      <3> QED BY <3>1, <3>2
    <2> QED BY <2>1 DEF NoneMissed
  <1> QED BY <1>2, <1>3 DEF ThreadsOK

LEMMA ThreadsKilled ==
  ASSUME NEW t, NEW o, ThreadsOK(t, o), NEW n, n \in [Threads -> OsStates],
         \A c \in Threads : n[c] = o[c] \/ (n[c] = "dead" /\ o[c] \notin {"none", "gone"})
  PROVE  ThreadsOK(t, n)
  <1>1. OsOK(t, n)
    BY DEF ThreadsOK, OsOK, OsThread
  <1>2. NoneMissed(t, n)
    BY DEF ThreadsOK, NoneMissed
  <1> QED BY <1>1, <1>2 DEF ThreadsOK

\* The handler in progress is not disturbed by what stops or starts no thread.
LEMMA WorkMild ==
  ASSUME NEW t, NEW r, Others(t, r, {}), NEW w
  PROVE  /\ EventsWork(t, w) => EventsWork(r, w)
         /\ SyncWork(t, w) => SyncWork(r, w)
  <1>1. Pending(r) = Pending(t)
    BY SamePending
  <1>2. \A m : Marked(t, m) => Marked(r, m)
    BY DEF Marked, Others, Raise, Alive
  <1> QED BY <1>1, <1>2 DEF EventsWork, SyncWork

LEMMA MildStep ==
  ASSUME DbInv, Mild(s, s'), UNCHANGED os, WorkOK(s', work')
  PROVE  DbInv' /\ NoneResumed(s, s')
  <1>1. PICK t, r, o, w : t = s /\ r = s' /\ o = os /\ w = work'
    OBVIOUS
  <1>2. RecInv(r, NoMore)
    BY <1>1, RecMild DEF DbInv, DbOK
  <1>3. ThreadsOK(r, o) /\ NoneResumed(t, r)
    <2>1. Others(t, r, {}) /\ StaysPlanted(t, r)
      BY <1>1, SameBi DEF Mild, SameRec, SameCtl
    <2> QED BY <1>1, <2>1, ThreadsMild DEF DbInv, DbOK
  <1> QED BY <1>1, <1>2, <1>3 DEF DbInv, DbOK

LEMMA IdleOK == \A t : WorkOK(t, Idle)
  BY DEF WorkOK

-----------------------------------------------------------------------------
(* Threads. *)

LEMMA StopStep ==
  ASSUME DbInv, NEW c \in Threads, work = Idle, os[c] \in {"new", "run", "step"}, NEW dd,
         DOMAIN dd \subseteq StopFields, \A f \in DOMAIN dd : dd[f] \in TypeOf(f),
         "exiting" \in DOMAIN dd => dd["exiting"],
         s' = context_stopped(s, c, dd), Held(c), UNCHANGED work
  PROVE  DbInv' /\ NoneResumed(s, s')
  <1>1. PICK t, r, o, n : t = s /\ r = s' /\ o = os /\ n = os'
    OBVIOUS
  <1>2. RecInv(t, NoMore) /\ ThreadsOK(t, o) /\ NoMore \in Int
    BY <1>1, NoMoreType DEF DbInv, DbOK
  <1>3. RecInv(r, NoMore) /\ r.bi = t.bi /\ Others(t, r, {c}) /\ HasStopped(t.ctx[c], r.ctx[c])
    BY <1>1, <1>2, ContextStopped
  <1>4. n = [o EXCEPT ![c] = "held"]
    BY <1>1 DEF Held
  <1>5. OsThread(r.ctx[c], "held")
    BY <1>1, <1>2, <1>3 DEF ThreadsOK, OsOK, OsThread, HasStopped
  <1>6. ThreadsOK(r, n)
    <2>1. StaysPlanted(t, r)
      BY <1>3, SameBi
    <2>2. PICK k \in OsStates : k = "held"
      BY DEF OsStates
    <2>3. n = [o EXCEPT ![c] = k] /\ OsThread(r.ctx[c], k) /\ k # "run"
      BY <1>4, <1>5, <2>2
    <2> QED BY <1>2, <1>3, <2>1, <2>3, ThreadsChange
  <1>7. NoneResumed(t, r)
    BY <1>3 DEF NoneResumed, Others, Raise, HasStopped
  <1> QED BY <1>1, <1>3, <1>6, <1>7, IdleOK DEF DbInv, DbOK

LEMMA SigStopStep ==
  ASSUME DbInv, NEW c \in Threads, SigStop(c)
  PROVE  DbInv' /\ NoneResumed(s, s')
  <1>1. PICK b \in BOOLEAN : b = (os[c] = "step")
    OBVIOUS
  <1>2. PICK dd : dd = [sigstop_posted |-> FALSE, at_bp |-> b]
    OBVIOUS
  <1>3. DOMAIN dd = {"sigstop_posted", "at_bp"} /\ dd["sigstop_posted"] = FALSE /\ dd["at_bp"] = b
    BY <1>2
  <1>4. DOMAIN dd \subseteq StopFields /\ (\A f \in DOMAIN dd : dd[f] \in TypeOf(f))
        /\ "exiting" \notin DOMAIN dd
    BY <1>3 DEF StopFields, TypeOf
  <1>5. s' = context_stopped(s, c, dd) /\ Held(c) /\ UNCHANGED work /\ work = Idle
        /\ os[c] \in {"new", "run", "step"}
    BY <1>1, <1>2 DEF SigStop, Running
  <1> QED BY <1>4, <1>5, StopStep

LEMMA StepDoneStep ==
  ASSUME DbInv, NEW c \in Threads, StepDone(c)
  PROVE  DbInv' /\ NoneResumed(s, s')
  <1>1. PICK moved \in BOOLEAN : s' = context_stopped(s, c, [at_bp |-> ~moved])
    BY DEF StepDone
  <1>2. PICK b \in BOOLEAN : b = ~moved
    OBVIOUS
  <1>3. PICK dd : dd = [at_bp |-> b]
    OBVIOUS
  <1>4. DOMAIN dd = {"at_bp"} /\ dd["at_bp"] = b
    BY <1>3
  <1>5. DOMAIN dd \subseteq StopFields /\ (\A f \in DOMAIN dd : dd[f] \in TypeOf(f))
        /\ "exiting" \notin DOMAIN dd
    BY <1>4 DEF StopFields, TypeOf
  <1>6. s' = context_stopped(s, c, dd) /\ Held(c) /\ UNCHANGED work /\ work = Idle
        /\ os[c] \in {"new", "run", "step"}
    BY <1>1, <1>2, <1>3 DEF StepDone, Running
  <1> QED BY <1>5, <1>6, StopStep

LEMMA UnsolicitedStep ==
  ASSUME DbInv, NEW c \in Threads, Unsolicited(c)
  PROVE  DbInv' /\ NoneResumed(s, s')
  <1>1. CASE BreakpointHit(c)
    <2>1. PICK dd : dd = [stopped_by_bp |-> TRUE]
      OBVIOUS
    <2>2. DOMAIN dd = {"stopped_by_bp"} /\ dd["stopped_by_bp"] = TRUE
      BY <2>1
    <2>3. DOMAIN dd \subseteq StopFields /\ (\A f \in DOMAIN dd : dd[f] \in TypeOf(f))
          /\ "exiting" \notin DOMAIN dd
      BY <2>2 DEF StopFields, TypeOf
    <2>4. s' = context_stopped(s, c, dd) /\ Held(c) /\ UNCHANGED work /\ work = Idle
          /\ os[c] \in {"new", "run", "step"}
      BY <1>1, <2>1 DEF BreakpointHit, Running
    <2> QED BY <2>3, <2>4, StopStep
  <1>2. CASE Signal(c)
    <2>1. PICK dd : dd = [pending_intercept |-> TRUE, stopped_by_exception |-> TRUE]
      OBVIOUS
    <2>2. DOMAIN dd = {"pending_intercept", "stopped_by_exception"}
          /\ dd["pending_intercept"] = TRUE /\ dd["stopped_by_exception"] = TRUE
      BY <2>1
    <2>3. DOMAIN dd \subseteq StopFields /\ (\A f \in DOMAIN dd : dd[f] \in TypeOf(f))
          /\ "exiting" \notin DOMAIN dd
      BY <2>2 DEF StopFields, TypeOf
    <2>4. s' = context_stopped(s, c, dd) /\ Held(c) /\ UNCHANGED work /\ work = Idle
          /\ os[c] \in {"new", "run", "step"}
      BY <1>2, <2>1 DEF Signal, Running
    <2> QED BY <2>3, <2>4, StopStep
  <1>3. CASE ExitStop(c)
    <2>1. PICK dd : dd = [exiting |-> TRUE]
      OBVIOUS
    <2>2. DOMAIN dd = {"exiting"} /\ dd["exiting"] = TRUE
      BY <2>1
    <2>3. DOMAIN dd \subseteq StopFields /\ (\A f \in DOMAIN dd : dd[f] \in TypeOf(f))
          /\ dd["exiting"]
      BY <2>2 DEF StopFields, TypeOf
    <2>4. s' = context_stopped(s, c, dd) /\ Held(c) /\ UNCHANGED work /\ work = Idle
          /\ os[c] \in {"new", "run", "step"}
      BY <1>3, <2>1 DEF ExitStop, Running
    <2> QED BY <2>3, <2>4, StopStep
  <1> QED BY <1>1, <1>2, <1>3 DEF Unsolicited

\* The thread that was cloned is expected, then its creator stops.
LEMMA CloneStep ==
  ASSUME DbInv, NEW c \in Threads, NEW d \in Threads, Clone(c, d)
  PROVE  DbInv' /\ NoneResumed(s, s')
  <1>1. PICK t, r, o, n, u, dd, m : /\ t = s /\ r = s' /\ o = os /\ n = os'
                                    /\ u = AddThread(s, d) /\ dd = <<>>
                                    /\ m = [os EXCEPT ![d] = "new"]
    OBVIOUS
  <1>2. RecInv(t, NoMore) /\ ThreadsOK(t, o) /\ NoMore \in Int
    BY <1>1, NoMoreType DEF DbInv, DbOK
  <1>3. /\ o \in [Threads -> OsStates] /\ o[c] = "run" /\ o[d] = "none" /\ c # d
        /\ ProcessOf[c] = ProcessOf[d] /\ work = Idle /\ work' = work
        /\ r = context_stopped(u, c, dd) /\ n = [o EXCEPT ![c] = "held", ![d] = "new"]
    BY <1>1, <1>2 DEF Clone, Running, ThreadsOK, OsOK
  <1>4. OsThread(t.ctx[c], "run") /\ OsThread(t.ctx[d], "none")
    BY <1>2, <1>3 DEF ThreadsOK, OsOK
  <1>5. Alive(t, c)
    BY <1>4 DEF OsThread, Alive
  <1>6. RecInv(u, NoMore) /\ u.bi = t.bi /\ Others(t, u, {d}) /\ Appeared(t.ctx[d], u.ctx[d])
    BY <1>1, <1>2, <1>3, <1>5, ThreadAdded
  <1>7. DOMAIN dd = {}
    BY <1>1
  <1>8. DOMAIN dd \subseteq StopFields /\ (\A f \in DOMAIN dd : dd[f] \in TypeOf(f))
        /\ "exiting" \notin DOMAIN dd
    BY <1>7
  <1>9. RecInv(r, NoMore) /\ r.bi = u.bi /\ Others(u, r, {c}) /\ HasStopped(u.ctx[c], r.ctx[c])
    BY <1>2, <1>3, <1>6, <1>8, ContextStopped
  <1>10. ThreadsOK(u, m)
    <2>1. PICK k \in OsStates : k = "new"
      BY DEF OsStates
    <2>2. OsThread(u.ctx[d], k) /\ k # "run" /\ m = [o EXCEPT ![d] = k]
      BY <1>1, <1>4, <1>6, <2>1 DEF OsThread, Appeared
    <2>3. StaysPlanted(t, u)
      BY <1>6, SameBi
    <2> QED BY <1>2, <1>6, <2>2, <2>3, ThreadsChange
  <1>11. ThreadsOK(r, n)
    <2>1. PICK k \in OsStates : k = "held"
      BY DEF OsStates
    <2>2. m[c] = "run" /\ n = [m EXCEPT ![c] = k]
      BY <1>1, <1>3, <2>1
    <2>3. OsThread(u.ctx[c], "run")
      BY <1>10, <2>2 DEF ThreadsOK, OsOK
    <2>4. OsThread(r.ctx[c], k) /\ k # "run"
      BY <1>9, <2>1, <2>3 DEF OsThread, HasStopped
    <2>5. StaysPlanted(u, r)
      BY <1>9, SameBi
    <2> QED BY <1>9, <1>10, <2>2, <2>4, <2>5, ThreadsChange
  <1>12. NoneResumed(t, r)
    BY <1>4, <1>6, <1>9 DEF NoneResumed, Others, Raise, HasStopped, OsThread
  <1> QED BY <1>1, <1>3, <1>9, <1>11, <1>12, IdleOK DEF DbInv, DbOK

LEMMA LeaveStep ==
  ASSUME DbInv, NEW c \in Threads, Leave(c)
  PROVE  DbInv' /\ NoneResumed(s, s')
  <1>1. PICK t, o, n : t = s /\ o = os /\ n = os'
    OBVIOUS
  <1>2. RecInv(t, NoMore) /\ ThreadsOK(t, o)
    BY <1>1 DEF DbInv, DbOK
  <1>3. o[c] \in {"run", "step"} /\ n = [o EXCEPT ![c] = "dead"] /\ s' = t /\ work = Idle /\ work' = Idle
    BY <1>1 DEF Leave, Running
  <1>4. n \in [Threads -> OsStates]
        /\ \A x \in Threads : n[x] = o[x] \/ (n[x] = "dead" /\ o[x] \notin {"none", "gone"})
    BY <1>2, <1>3 DEF ThreadsOK, OsOK, OsStates
  <1>5. ThreadsOK(t, n)
    BY <1>2, <1>4, ThreadsKilled
  <1> QED BY <1>1, <1>2, <1>3, <1>5, IdleOK DEF DbInv, DbOK, NoneResumed

LEMMA KilledStates ==
  ASSUME NEW t, ThreadsOK(t, os), NEW p
  PROVE  ThreadsOK(t, Killed(p))
  <1>1. PICK n : n = Killed(p)
    OBVIOUS
  <1>2. \A x \in Threads : n[x] = IF ProcessOf[x] = p /\ os[x] \notin {"none", "gone"}
                                    THEN "dead" ELSE os[x]
    BY <1>1 DEF Killed
  <1>3. n \in [Threads -> OsStates]
    BY <1>1 DEF Killed, ThreadsOK, OsOK, OsStates
  <1>4. \A x \in Threads : n[x] = os[x] \/ (n[x] = "dead" /\ os[x] \notin {"none", "gone"})
    BY <1>2
  <1> QED BY <1>1, <1>2, <1>3, <1>4, ThreadsKilled

LEMMA KillStep ==
  ASSUME DbInv, NEW p \in Processes, Kill(p)
  PROVE  DbInv' /\ NoneResumed(s, s')
  <1>1. PICK t, n : t = s /\ n = os'
    OBVIOUS
  <1>2. RecInv(t, NoMore) /\ ThreadsOK(s, os)
    BY <1>1 DEF DbInv, DbOK
  <1>3. n = Killed(p) /\ s' = t /\ work' = Idle
    BY <1>1 DEF Kill
  <1>4. ThreadsOK(t, n)
    BY <1>1, <1>2, <1>3, KilledStates
  <1> QED BY <1>1, <1>2, <1>3, <1>4, IdleOK DEF DbInv, DbOK, NoneResumed

LEMMA ExitReportStep ==
  ASSUME DbInv, NEW c \in Threads, ExitReport(c)
  PROVE  DbInv' /\ NoneResumed(s, s')
  <1>1. PICK t, r, o, n, dead : t = s /\ r = s' /\ o = os /\ n = os' /\ dead = Dead
    OBVIOUS
  <1>2. RecInv(t, NoMore) /\ ThreadsOK(t, o) /\ NoMore \in Int
    BY <1>1, NoMoreType DEF DbInv, DbOK
  <1>3. r = Exited(t, dead, c)
    BY <1>1, Zenon DEF ExitReport, Exited
  <1>4. o[c] = "dead" /\ n = [o EXCEPT ![c] = "gone"] /\ work = Idle /\ work' = work
    BY <1>1 DEF ExitReport
  <1>5. RecInv(r, NoMore) /\ r.bi = t.bi /\ Others(t, r, {c}) /\ HasExited(t.ctx[c], r.ctx[c])
    BY <1>2, <1>3, ContextExited
  <1>6. ThreadsOK(r, n)
    <2>1. PICK k \in OsStates : k = "gone"
      BY DEF OsStates
    <2>2. OsThread(t.ctx[c], "dead")
      BY <1>2, <1>4 DEF ThreadsOK, OsOK
    <2>3. OsThread(r.ctx[c], k) /\ k # "run" /\ n = [o EXCEPT ![c] = k]
      BY <1>4, <1>5, <2>1, <2>2 DEF OsThread, HasExited
    <2>4. StaysPlanted(t, r)
      BY <1>5, SameBi
    <2> QED BY <1>2, <1>5, <2>3, <2>4, ThreadsChange
  <1>7. NoneResumed(t, r)
    BY <1>5 DEF NoneResumed, Others, Raise, HasExited
  <1> QED BY <1>1, <1>4, <1>5, <1>6, <1>7, IdleOK DEF DbInv, DbOK

-----------------------------------------------------------------------------
(* The timer and the commands. *)

LEMMA TimerStep ==
  ASSUME DbInv, StopAllTimer
  PROVE  DbInv' /\ NoneResumed(s, s')
  <1>1. s \in DState
    BY DEF DbInv, DbOK, RecInv
  <1>2. Mild(s, s')
    BY <1>1, TimerMild DEF StopAllTimer
  <1>3. UNCHANGED os /\ work' = Idle
    BY DEF StopAllTimer
  <1>4. WorkOK(s', work')
    BY <1>3, IdleOK
  <1> QED BY <1>2, <1>3, <1>4, MildStep

LEMMA SuspendStep ==
  ASSUME DbInv, NEW c \in Threads, command_suspend(c)
  PROVE  DbInv' /\ NoneResumed(s, s')
  <1>1. s \in DState
    BY DEF DbInv, DbOK, RecInv
  <1>2. Mild(s, s')
    BY <1>1, SuspendMild DEF command_suspend
  <1>3. UNCHANGED os /\ work' = Idle
    BY DEF command_suspend
  <1>4. WorkOK(s', work')
    BY <1>3, IdleOK
  <1> QED BY <1>2, <1>3, <1>4, MildStep

LEMMA ResumeStep ==
  ASSUME DbInv, NEW c \in Threads, command_resume(c)
  PROVE  DbInv' /\ NoneResumed(s, s')
  <1>1. s \in DState
    BY DEF DbInv, DbOK, RecInv
  <1>2. PICK u, t : u = Set(s, c, [terminate |-> FALSE]) /\ t = s
    OBVIOUS
  <1>3. Mild(t, Set(t, c, [terminate |-> FALSE])) /\ SameButCtx(t, Set(t, c, [terminate |-> FALSE]))
    <2>1. PICK d : d = [terminate |-> FALSE]
      OBVIOUS
    <2>2. DOMAIN d = {"terminate"} /\ d["terminate"] = FALSE
      BY <2>1
    <2>3. \A f \in DOMAIN d : d[f] \in TypeOf(f)
      BY <2>2, <1>1, <1>2 DEF TypeOf
    <2>4. Mild(t, Set(t, c, d)) /\ SameButCtx(t, Set(t, c, d))
      BY <1>1, <1>2, <2>2, <2>3, SetMild, Fields
    <2> QED BY <2>1, <2>4
  <1>4. Mild(t, u) /\ u \in DState
    BY <1>2, <1>3 DEF Mild
  <1>5. Mild(u, resume_context_tree(u, c))
    BY <1>4, ResumeTreeMild
  <1>6. Mild(s, s')
    BY <1>2, <1>4, <1>5, MildTrans DEF command_resume
  <1>7. UNCHANGED os /\ work' = Idle
    BY DEF command_resume
  <1>8. WorkOK(s', work')
    BY <1>7, IdleOK
  <1> QED BY <1>6, <1>7, <1>8, MildStep

\* A step of an idle agent that leaves the threads as they are.
LEMMA QuietStep ==
  ASSUME DbInv, NEW r, r = s', RecInv(r, NoMore), Others(s, r, {}), r.bi = s.bi, UNCHANGED os,
         work' = Idle
  PROVE  DbInv' /\ NoneResumed(s, s')
  <1>1. PICK t, o : t = s /\ o = os
    OBVIOUS
  <1>2. ThreadsOK(t, o) /\ Others(t, r, {}) /\ StaysPlanted(t, r)
    BY <1>1, SameBi DEF DbInv, DbOK
  <1>3. ThreadsOK(r, o) /\ NoneResumed(t, r)
    BY <1>2, ThreadsMild
  <1> QED BY <1>1, <1>3, IdleOK DEF DbInv, DbOK

LEMMA TerminateStep ==
  ASSUME DbInv, NEW c \in Threads, command_terminate(c)
  PROVE  DbInv' /\ NoneResumed(s, s')
  <1>1. PICK t, r, ev : t = s /\ r = s' /\ ev = [ctx |-> c, done |-> "terminate"]
    OBVIOUS
  <1>2. RecInv(t, NoMore) /\ NoMore \in Int
    BY <1>1, NoMoreType DEF DbInv, DbOK
  <1>3. r = post_safe_event(t, c, "terminate") /\ UNCHANGED os /\ work' = Idle
    BY <1>1 DEF command_terminate
  <1>4. ev \in SafeEv /\ ev.done = "terminate"
    BY <1>1 DEF SafeEv
  <1>5. \A q \in Processes : t.bi[q].stepping
            = Cardinality(StepEvents(t.list, q)) + (IF IsStep(ev, q) THEN 1 ELSE 0)
    <2>1. SUFFICES ASSUME NEW q \in Processes
                   PROVE  t.bi[q].stepping = Cardinality(StepEvents(t.list, q))
                                             + (IF IsStep(ev, q) THEN 1 ELSE 0)
      OBVIOUS
    <2>2. t.bi[q].stepping = Cardinality(StepEvents(t.list, q)) /\ t.bi[q].stepping \in Int
      BY <1>2 DEF RecInv, Steps, DState, Instr
    <2>3. ~IsStep(ev, q)
      BY <1>4 DEF IsStep
    <2> QED BY <2>2, <2>3
  <1>6. Core(t, NoMore)
    BY <1>2 DEF RecInv, Core
  <1>7. RecInv(r, NoMore) /\ r.ctx = t.ctx /\ r.bi = t.bi
    BY <1>1, <1>2, <1>3, <1>4, <1>5, <1>6, Posts
  <1>8. Others(s, r, {}) /\ r.bi = s.bi
    BY <1>1, <1>7 DEF Others, Raise
  <1> QED BY <1>1, <1>3, <1>7, <1>8, QuietStep

LEMMA SetBreakpointStep ==
  ASSUME DbInv, set_breakpoint
  PROVE  DbInv' /\ NoneResumed(s, s')
  <1>1. PICK t, r, b : t = s /\ r = s' /\ b = ~s.enabled
    OBVIOUS
  <1>2. RecInv(t, NoMore) /\ NoMore \in Int
    BY <1>1, NoMoreType DEF DbInv, DbOK
  <1>3. PICK u : u = [t EXCEPT !.enabled = b]
    OBVIOUS
  <1>4. b \in BOOLEAN
    BY <1>1
  <1>5. /\ u \in DState /\ u.ctx = t.ctx /\ u.bi = t.bi /\ u.list = t.list /\ u.lock = t.lock
        /\ u.count = t.count /\ u.queue = t.queue /\ u.posted = t.posted
        /\ u.loc_posted = t.loc_posted /\ u.waiting = t.waiting /\ u.replanting = t.replanting
    BY <1>2, <1>3, <1>4 DEF RecInv, DState
  <1>6. r = replant_breakpoint(u) /\ UNCHANGED os /\ work' = Idle
    BY <1>1, <1>3 DEF set_breakpoint
  <1>7. Others(t, u, {})
    BY <1>5 DEF Others, Raise
  <1>8. Base(u, NoMore)
    <2>1. Locked(u, NoMore) /\ Requests(u) /\ Steps(u)
      BY <1>2, <1>5 DEF RecInv, Locked, Requests, Steps
    <2>2. Counted(u)
      BY <1>2, <1>5, <1>7, SamePending DEF RecInv, Counted
    <2>3. Plants(u)
      BY <1>2, <1>5, <1>7, SameExited DEF RecInv, Plants
    <2> QED BY <1>5, <2>1, <2>2, <2>3 DEF Base
  <1>9. Base(r, NoMore) /\ Asks(u, r) /\ {p \in Processes : ~ProcessExited(u, p)} \subseteq r.loc_posted
    BY <1>2, <1>6, <1>8, ReplantBreakpoint
  <1>10. r.ctx = t.ctx /\ r.bi = t.bi
    BY <1>5, <1>9 DEF Asks
  <1>11. Others(u, r, {}) /\ Others(t, r, {})
    BY <1>5, <1>9 DEF Asks, Others, Raise
  <1>12. Wanted(r)
    BY <1>9, <1>11, SameExited DEF Wanted
  <1>13. RecInv(r, NoMore)
    BY <1>9, <1>12 DEF Base, RecInv
  <1> QED BY <1>1, <1>6, <1>10, <1>11, <1>13, QuietStep

-----------------------------------------------------------------------------
(* The events of the dispatch thread: safe events. *)

LEMMA PoppedMild ==
  ASSUME s \in DState, s.queue # <<>>
  PROVE  Mild(s, Popped) /\ Popped.ctx = s.ctx /\ Popped.lock = s.lock
         /\ Head(s.queue) \in Range(s.queue)
  <1>1. PICK t, r, q : t = s /\ r = Popped /\ q = Tail(s.queue)
    OBVIOUS
  <1>2. t \in DState /\ t.queue # <<>> /\ t.queue \in Seq({"safe", "sync", "replant"})
    BY <1>1 DEF DState
  <1>3. q \in Seq({"safe", "sync", "replant"}) /\ Range(q) \subseteq Range(t.queue)
        /\ Head(t.queue) \in Range(t.queue)
    BY <1>1, <1>2, TailRange
  <1>4. r = [t EXCEPT !.queue = q]
    BY <1>1 DEF Popped
  <1>5. r \in DState /\ r.queue = q /\ r.ctx = t.ctx /\ r.lock = t.lock
    BY <1>2, <1>3, <1>4 DEF DState
  <1>6. SameRec(t, r)
    BY <1>2, <1>3, <1>4, <1>5 DEF SameRec, SameCtl, SameReq, DState
  <1> QED BY <1>1, <1>3, <1>5, <1>6 DEF Mild, Others, Raise

\* The threads that are waited for or given up are where they were.
LEMMA ThreadsAwaited ==
  ASSUME NEW t, NEW o, ThreadsOK(t, o), NEW r, r.bi = t.bi,
         \A c \in Threads : Awaited(t.ctx[c], r.ctx[c])
  PROVE  ThreadsOK(r, o) /\ NoneResumed(t, r)
  <1>1. OsOK(r, o)
    BY DEF ThreadsOK, OsOK, OsThread, Awaited
  <1>2. NoneMissed(r, o)
    BY DEF ThreadsOK, NoneMissed, Awaited
  <1>3. NoneResumed(t, r)
    BY DEF NoneResumed, Awaited
  <1> QED BY <1>1, <1>2, <1>3 DEF ThreadsOK

LEMMA RunSafeEvents ==
  ASSUME DbInv, run_safe_events
  PROVE  DbInv' /\ NoneResumed(s, s')
  <1>1. PICK p, marks, dead : p = Popped /\ marks = mark_stop_groups(s) /\ dead = Dead
    OBVIOUS
  <1>2. /\ s \in DState /\ s.queue # <<>> /\ work = Idle /\ UNCHANGED os
    BY DEF run_safe_events, Next1, DbInv, DbOK, RecInv
  <1>3. Mild(s, p) /\ p \in DState
    BY <1>1, <1>2, PoppedMild DEF Mild
  <1>4. \/ s' = p /\ work' = work
        \/ s' = post_event(p, "sync") /\ work' = work
        \/ \E F : s' = stop_groups(p, dead, F, marks) /\ work' = [op |-> "events", marks |-> marks]
    BY <1>1, Zenon DEF run_safe_events
  <1>5. CASE s' = p /\ work' = work
    <2>1. WorkOK(s', work')
      BY <1>2, <1>5, IdleOK
    <2> QED BY <1>2, <1>3, <1>5, <2>1, MildStep
  <1>6. CASE s' = post_event(p, "sync") /\ work' = work
    <2>1. WorkOK(s', work')
      BY <1>2, <1>6, IdleOK
    <2>2. Mild(p, post_event(p, "sync"))
      BY <1>3, PostMild
    <2>3. Mild(s, s')
      BY <1>3, <1>6, <2>2, MildTrans
    <2> QED BY <1>2, <2>1, <2>3, MildStep
  <1>7. ASSUME NEW F, s' = stop_groups(p, dead, F, marks),
               work' = [op |-> "events", marks |-> marks]
        PROVE  DbInv' /\ NoneResumed(s, s')
    <2>1. PICK t, r, o, w : t = s /\ r = s' /\ o = os /\ w = work'
      OBVIOUS
    <2>2. RecInv(t, NoMore) /\ ThreadsOK(t, o)
      BY <2>1 DEF DbInv, DbOK
    <2>3. RecInv(p, NoMore) /\ p.bi = t.bi /\ Others(t, p, {}) /\ StaysPlanted(t, p)
      BY <1>3, <2>1, <2>2, RecMild, SameBi DEF Mild, SameRec, SameCtl
    <2>4. ThreadsOK(p, o)
      BY <2>2, <2>3, ThreadsMild
    <2>5. RecInv(r, NoMore) /\ r.bi = p.bi /\ Marked(r, marks)
          /\ \A c \in Threads : Awaited(p.ctx[c], r.ctx[c])
      BY <1>7, <2>1, <2>3, StopGroups DEF SameCtl
    <2>6. ThreadsOK(r, o)
      BY <2>4, <2>5, ThreadsAwaited
    <2>7. NoneResumed(t, r)
      BY <2>3, <2>5 DEF NoneResumed, Awaited, Others, Raise
    <2>8. WorkOK(r, w)
      BY <1>7, <2>1, <2>5 DEF WorkOK, EventsWork
    <2> QED BY <1>2, <2>1, <2>5, <2>6, <2>7, <2>8 DEF DbInv, DbOK
  <1> QED BY <1>4, <1>5, <1>6, <1>7

\* The lock of an event that has run is released.
LEMMA UnlockRec ==
  ASSUME NEW t, NEW k \in Int, RecInv(t, k), k = NoMore + 1, NEW r, r = run_ctrl_unlock(t)
  PROVE  RecInv(r, NoMore) /\ r.ctx = t.ctx /\ r.bi = t.bi
  <1>1. /\ r \in DState /\ r.ctx = t.ctx /\ r.bi = t.bi /\ SameReq(t, r) /\ r.count = t.count
        /\ r.lock = t.lock - 1 /\ r.list = t.list /\ t \in DState
    BY Unlock DEF RecInv
  <1>2. Locked(r, NoMore)
    <2>1. PICK m, n : m = Len(t.list) /\ n = (IF t.replanting THEN 1 ELSE 0)
      OBVIOUS
    <2>2. m \in Nat /\ n \in Nat /\ t.lock \in Int /\ NoMore \in Int
      BY <1>1, <2>1, NoMoreType DEF DState
    <2>3. t.lock = m + n + k /\ r.replanting = t.replanting
      BY <1>1, <2>1 DEF RecInv, Locked, SameReq
    <2>4. r.lock = m + n + NoMore
      BY <1>1, <2>2, <2>3
    <2> QED BY <1>1, <2>1, <2>3, <2>4 DEF Locked
  <1>3. Others(t, r, {})
    BY <1>1 DEF Others, Raise
  <1>4. Counted(r)
    BY <1>1, <1>3, SamePending DEF RecInv, Counted
  <1>5. Requests(r) /\ Steps(r)
    BY <1>1 DEF RecInv, Requests, Steps, SameReq
  <1>6. Wanted(r) /\ Plants(r)
    BY <1>1, <1>3, SameExited DEF RecInv, Wanted, Plants, SameReq
  <1> QED BY <1>1, <1>2, <1>4, <1>5, <1>6 DEF RecInv

\* A safe event is taken from the list.
WithList(t, q) == [t EXCEPT !.list = q]

LEMMA TakeEvent ==
  ASSUME NEW t, RecInv(t, NoMore), t.list # <<>>, NEW u, u = WithList(t, Tail(t.list)),
         NEW k \in Int, k = NoMore + 1
  PROVE  /\ Core(u, k) /\ u.ctx = t.ctx /\ u.bi = t.bi /\ Head(t.list) \in SafeEv
         /\ Head(t.list).done \in {"skip", "restore"} => StepsPlus(u, GroupOf(Head(t.list).ctx))
         /\ Head(t.list).done \notin {"skip", "restore"} => Steps(u)
  <1>1. t \in DState /\ t.list \in Seq(SafeEv)
    BY DEF RecInv, DState
  <1>2. PICK q, e : q = Tail(t.list) /\ e = Head(t.list)
    OBVIOUS
  <1>3. e \in SafeEv /\ q \in Seq(SafeEv) /\ Len(q) = Len(t.list) - 1
    BY <1>1, <1>2, TailRange
  <1>4. /\ u \in DState /\ u.ctx = t.ctx /\ u.bi = t.bi /\ SameReq(t, u) /\ u.count = t.count
        /\ u.lock = t.lock /\ u.list = q
    BY <1>1, <1>2, <1>3 DEF DState, WithList, SameReq
  <1>5. Locked(u, k)
    <2>1. PICK m, l, n : m = Len(t.list) /\ l = Len(q) /\ n = (IF t.replanting THEN 1 ELSE 0)
      OBVIOUS
    <2>2. m \in Nat /\ l \in Nat /\ n \in Nat /\ NoMore \in Int
      BY <1>1, <1>3, <2>1, NoMoreType
    <2>3. t.lock = m + n + NoMore /\ u.replanting = t.replanting
      BY <1>4, <2>1 DEF RecInv, Locked, SameReq
    <2>4. l = m - 1
      BY <1>3, <2>1
    <2>5. u.lock = l + n + k
      BY <1>4, <2>2, <2>3, <2>4
    <2> QED BY <1>4, <2>1, <2>3, <2>5 DEF Locked
  <1>6. Others(t, u, {})
    BY <1>4 DEF Others, Raise
  <1>7. Counted(u)
    BY <1>4, <1>6, SamePending DEF RecInv, Counted
  <1>8. Requests(u)
    BY <1>4 DEF RecInv, Requests, SameReq
  <1>9. Wanted(u) /\ Plants(u)
    BY <1>4, <1>6, SameExited DEF RecInv, Wanted, Plants, SameReq
  <1>10. ASSUME NEW p \in Processes
         PROVE  u.bi[p].stepping = Cardinality(StepEvents(u.list, p))
                                   + (IF IsStep(e, p) THEN 1 ELSE 0)
    BY <1>1, <1>2, <1>4, StepTail DEF RecInv, Steps
  <1>11. ASSUME e.done \in {"skip", "restore"} PROVE StepsPlus(u, GroupOf(e.ctx))
    BY <1>10, <1>11 DEF IsStep, StepsPlus
  <1>12. ASSUME e.done \notin {"skip", "restore"} PROVE Steps(u)
    <2>1. SUFFICES ASSUME NEW p \in Processes
                   PROVE  u.bi[p].stepping = Cardinality(StepEvents(u.list, p))
      BY DEF Steps
    <2>2. PICK m : m = Cardinality(StepEvents(u.list, p))
      OBVIOUS
    <2>3. m \in Nat
      BY <1>1, <1>2, <1>4, <2>2, StepTail
    <2>4. ~IsStep(e, p)
      BY <1>12 DEF IsStep
    <2>5. u.bi[p].stepping = m + 0
      BY <1>10, <2>2, <2>4
    <2> QED BY <2>2, <2>3, <2>5
  <1> QED BY <1>2, <1>3, <1>4, <1>5, <1>7, <1>8, <1>9, <1>11, <1>12 DEF Core

\* What a safe event leaves: its thread may be on a single step.
Ran(t, r, e) ==
    \/ r.bi = t.bi /\ Others(t, r, {})
    \/ \E c \in Threads : e.ctx = c /\ Stepped(t, r, c)

LEMMA EventRuns ==
  ASSUME NEW t, NEW k \in Nat, Core(t, k), NEW e \in SafeEv, NEW F,
         e.done \in {"skip", "restore"} => StepsPlus(t, GroupOf(e.ctx)),
         e.done \notin {"skip", "restore"} => Steps(t)
  PROVE  RecInv(SafeEvent(t, F, e), k) /\ Ran(t, SafeEvent(t, F, e), e)
  <1>1. PICK r, dead : r = SafeEvent(t, F, e) /\ dead = Dead
    OBVIOUS
  <1>2. \/ e.done = "skip" /\ e.ctx \in Threads
        \/ e.done = "restore" /\ e.ctx \in Threads
        \/ e.done = "terminate" /\ e.ctx \in Threads
        \/ e.done = "wait"
    BY DEF SafeEv
  <1>3. CASE e.done = "skip" /\ e.ctx \in Threads
    <2>1. r = safe_skip_breakpoint(t, dead, F, e.ctx)
      BY <1>1, <1>3 DEF SafeEvent
    <2>2. StepsPlus(t, ProcessOf[e.ctx])
      BY <1>3 DEF GroupOf
    <2>3. RecInv(r, k) /\ Stepped(t, r, e.ctx)
      BY <1>3, <2>1, <2>2, SafeSkip
    <2> QED BY <1>1, <1>3, <2>3 DEF Ran
  <1>4. CASE e.done = "restore" /\ e.ctx \in Threads
    <2>1. r = safe_restore_breakpoint(t, dead, F, e.ctx)
      BY <1>1, <1>4 DEF SafeEvent
    <2>2. StepsPlus(t, ProcessOf[e.ctx])
      BY <1>4 DEF GroupOf
    <2>3. RecInv(r, k) /\ Stepped(t, r, e.ctx)
      BY <1>4, <2>1, <2>2, SafeRestore
    <2> QED BY <1>1, <1>4, <2>3 DEF Ran
  <1>5. CASE e.done = "terminate" /\ e.ctx \in Threads
    <2>1. r = event_terminate(t, e.ctx)
      BY <1>1, <1>5 DEF SafeEvent
    <2>2. RecInv(t, k)
      BY <1>5 DEF Core, RecInv
    <2>3. Mild(t, r)
      BY <1>5, <2>1, TerminateMild DEF Core
    <2>4. RecInv(r, k)
      BY <2>2, <2>3, RecMild
    <2> QED BY <1>1, <2>3, <2>4 DEF Ran, Mild, SameRec, SameCtl
  <1>6. CASE e.done = "wait"
    <2>1. r = t
      BY <1>1, <1>6 DEF SafeEvent
    <2>2. RecInv(t, k)
      BY <1>6 DEF Core, RecInv
    <2> QED BY <1>1, <2>1, <2>2 DEF Ran, Others, Raise
  <1> QED BY <1>2, <1>3, <1>4, <1>5, <1>6

\* Nobody is waited for when the counter is zero.
LEMMA NonePending ==
  ASSUME NEW t, Counted(t), t.count = 0
  PROVE  \A c \in Threads : ~t.ctx[c].pending_safe_event
  BY PendingFinite, FS_EmptySet DEF Counted, Pending

\* The threads after a safe event e of a group that has stopped.
LEMMA ThreadsRan ==
  ASSUME NEW t, NEW o, ThreadsOK(t, o), NEW marks, Marked(t, marks),
         \A c \in Threads : ~t.ctx[c].pending_safe_event,
         NEW e \in SafeEv, GroupOf(e.ctx) \in marks,
         NEW r, Ran(t, r, e), NEW n,
         n = [c \in Threads |-> IF o[c] = "held" /\ t.ctx[c].stopped /\ ~r.ctx[c].stopped
                                  THEN "step" ELSE o[c]]
  PROVE  ThreadsOK(r, n) /\ NoneResumed(t, r) /\ Marked(r, marks)
  <1>1. CASE r.bi = t.bi /\ Others(t, r, {})
    <2>1. n = o
      <3>1. o \in [Threads -> OsStates] /\ \A c \in Threads : r.ctx[c].stopped = t.ctx[c].stopped
        BY <1>1 DEF ThreadsOK, OsOK, Others, Raise
      <3>2. \A c \in Threads : n[c] = o[c]
        BY <3>1
      <3> QED BY <3>1, <3>2
    <2>2. ThreadsOK(r, o) /\ NoneResumed(t, r)
      BY <1>1, SameBi, ThreadsMild
    <2>3. Marked(r, marks)
      BY <1>1 DEF Marked, Others, Raise, Alive
    <2> QED BY <2>1, <2>2, <2>3
  <1>2. ASSUME NEW c \in Threads, e.ctx = c, Stepped(t, r, c)
        PROVE  ThreadsOK(r, n) /\ NoneResumed(t, r) /\ Marked(r, marks)
    <2>1. /\ ProcessOf[c] \in marks /\ Others(t, r, {c})
          /\ Raise(t.ctx[c], r.ctx[c]) \/ SingleStep(t.ctx[c], r.ctx[c])
          /\ \A q \in Processes \ {ProcessOf[c]} : r.bi[q] = t.bi[q]
      BY <1>2 DEF GroupOf, Stepped
    <2>2. \A x \in Threads : /\ r.ctx[x].known = t.ctx[x].known /\ r.ctx[x].exited = t.ctx[x].exited
                             /\ r.ctx[x].cannot_stop = t.ctx[x].cannot_stop
                             /\ t.ctx[x].exiting => r.ctx[x].exiting
                             /\ r.ctx[x].stopped => t.ctx[x].stopped
      BY <2>1 DEF Others, Raise, SingleStep
    <2>3. n \in [Threads -> OsStates]
          /\ \A x \in Threads : n[x] = o[x] \/ (o[x] = "held" /\ n[x] = "step" /\ ~r.ctx[x].stopped)
      BY DEF ThreadsOK, OsOK, OsStates
    <2>4. OsOK(r, n)
      BY <2>2, <2>3 DEF ThreadsOK, OsOK, OsThread
    <2>5. NoneMissed(r, n)
      <3>1. SUFFICES ASSUME NEW x \in Threads, n[x] = "run",
                            r.bi[ProcessOf[x]].refs, ~r.bi[ProcessOf[x]].planted
                     PROVE  r.ctx[x].exiting \/ r.ctx[x].cannot_stop
        BY DEF NoneMissed
      <3>2. o[x] = "run"
        BY <2>3, <3>1
      <3>3. CASE ProcessOf[x] = ProcessOf[c]
        <4>1. OsThread(t.ctx[x], "run")
          BY <3>2 DEF ThreadsOK, OsOK
        <4>2. Alive(t, x) /\ ~t.ctx[x].stopped
          BY <4>1 DEF OsThread, Alive
        <4>3. t.ctx[x].exiting \/ t.ctx[x].cannot_stop
          BY <2>1, <3>3, <4>2 DEF Marked
        <4> QED BY <2>2, <4>3
      <3>4. CASE ProcessOf[x] # ProcessOf[c]
        <4>1. ProcessOf[x] \in Processes \ {ProcessOf[c]}
          BY <3>4, ContextsAssumption
        <4>2. r.bi[ProcessOf[x]] = t.bi[ProcessOf[x]]
          BY <2>1, <4>1
        <4> QED BY <2>2, <3>1, <3>2, <4>2 DEF ThreadsOK, NoneMissed
      <3> QED BY <3>3, <3>4
    <2>6. NoneResumed(t, r)
      BY <2>1 DEF NoneResumed, Others, Raise, SingleStep
    <2>7. Marked(r, marks)
      BY <2>1 DEF Marked, Others, Raise, SingleStep, Alive
    <2> QED BY <2>4, <2>5, <2>6, <2>7 DEF ThreadsOK
  <1> QED BY <1>1, <1>2 DEF Ran

LEMMA RunSafeEvent ==
  ASSUME DbInv, run_safe_event
  PROVE  DbInv' /\ NoneResumed(s, s')
  <1>1. PICK t, o, w, u, e, k : /\ t = s /\ o = os /\ w = work /\ e = Head(s.list)
                                /\ u = WithList(s, Tail(s.list)) /\ k = NoMore + 1
    OBVIOUS
  <1>2. /\ t \in DState /\ RecInv(t, NoMore) /\ ThreadsOK(t, o) /\ t.list # <<>>
        /\ EventsWork(t, w) /\ k \in Nat /\ k \in Int
    <2>1. work.op = "events"
      BY DEF run_safe_event
    <2> QED BY <1>1, <2>1, NoMoreType DEF DbInv, DbOK, RecInv, WorkOK, EventsWork, ClientsWork,
                                          SyncWork, Idle, run_safe_event
  <1>3. \/ s' \in {post_event(t, "safe"), t, [t EXCEPT !.timer = TRUE]}
           /\ work' = Idle /\ UNCHANGED os
        \/ /\ GroupOf(e.ctx) \in w.marks /\ ~(t.count > 0) /\ work' = w
           /\ \E F, v : /\ v = SafeEvent(u, F, e)
                        /\ s' = run_ctrl_unlock(v)
                        /\ os' = [c \in Threads |->
                                    IF o[c] = "held" /\ t.ctx[c].stopped /\ ~v.ctx[c].stopped
                                      THEN "step" ELSE o[c]]
    <2>1. CASE GroupOf(e.ctx) \notin w.marks
      <3>1. /\ s' = IF Posted(s) = 0 THEN post_event(s, "safe") ELSE s
            /\ work' = Idle /\ UNCHANGED os
        BY <1>1, <2>1 DEF run_safe_event
      <3> QED BY <1>1, <3>1
    <2>2. CASE GroupOf(e.ctx) \in w.marks /\ s.count > 0
      <3>1. s' = [s EXCEPT !.timer = TRUE] /\ work' = Idle /\ UNCHANGED os
        BY <1>1, <2>2 DEF run_safe_event
      <3> QED BY <1>1, <3>1
    <2>3. CASE GroupOf(e.ctx) \in w.marks /\ ~(s.count > 0)
      <3>1. PICK F, v : /\ v = SafeEvent([s EXCEPT !.list = Tail(@)], F, e)
                        /\ s' = run_ctrl_unlock(v)
                        /\ os' = [c \in Threads |->
                                    IF os[c] = "held" /\ s.ctx[c].stopped /\ ~v.ctx[c].stopped
                                      THEN "step" ELSE os[c]]
                        /\ UNCHANGED work
        BY <1>1, <2>3 DEF run_safe_event
      <3>2. u = [s EXCEPT !.list = Tail(@)]
        BY <1>1 DEF WithList
      <3>3. /\ v = SafeEvent(u, F, e)
            /\ os' = [c \in Threads |->
                        IF o[c] = "held" /\ t.ctx[c].stopped /\ ~v.ctx[c].stopped
                          THEN "step" ELSE o[c]]
        BY <1>1, <3>1, <3>2
      <3>4. GroupOf(e.ctx) \in w.marks /\ ~(t.count > 0) /\ work' = w
        BY <1>1, <2>3, <3>1
      <3>5. s' = run_ctrl_unlock(v)
        BY <3>1
      <3> QED BY <3>3, <3>4, <3>5, Zenon
    <2> QED BY <1>1, <2>1, <2>2, <2>3
  <1>4. CASE s' \in {post_event(t, "safe"), t, [t EXCEPT !.timer = TRUE]}
             /\ work' = Idle /\ UNCHANGED os
    <2>1. Mild(s, s')
      BY <1>1, <1>2, <1>4, PostMild, MildRefl, TimerMild
    <2>2. WorkOK(s', work')
      BY <1>4, IdleOK
    <2> QED BY <1>4, <2>1, <2>2, MildStep
  <1>5. ASSUME GroupOf(e.ctx) \in w.marks, ~(t.count > 0), work' = w,
               NEW F, NEW v, v = SafeEvent(u, F, e), s' = run_ctrl_unlock(v), NEW n, n = os',
               n = [c \in Threads |->
                      IF o[c] = "held" /\ t.ctx[c].stopped /\ ~v.ctx[c].stopped
                        THEN "step" ELSE o[c]]
        PROVE  DbInv' /\ NoneResumed(s, s')
    <2>1. PICK r : r = s'
      OBVIOUS
    <2>2. t.count = 0 /\ Counted(t)
      <3>1. Counted(t) /\ Cardinality(Pending(t)) \in Nat
        BY <1>2, PendingFinite DEF RecInv
      <3> QED BY <1>5, <3>1 DEF Counted
    <2>3. \A c \in Threads : ~t.ctx[c].pending_safe_event
      BY <2>2, NonePending
    <2>4. /\ Core(u, k) /\ u.ctx = t.ctx /\ u.bi = t.bi /\ e \in SafeEv
          /\ e.done \in {"skip", "restore"} => StepsPlus(u, GroupOf(e.ctx))
          /\ e.done \notin {"skip", "restore"} => Steps(u)
      BY <1>1, <1>2, TakeEvent
    <2>5. RecInv(v, k) /\ Ran(u, v, e)
      BY <1>2, <1>5, <2>4, EventRuns
    <2>6. RecInv(r, NoMore) /\ r.ctx = v.ctx /\ r.bi = v.bi
      BY <1>1, <1>2, <1>5, <2>1, <2>5, UnlockRec
    <2>7. Ran(t, r, e)
      BY <2>4, <2>5, <2>6 DEF Ran, Stepped, Others
    <2>8. n = [c \in Threads |-> IF o[c] = "held" /\ t.ctx[c].stopped /\ ~r.ctx[c].stopped
                                   THEN "step" ELSE o[c]]
      BY <1>5, <2>6
    <2>9. ThreadsOK(r, n) /\ NoneResumed(t, r) /\ Marked(r, w.marks)
      BY <1>2, <1>5, <2>3, <2>4, <2>7, <2>8, ThreadsRan DEF EventsWork
    <2>10. WorkOK(r, w)
      BY <1>2, <2>9 DEF WorkOK, EventsWork
    <2> QED BY <1>1, <1>5, <2>1, <2>6, <2>9, <2>10 DEF DbInv, DbOK
  <1> QED BY <1>3, <1>4, <1>5

LEMMA SafeEventsDone ==
  ASSUME DbInv, safe_events_done
  PROVE  DbInv' /\ NoneResumed(s, s')
  <1>1. PICK q : q = s.waiting
    OBVIOUS
  <1>2. q \in Seq(Processes) /\ IsInjective(q) /\ s \in DState
    BY <1>1 DEF DbInv, DbOK, RecInv, DState, Requests
  <1>3. work' = [op |-> "clients", rest |-> q] /\ UNCHANGED os /\ s' = s
    BY <1>1 DEF safe_events_done
  <1>4. ClientsWork(s', work')
    BY <1>1, <1>2, <1>3 DEF ClientsWork
  <1>5. Mild(s, s')
    BY <1>2, <1>3, MildRefl
  <1> QED BY <1>3, <1>4, <1>5, MildStep DEF WorkOK

-----------------------------------------------------------------------------
(* The events of the dispatch thread: replanting. *)

\* The requests that were posted become active.
NewRound(t, S, q) ==
    [t EXCEPT !.active = S, !.loc_active = t.loc_posted, !.waiting = q,
              !.posted = <<>>, !.loc_posted = {}]

LEMMA RoundStarts ==
  ASSUME NEW t, RecInv(t, NoMore), "replant" \notin Range(t.queue), t.waiting = <<>>,
         NEW q, q = t.posted, NEW r, r = NewRound(t, Range(q), q)
  PROVE  RecInv(r, NoMore) /\ r.ctx = t.ctx /\ r.bi = t.bi /\ r.waiting = q
  <1>1. /\ t \in DState /\ q \in Seq(Processes) /\ IsInjective(q)
        /\ q # <<>> => t.replanting
        /\ t.loc_posted \subseteq Range(q)
    BY DEF RecInv, DState, Requests
  <1>2. Range(q) \subseteq Processes /\ Range(t.waiting) = {}
    BY <1>1, RangeOf DEF DState
  <1>3. PICK v : v = [t EXCEPT !.active = Range(q), !.loc_active = t.loc_posted, !.waiting = q]
    OBVIOUS
  <1>4. v \in DState
    BY <1>1, <1>2, <1>3 DEF DState
  <1>5. r = [v EXCEPT !.posted = <<>>, !.loc_posted = {}]
    BY <1>1, <1>3 DEF NewRound, DState
  <1>6. PICK y, z : y = <<>> /\ z = {}
    OBVIOUS
  <1>7. y \in Seq(Processes) /\ z \subseteq Processes /\ r = [v EXCEPT !.posted = y, !.loc_posted = z]
    BY <1>5, <1>6
  <1>8. r \in DState
    BY <1>4, <1>7 DEF DState
  <1>9. /\ r.ctx = t.ctx /\ r.bi = t.bi /\ r.list = t.list /\ r.lock = t.lock /\ r.count = t.count
        /\ r.enabled = t.enabled /\ r.queue = t.queue /\ r.replanting = t.replanting
        /\ r.waiting = q /\ r.loc_active = t.loc_posted /\ r.posted = <<>> /\ r.loc_posted = {}
    BY <1>1, <1>3, <1>4, <1>6, <1>7 DEF DState
  <1>10. Others(t, r, {})
    BY <1>9 DEF Others, Raise
  <1>11. Counted(r)
    BY <1>9, <1>10, SamePending DEF RecInv, Counted
  <1>12. Locked(r, NoMore) /\ Steps(r)
    BY <1>9 DEF RecInv, Locked, Steps
  <1>13. Requests(r)
    <2>1. y \in Seq(Processes) /\ IsInjective(y)
      BY <1>6 DEF IsInjective
    <2> QED BY <1>1, <1>6, <1>9, <2>1 DEF Requests
  <1>14. Plants(r)
    BY <1>9, <1>10, SameExited DEF RecInv, Plants
  <1>15. Wanted(r)
    <2>1. ASSUME NEW p \in Processes, ~ProcessExited(r, p)
          PROVE  r.bi[p].refs = r.enabled \/ (p \in r.loc_active /\ p \in Range(r.waiting))
      <3>1. ~ProcessExited(t, p)
        BY <1>10, <2>1, SameExited
      <3>2. t.bi[p].refs = t.enabled \/ p \in t.loc_posted
        BY <1>2, <3>1 DEF RecInv, Wanted
      <3> QED BY <1>1, <1>9, <3>2
    <2> QED BY <2>1 DEF Wanted
  <1> QED BY <1>8, <1>9, <1>11, <1>12, <1>13, <1>14, <1>15 DEF RecInv

LEMMA ReplantStep ==
  ASSUME DbInv, event_replant_breakpoints
  PROVE  DbInv' /\ NoneResumed(s, s')
  <1>1. PICK t, p, q : t = s /\ p = Popped /\ q = s.posted
    OBVIOUS
  <1>2. s \in DState /\ s.queue # <<>> /\ work = Idle /\ UNCHANGED os /\ RecInv(t, NoMore)
    BY <1>1 DEF event_replant_breakpoints, Next1, DbInv, DbOK, RecInv
  <1>3. Mild(t, p) /\ p \in DState
    BY <1>1, <1>2, PoppedMild DEF Mild
  <1>4. p.queue = Tail(t.queue) /\ p.posted = q /\ p.waiting = t.waiting /\ p.loc_posted = t.loc_posted
    BY <1>1, <1>2 DEF Popped, DState
  <1>5. \/ s' = p /\ work' = work
        \/ /\ "replant" \notin Range(p.queue) /\ p.waiting = <<>>
           /\ s' = [p EXCEPT !.active = Range(q), !.loc_active = t.loc_posted,
                             !.waiting = q, !.posted = <<>>, !.loc_posted = {}]
           /\ work' = [op |-> "clients", rest |-> q]
    BY <1>1, <1>4 DEF event_replant_breakpoints
  <1>6. CASE s' = p /\ work' = work
    <2>1. WorkOK(s', work')
      BY <1>2, <1>6, IdleOK
    <2> QED BY <1>1, <1>2, <1>3, <1>6, <2>1, MildStep
  <1>7. CASE /\ "replant" \notin Range(p.queue) /\ p.waiting = <<>>
             /\ s' = [p EXCEPT !.active = Range(q), !.loc_active = t.loc_posted,
                               !.waiting = q, !.posted = <<>>, !.loc_posted = {}]
             /\ work' = [op |-> "clients", rest |-> q]
    <2>1. PICK r, o, w : r = s' /\ o = os /\ w = work'
      OBVIOUS
    <2>2. RecInv(p, NoMore) /\ p.bi = t.bi /\ Others(t, p, {})
      BY <1>2, <1>3, RecMild DEF Mild, SameRec, SameCtl
    <2>3. r = NewRound(p, Range(q), q)
      BY <1>4, <1>7, <2>1 DEF NewRound
    <2>4. RecInv(r, NoMore) /\ r.ctx = p.ctx /\ r.bi = p.bi /\ r.waiting = q
      BY <1>4, <1>7, <2>2, <2>3, RoundStarts
    <2>5. Others(t, r, {}) /\ StaysPlanted(t, r)
      BY <2>2, <2>4, SameBi DEF Others
    <2>6. ThreadsOK(r, o) /\ NoneResumed(t, r)
      BY <1>1, <2>1, <2>5, ThreadsMild DEF DbInv, DbOK
    <2>7. ClientsWork(r, w)
      <3>1. q \in Seq(Processes) /\ IsInjective(q)
        BY <1>1, <1>2 DEF RecInv, DState, Requests
      <3> QED BY <1>7, <2>1, <2>4, <3>1 DEF ClientsWork
    <2> QED BY <1>1, <1>2, <2>1, <2>4, <2>6, <2>7 DEF DbInv, DbOK, WorkOK
  <1> QED BY <1>5, <1>6, <1>7

\* A client evaluates only while the threads of its process do not run.
LEMMA ThreadsClient ==
  ASSUME NEW t, NEW o, ThreadsOK(t, o), NEW p \in Processes, is_all_stopped(t, p),
         NEW r, Others(t, r, {}),
         \A q \in Processes \ {p} : r.bi[q].refs /\ ~r.bi[q].planted
                                        => t.bi[q].refs /\ ~t.bi[q].planted
  PROVE  ThreadsOK(r, o) /\ NoneResumed(t, r)
  <1>1. OsOK(r, o)
    BY DEF ThreadsOK, OsOK, OsThread, Others, Raise
  <1>2. NoneMissed(r, o)
    <2>1. SUFFICES ASSUME NEW x \in Threads, o[x] = "run",
                          r.bi[ProcessOf[x]].refs, ~r.bi[ProcessOf[x]].planted
                   PROVE  r.ctx[x].exiting \/ r.ctx[x].cannot_stop
      BY DEF NoneMissed
    <2>2. CASE ProcessOf[x] = p
      <3>1. OsThread(t.ctx[x], "run")
        BY <2>1 DEF ThreadsOK, OsOK
      <3>2. Alive(t, x) /\ ~t.ctx[x].stopped
        BY <3>1 DEF OsThread, Alive
      <3>3. GroupOf(p) = p
        BY ContextsAssumption DEF GroupOf
      <3>4. t.ctx[x].exiting \/ t.ctx[x].cannot_stop
        BY <2>2, <3>2, <3>3 DEF is_all_stopped, Group
      <3> QED BY <3>4 DEF Others, Raise
    <2>3. CASE ProcessOf[x] # p
      <3>1. ProcessOf[x] \in Processes \ {p}
        BY <2>3, ContextsAssumption
      <3>2. t.bi[ProcessOf[x]].refs /\ ~t.bi[ProcessOf[x]].planted
        BY <2>1, <3>1
      <3> QED BY <2>1, <3>2 DEF ThreadsOK, NoneMissed, Others, Raise
    <2> QED BY <2>2, <2>3
  <1>3. NoneResumed(t, r)
    BY DEF NoneResumed, Others, Raise
  <1> QED BY <1>1, <1>2, <1>3 DEF ThreadsOK

LEMMA RunClient ==
  ASSUME DbInv, run_client
  PROVE  DbInv' /\ NoneResumed(s, s')
  <1>1. PICK t, r, o, w, dead : t = s /\ r = s' /\ o = os /\ w = work /\ dead = Dead
    OBVIOUS
  <1>2. /\ t \in DState /\ RecInv(t, NoMore) /\ ThreadsOK(t, o) /\ ClientsWork(t, w)
        /\ NoMore \in Int /\ UNCHANGED os
    <2>1. work.op = "clients" /\ UNCHANGED os
      BY DEF run_client
    <2> QED BY <1>1, <2>1, NoMoreType DEF DbInv, DbOK, RecInv, WorkOK, EventsWork, SyncWork, Idle
  <1>3. CASE w.rest = <<>>
    <2>1. s' = s /\ work' = Idle
      BY <1>1, <1>3 DEF run_client
    <2>2. Mild(s, s') /\ WorkOK(s', work')
      BY <1>1, <1>2, <2>1, MildRefl, IdleOK
    <2> QED BY <1>2, <2>2, MildStep
  <1>4. CASE w.rest # <<>>
    <2>1. PICK p, rest : p = Head(w.rest) /\ rest = Tail(w.rest)
      OBVIOUS
    <2>2. /\ p \in Processes /\ p \in Range(w.rest) /\ rest \in Seq(Processes) /\ IsInjective(rest)
          /\ p \notin Range(rest) /\ Range(rest) \subseteq Range(w.rest)
          /\ Range(w.rest) \subseteq Range(t.waiting)
      BY <1>2, <1>4, <2>1, TailRange DEF ClientsWork
    <2>3. PICK true \in SUBSET t.conds[p] :
             r = replant_client(t, dead, p, true) /\ work' = [w EXCEPT !.rest = rest]
      BY <1>1, <1>4, <2>1, Zenon DEF run_client
    <2>4. true \in SUBSET Threads
      BY <1>2, <2>2, <2>3 DEF DState
    <2>5. /\ RecInv(r, NoMore) /\ Others(t, r, {})
          /\ Range(t.waiting) \ {p} \subseteq Range(r.waiting)
          /\ \/ r.bi = t.bi
             \/ /\ is_all_stopped(t, p)
                /\ \A q \in Processes \ {p} :
                     r.bi[q].refs /\ ~r.bi[q].planted => t.bi[q].refs /\ ~t.bi[q].planted
      BY <1>2, <2>2, <2>3, <2>4, ReplantClient
    <2>6. ThreadsOK(r, o) /\ NoneResumed(t, r)
      <3>1. CASE r.bi = t.bi
        BY <1>2, <2>5, <3>1, SameBi, ThreadsMild
      <3>2. CASE r.bi # t.bi
        BY <1>2, <2>2, <2>5, <3>2, ThreadsClient
      <3> QED BY <3>1, <3>2
    <2>7. PICK n : n = work'
      OBVIOUS
    <2>8. ClientsWork(r, n)
      <3>1. n = [w EXCEPT !.rest = rest] /\ w \in [op : {"clients"}, rest : Seq(Processes)]
        BY <1>2, <2>3, <2>7 DEF ClientsWork
      <3>2. n \in [op : {"clients"}, rest : Seq(Processes)] /\ n.rest = rest
        BY <2>2, <3>1
      <3>3. Range(rest) \subseteq Range(r.waiting)
        BY <2>2, <2>5
      <3> QED BY <2>2, <3>2, <3>3 DEF ClientsWork
    <2> QED BY <1>1, <1>2, <2>5, <2>6, <2>7, <2>8 DEF DbInv, DbOK, WorkOK
  <1> QED BY <1>3, <1>4

-----------------------------------------------------------------------------
(* The events of the dispatch thread: stopping and continuing. *)

\* Nothing is left to do while run control is not locked.
LEMMA Unlocked ==
  ASSUME NEW t, RecInv(t, NoMore), t.lock = 0, NEW p \in Processes, ~ProcessExited(t, p)
  PROVE  t.bi[p].refs = t.enabled /\ (t.bi[p].refs => t.bi[p].planted)
  <1>1. t \in DState /\ t.list \in Seq(SafeEv)
    BY DEF RecInv, DState
  <1>2. ~t.replanting /\ t.list = <<>>
    <2>1. PICK m, n : m = Len(t.list) /\ n = (IF t.replanting THEN 1 ELSE 0)
      OBVIOUS
    <2>2. m \in Nat /\ n \in Nat /\ t.lock = m + n
      BY <1>1, <2>1 DEF RecInv, Locked, NoMore
    <2>3. m = 0 /\ n = 0
      BY <2>2
    <2>4. t.list = <<>>
      BY <1>1, <2>1, <2>3, EmptySeq
    <2> QED BY <2>1, <2>3, <2>4
  <1>3. p \notin t.loc_posted /\ p \notin Range(t.waiting)
    <2>1. t.posted = <<>> /\ t.waiting = <<>> /\ t.loc_posted \subseteq Range(t.posted)
      BY <1>2 DEF RecInv, Requests
    <2>2. Range(t.posted) = {} /\ Range(t.waiting) = {}
      BY <1>1, <2>1, RangeOf DEF DState
    <2> QED BY <2>1, <2>2
  <1>4. t.bi[p].refs = t.enabled
    BY <1>3 DEF RecInv, Wanted
  <1>5. t.bi[p].stepping = 0
    <2>1. StepEvents(t.list, p) = {}
      BY <1>2 DEF StepEvents
    <2>2. t.bi[p].stepping = Cardinality(StepEvents(t.list, p))
      BY DEF RecInv, Steps
    <2> QED BY <2>1, <2>2, FS_EmptySet
  <1>6. t.bi[p].refs => t.bi[p].planted
    BY <1>2, <1>5 DEF RecInv, Plants
  <1> QED BY <1>4, <1>6

LEMMA SyncStart ==
  ASSUME DbInv, sync_run_state
  PROVE  DbInv' /\ NoneResumed(s, s')
  <1>1. PICK t, p, r, o, w : t = s /\ p = Popped /\ r = s' /\ o = os /\ w = work'
    OBVIOUS
  <1>2. s \in DState /\ s.queue # <<>> /\ work = Idle /\ UNCHANGED os /\ RecInv(t, NoMore)
    BY <1>1 DEF sync_run_state, Next1, DbInv, DbOK, RecInv
  <1>3. Mild(t, p) /\ p \in DState /\ p.ctx = t.ctx
    BY <1>1, <1>2, PoppedMild DEF Mild
  <1>4. CASE s.lock # 0
    <2>1. s' = p /\ work' = Idle
      BY <1>1, <1>2, <1>4 DEF sync_run_state
    <2>2. WorkOK(s', work')
      BY <2>1, IdleOK
    <2> QED BY <1>1, <1>2, <1>3, <2>1, <2>2, MildStep
  <1>5. CASE s.lock = 0
    <2>1. PICK flags, S :
             /\ flags = {InterceptGroup(s, c) : c \in {d \in Threads :
                            /\ Alive(s, d)
                            /\ s.ctx[d].pending_intercept \/ s.ctx[d].intercepted}}
             /\ S = {c \in Threads :
                       /\ Alive(s, c) /\ ~s.ctx[c].intercepted
                       /\ \/ InterceptGroup(s, c) \in flags
                          \/ s.ctx[c].stopped /\ ~s.ctx[c].pending_intercept}
      OBVIOUS
    <2>2. /\ r = [p EXCEPT !.ticks = 0, !.count = 0, !.ctx =
                    [c \in Threads |-> [p.ctx[c] EXCEPT !.pending_safe_event = FALSE]]]
          /\ w = [op |-> "sync", flags |-> flags, err |-> FALSE, rest |-> SetToSeq(S),
                  kills |-> <<>>]
      BY <1>1, <1>3, <1>5, <2>1 DEF sync_run_state
    <2>3. RecInv(p, NoMore) /\ p.bi = t.bi /\ Others(t, p, {}) /\ StaysPlanted(t, p)
      BY <1>2, <1>3, RecMild, SameBi DEF Mild, SameRec, SameCtl
    <2>4. ThreadsOK(p, o) /\ NoneResumed(t, p)
      BY <1>1, <2>3, ThreadsMild DEF DbInv, DbOK
    <2>5. RecInv(r, NoMore) /\ SameCtl(p, r)
          /\ \A c \in Threads : Keeps(p.ctx[c], r.ctx[c]) /\ ~r.ctx[c].pending_safe_event
      BY <2>2, <2>3, SyncClears
    <2>6. r.bi = p.bi /\ \A c \in Threads : Awaited(p.ctx[c], r.ctx[c])
      BY <2>5 DEF Keeps, Awaited, SameCtl
    <2>7. ThreadsOK(r, o)
      BY <2>4, <2>6, ThreadsAwaited
    <2>8. NoneResumed(t, r)
      BY <1>1, <1>5 DEF NoneResumed
    <2>9. SyncWork(r, w)
      <3>1. flags \subseteq Threads \cup Processes
        BY <2>1, ContextsAssumption DEF InterceptGroup
      <3>2. S \subseteq Threads /\ IsFiniteSet(S)
        <4>1. S \subseteq Threads
          BY <2>1
        <4> QED BY <4>1, ContextsAssumption, FS_Subset
      <3>3. PICK q, z : q = SetToSeq(S) /\ z = <<>>
        OBVIOUS
      <3>4. q \in Seq(S) /\ IsInjective(q)
        BY <3>2, <3>3, SetToSeqIs
      <3>5. q \in Seq(Threads) /\ z \in Seq(Threads)
        BY <3>2, <3>3, <3>4
      <3>6. Pending(r) = {}
        BY <2>5 DEF Pending
      <3>7. w = [op |-> "sync", flags |-> flags, err |-> FALSE, rest |-> q, kills |-> z]
        BY <2>2, <3>3
      <3>8. w.rest = q /\ w \in [op : {"sync"}, flags : SUBSET (Threads \cup Processes), err : BOOLEAN,
                               rest : Seq(Threads), kills : Seq(Threads)]
        BY <3>1, <3>5, <3>7
      <3> QED BY <3>4, <3>6, <3>8 DEF SyncWork
    <2> QED BY <1>1, <1>2, <2>5, <2>7, <2>8, <2>9 DEF DbInv, DbOK, WorkOK
  <1> QED BY <1>4, <1>5

\* The threads after context_resume() of c while run control is not locked.
LEMMA ThreadsResumed ==
  ASSUME NEW t, t = s, ThreadsOK(t, os), RecInv(t, NoMore), t.lock = 0, NEW c \in Threads,
         NEW r, r = Resumed(t, c)
  PROVE  RecInv(r, NoMore) /\ ThreadsOK(r, ResumedOs(t, c)) /\ Pending(r) = Pending(t)
  <1>1. PICK o, n : o = os /\ n = ResumedOs(t, c)
    OBVIOUS
  <1>2. /\ RecInv(r, NoMore) /\ SamePlants(t, r) /\ Others(t, r, {c})
        /\ r.ctx[c].pending_safe_event = t.ctx[c].pending_safe_event
        /\ IF must_skip(t, c) THEN Raise(t.ctx[c], r.ctx[c]) ELSE Started(t.ctx[c], r.ctx[c])
    BY ContextResumed, NoMoreType
  <1>3. Pending(r) = Pending(t)
    BY <1>2 DEF Pending, Others, Raise
  <1>4. CASE must_skip(t, c)
    <2>1. n = o
      BY <1>1, <1>4 DEF ResumedOs
    <2>2. Others(t, r, {}) /\ StaysPlanted(t, r)
      BY <1>2, <1>4, SameBi DEF Others
    <2> QED BY <1>1, <1>2, <1>3, <2>1, <2>2, ThreadsMild
  <1>5. CASE ~must_skip(t, c)
    <2>1. /\ o \in [Threads -> OsStates] /\ OsThread(t.ctx[c], o[c]) /\ ThreadsOK(t, o)
          /\ Started(t.ctx[c], r.ctx[c]) /\ StaysPlanted(t, r)
      BY <1>1, <1>2, <1>5, SameBi DEF ThreadsOK, OsOK
    <2>2. ASSUME NEW k \in OsStates, k = o[c] \/ (k = "run" /\ o[c] = "held")
          PROVE  ThreadsOK(r, [o EXCEPT ![c] = k])
      <3>1. PICK m : m = [o EXCEPT ![c] = k]
        OBVIOUS
      <3>2. OsThread(r.ctx[c], k)
        BY <2>1, <2>2 DEF OsThread, Started
      <3>3. k = "run" => ~(r.bi[ProcessOf[c]].refs /\ ~r.bi[ProcessOf[c]].planted)
        <4>1. SUFFICES ASSUME k = "run" PROVE ~(r.bi[ProcessOf[c]].refs /\ ~r.bi[ProcessOf[c]].planted)
          OBVIOUS
        <4>2. Alive(t, c)
          BY <2>1, <2>2, <4>1 DEF OsThread, Alive
        <4>3. ProcessOf[c] \in Processes /\ ~ProcessExited(t, ProcessOf[c])
          BY <4>2, AliveProcess, ContextsAssumption
        <4> QED BY <1>2, <4>3, Unlocked DEF SamePlants
      <3> QED BY <1>2, <2>1, <3>1, <3>2, <3>3, ThreadsChange
    <2>3. [o EXCEPT ![c] = o[c]] = o /\ o[c] \in OsStates
      BY <2>1
    <2>4. CASE o[c] # "held"
      <3>1. n = o
        BY <1>1, <2>4 DEF ResumedOs
      <3>2. ThreadsOK(r, [o EXCEPT ![c] = o[c]])
        BY <2>2, <2>3
      <3> QED BY <1>1, <1>2, <1>3, <2>3, <3>1, <3>2
    <2>5. CASE o[c] = "held" /\ t.ctx[c].terminate
      <3>1. n = Killed(ProcessOf[c])
        BY <1>1, <1>5, <2>5 DEF ResumedOs
      <3>2. ThreadsOK(r, [o EXCEPT ![c] = o[c]])
        BY <2>2, <2>3
      <3>3. ThreadsOK(r, os)
        BY <1>1, <2>3, <3>2
      <3> QED BY <1>1, <1>2, <1>3, <3>1, <3>3, KilledStates
    <2>6. CASE o[c] = "held" /\ ~t.ctx[c].terminate
      <3>1. n = [o EXCEPT ![c] = "run"]
        BY <1>1, <1>5, <2>6 DEF ResumedOs
      <3>2. PICK k \in OsStates : k = "run"
        BY DEF OsStates
      <3>3. ThreadsOK(r, [o EXCEPT ![c] = k])
        BY <2>2, <2>6, <3>2
      <3> QED BY <1>1, <1>2, <1>3, <3>1, <3>2, <3>3
    <2> QED BY <2>4, <2>5, <2>6
  <1> QED BY <1>4, <1>5

LEMMA SyncResume ==
  ASSUME DbInv, SyncWork(s, work), s.lock = 0, NEW c \in Threads, sync_resume(c),
         work.rest = <<>> => work.kills # <<>>
  PROVE  DbInv' /\ NoneResumed(s, s')
  <1>1. PICK t, r, o, n, w, v : t = s /\ r = s' /\ o = os /\ n = os' /\ w = work /\ v = work'
    OBVIOUS
  <1>2. RecInv(t, NoMore) /\ ThreadsOK(t, o) /\ SyncWork(t, w) /\ NoMore \in Int
    BY <1>1, NoMoreType DEF DbInv, DbOK
  <1>3. PICK b \in BOOLEAN :
          /\ \/ r = Resumed(t, c) /\ n = ResumedOs(t, c)
             \/ r = resume_error(t, c) /\ n = o
          /\ v = [w EXCEPT !.err = b, !.rest = IF w.rest = <<>> THEN w.rest ELSE Tail(w.rest),
                           !.kills = IF w.rest = <<>> THEN Tail(w.kills) ELSE w.kills]
    <2>1. PICK F : /\ s' = IF F = {} THEN Resumed(s, c) ELSE resume_error(s, c)
                   /\ os' = IF F = {} THEN ResumedOs(s, c) ELSE os
                   /\ work' = [work EXCEPT !.err = F # {},
                                !.rest = IF @ = <<>> THEN @ ELSE Tail(@),
                                !.kills = IF work.rest = <<>> THEN Tail(@) ELSE @]
      BY DEF sync_resume
    <2>2. (F # {}) \in BOOLEAN
      OBVIOUS
    <2> QED BY <1>1, <1>2, <2>1, <2>2 DEF SyncWork
  <1>4. RecInv(r, NoMore) /\ ThreadsOK(r, n) /\ Pending(r) = Pending(t)
    <2>1. CASE r = Resumed(t, c) /\ n = ResumedOs(t, c)
      BY <1>1, <1>2, <2>1, ThreadsResumed
    <2>2. CASE r = resume_error(t, c) /\ n = o
      <3>1. RecInv(r, NoMore) /\ r.bi = t.bi /\ Others(t, r, {})
        BY <1>2, <2>2, ResumeError
      <3> QED BY <1>2, <2>2, <3>1, SameBi, ThreadsMild, SamePending
    <2> QED BY <1>3, <2>1, <2>2
  <1>5. SyncWork(r, v)
    <2>1. PICK q, z : /\ q = IF w.rest = <<>> THEN w.rest ELSE Tail(w.rest)
                      /\ z = IF w.rest = <<>> THEN Tail(w.kills) ELSE w.kills
      OBVIOUS
    <2>2. w.rest \in Seq(Threads) /\ w.kills \in Seq(Threads) /\ IsInjective(w.rest)
      BY <1>2 DEF SyncWork
    <2>3. q \in Seq(Threads) /\ IsInjective(q) /\ Range(q) \subseteq Range(w.rest)
      BY <2>1, <2>2, TailRange
    <2>4. z \in Seq(Threads)
      BY <1>1, <2>1, <2>2, TailRange
    <2>5. /\ v \in [op : {"sync"}, flags : SUBSET (Threads \cup Processes), err : BOOLEAN,
                    rest : Seq(Threads), kills : Seq(Threads)]
          /\ v.rest = q
      <3>1. v = [w EXCEPT !.err = b, !.rest = q, !.kills = z]
        BY <1>3, <2>1
      <3> QED BY <1>2, <2>3, <2>4, <3>1 DEF SyncWork
    <2> QED BY <1>2, <1>4, <2>3, <2>5 DEF SyncWork
  <1>6. NoneResumed(t, r)
    BY <1>1 DEF NoneResumed
  <1> QED BY <1>1, <1>4, <1>5, <1>6 DEF DbInv, DbOK, WorkOK

LEMMA SyncThread ==
  ASSUME DbInv, sync_thread
  PROVE  DbInv' /\ NoneResumed(s, s')
  <1>1. PICK t, r, o, w, v, c, q : /\ t = s /\ r = s' /\ o = os /\ w = work /\ v = work'
                                   /\ c = Head(work.rest) /\ q = Tail(work.rest)
    OBVIOUS
  <1>2. RecInv(t, NoMore) /\ ThreadsOK(t, o) /\ NoMore \in Int
    BY <1>1, NoMoreType DEF DbInv, DbOK
  <1>3. SyncWork(t, w) /\ s.lock = 0 /\ w.rest # <<>>
    <2>1. work.op = "sync" /\ s.lock = 0 /\ work.rest # <<>>
      BY DEF sync_thread, SyncGoesOn
    <2> QED BY <1>1, <2>1 DEF DbInv, DbOK, WorkOK, EventsWork, ClientsWork, Idle
  <1>4. /\ c \in Threads /\ c \in Range(w.rest) /\ q \in Seq(Threads) /\ IsInjective(q)
        /\ c \notin Range(q) /\ Range(q) \subseteq Range(w.rest)
        /\ Range(w.rest) \cap Pending(t) = {}
    BY <1>1, <1>3, TailRange DEF SyncWork
  <1>5. \/ r = sync_stop(c) /\ v = [w EXCEPT !.rest = q] /\ UNCHANGED os
        \/ r = t /\ v = [w EXCEPT !.rest = q, !.kills = Append(@, c)] /\ UNCHANGED os
        \/ sync_resume(c)
    BY <1>1, Zenon DEF sync_thread
  <1>6. CASE r = sync_stop(c) /\ v = [w EXCEPT !.rest = q] /\ UNCHANGED os
    <2>1. ~t.ctx[c].pending_safe_event
      BY <1>4 DEF Pending
    <2>2. RecInv(r, NoMore) /\ SameCtl(t, r) /\ Others(t, r, {c}) /\ Keeps(t.ctx[c], r.ctx[c])
      <3>1. RecInv(s, NoMore) /\ ~s.ctx[c].pending_safe_event /\ r = sync_stop(c)
        BY <1>1, <1>2, <1>6, <2>1
      <3>2. RecInv(r, NoMore) /\ SameCtl(s, r) /\ Others(s, r, {c}) /\ Keeps(s.ctx[c], r.ctx[c])
        BY <1>4, <3>1, SyncStop
      <3> QED BY <1>1, <3>2
    <2>3. r.bi = t.bi /\ \A x \in Threads : Awaited(t.ctx[x], r.ctx[x])
      BY <2>2 DEF SameCtl, Others, Raise, Keeps, Awaited
    <2>4. ThreadsOK(r, o) /\ NoneResumed(t, r)
      BY <1>2, <2>3, ThreadsAwaited
    <2>5. SyncWork(r, v)
      <3>1. /\ v \in [op : {"sync"}, flags : SUBSET (Threads \cup Processes), err : BOOLEAN,
                      rest : Seq(Threads), kills : Seq(Threads)]
            /\ v.rest = q
        BY <1>3, <1>4, <1>6 DEF SyncWork
      <3>2. Pending(r) \subseteq Pending(t) \cup {c}
        BY <2>2 DEF Pending, Others, Raise
      <3> QED BY <1>4, <3>1, <3>2 DEF SyncWork
    <2> QED BY <1>1, <1>6, <2>2, <2>4, <2>5 DEF DbInv, DbOK, WorkOK
  <1>7. CASE r = t /\ v = [w EXCEPT !.rest = q, !.kills = Append(@, c)] /\ UNCHANGED os
    <2>1. PICK z : z = Append(w.kills, c)
      OBVIOUS
    <2>2. z \in Seq(Threads)
      BY <1>3, <1>4, <2>1, AppendRange DEF SyncWork
    <2>3. v = [w EXCEPT !.rest = q, !.kills = z]
      BY <1>3, <1>7, <2>1 DEF SyncWork
    <2>4. /\ v \in [op : {"sync"}, flags : SUBSET (Threads \cup Processes), err : BOOLEAN,
                    rest : Seq(Threads), kills : Seq(Threads)]
          /\ v.rest = q
      BY <1>3, <1>4, <2>2, <2>3 DEF SyncWork
    <2>5. SyncWork(r, v)
      BY <1>4, <1>7, <2>4 DEF SyncWork
    <2> QED BY <1>1, <1>2, <1>7, <2>5 DEF DbInv, DbOK, WorkOK, NoneResumed
  <1>8. CASE sync_resume(c)
    BY <1>1, <1>3, <1>4, <1>8, SyncResume
  <1> QED BY <1>5, <1>6, <1>7, <1>8

LEMMA SyncKill ==
  ASSUME DbInv, sync_kill
  PROVE  DbInv' /\ NoneResumed(s, s')
  <1>1. work.op = "sync" /\ s.lock = 0 /\ work.kills # <<>> /\ sync_resume(Head(work.kills))
    BY DEF sync_kill, SyncGoesOn
  <1>2. SyncWork(s, work)
    BY <1>1 DEF DbInv, DbOK, WorkOK, EventsWork, ClientsWork, Idle
  <1>3. Head(work.kills) \in Threads
    <2>1. work.kills \in Seq(Threads)
      BY <1>2 DEF SyncWork
    <2> QED BY <1>1, <2>1, TailRange
  <1> QED BY <1>1, <1>2, <1>3, SyncResume

LEMMA SyncDone ==
  ASSUME DbInv, sync_done
  PROVE  DbInv' /\ NoneResumed(s, s')
  <1>1. s \in DState /\ UNCHANGED os /\ work' = Idle
    BY DEF sync_done, DbInv, DbOK, RecInv
  <1>2. PICK t : t = IF s.count = 0 /\ work.err THEN lazy_sync(s) ELSE s
    OBVIOUS
  <1>3. Mild(s, t) /\ t \in DState
    BY <1>1, <1>2, LazyMild, MildRefl DEF Mild
  <1>4. Mild(t, send_event_context_suspended(t))
    BY <1>3, ReportMild
  <1>5. s' \in {t, send_event_context_suspended(t)}
    BY <1>2 DEF sync_done
  <1>6. Mild(s, s')
    BY <1>3, <1>4, <1>5, MildTrans
  <1>7. WorkOK(s', work')
    BY <1>1, IdleOK
  <1> QED BY <1>1, <1>6, <1>7, MildStep

-----------------------------------------------------------------------------
(* All steps. *)

LEMMA InitContext ==
  ASSUME NEW b \in BOOLEAN
  PROVE  LET y == [NoContext EXCEPT !.known = b] IN
         /\ y \in Ctx /\ y.known = b /\ ~y.stopped /\ ~y.exited /\ ~y.pending_safe_event
  <1>1. PICK y : y = [NoContext EXCEPT !.known = b]
    OBVIOUS
  <1>2. /\ DOMAIN y = CtxFields /\ y = [f \in CtxFields |-> y[f]]
        /\ \A f \in CtxFields : y[f] = IF f = "known" THEN b ELSE NoContext[f]
    BY <1>1 DEF CtxFields, NoContext
  <1>3. \A f \in CtxFields : NoContext[f] = IF f = "skips" THEN 0 ELSE FALSE
    <2>1. PICK x : x = NoContext
      OBVIOUS
    <2>2. /\ x.known = FALSE /\ x.stopped = FALSE /\ x.exiting = FALSE /\ x.exited = FALSE
          /\ x.pending_intercept = FALSE /\ x.intercepted = FALSE
          /\ x.pending_safe_event = FALSE /\ x.safe_single_step = FALSE
          /\ x.cannot_stop = FALSE /\ x.terminate = FALSE /\ x.sigstop_posted = FALSE
          /\ x.stopped_by_bp = FALSE /\ x.stopped_by_exception = FALSE /\ x.at_bp = FALSE
          /\ x.stepping_over_bp = FALSE /\ x.skips = 0
      BY <2>1 DEF NoContext
    <2>3. \A f \in CtxFields : x[f] = IF f = "skips" THEN 0 ELSE FALSE
      BY <2>2, Fields
    <2> QED BY <2>1, <2>3
  <1>4. \A f \in CtxFields : y[f] \in TypeOf(f)
    <2>1. SUFFICES ASSUME NEW f \in CtxFields PROVE y[f] \in TypeOf(f)
      OBVIOUS
    <2>2. y[f] = IF f = "known" THEN b ELSE IF f = "skips" THEN 0 ELSE FALSE
      BY <1>2, <1>3
    <2>3. CASE f = "skips"
      BY <2>2, <2>3 DEF TypeOf
    <2>4. CASE f # "skips"
      <3>1. TypeOf(f) = BOOLEAN
        BY <2>4 DEF TypeOf
      <3>2. y[f] \in BOOLEAN
        BY <2>2, <2>4
      <3> QED BY <3>1, <3>2
    <2> QED BY <2>3, <2>4
  <1>5. y \in Ctx
    BY <1>2, <1>4, CtxWith
  <1>6. y.known = b /\ ~y.stopped /\ ~y.exited /\ ~y.pending_safe_event
    BY <1>2, <1>3, Fields
  <1> QED BY <1>1, <1>5, <1>6

LEMMA InitRecord ==
  ASSUME NEW all_stop \in BOOLEAN, NEW x \in [Threads -> Ctx], NEW y \in [Processes -> Instr],
         NEW e \in BOOLEAN, NEW z \in [Processes -> SUBSET Threads],
         NEW t, t = [ctx |-> x, bi |-> y,
              list |-> <<>>, lock |-> 0, count |-> 0, ticks |-> 0, timer |-> FALSE,
              queue |-> <<>>, all_stop |-> all_stop, enabled |-> e,
              posted |-> <<>>, loc_posted |-> {}, active |-> {}, loc_active |-> {},
              waiting |-> <<>>, conds |-> z, ok |-> {},
              replanting |-> FALSE]
  PROVE  t \in DState
  BY DEF DState

LEMMA InitInv == Init => DbInv
  <1> SUFFICES ASSUME Init PROVE DbInv
    OBVIOUS
  <1>1. First \subseteq Threads
    BY FirstAssumption
  <1>a. PICK all_stop \in BOOLEAN :
          s = [ctx |-> [c \in Threads |-> [NoContext EXCEPT !.known = c \in First]],
               bi |-> [p \in Processes |->
                        IF \E c \in First : ProcessOf[c] = p
                          THEN [NoInstruction EXCEPT !.alive = TRUE, !.refs = TRUE,
                                                     !.planted = TRUE]
                          ELSE NoInstruction],
               list |-> <<>>, lock |-> 0, count |-> 0, ticks |-> 0, timer |-> FALSE,
               queue |-> <<>>, all_stop |-> all_stop, enabled |-> TRUE,
               posted |-> <<>>, loc_posted |-> {}, active |-> {}, loc_active |-> {},
               waiting |-> <<>>, conds |-> [p \in Processes |-> {}], ok |-> {},
               replanting |-> FALSE]
    BY DEF Init
  <1>2. PICK x, y, z :
          /\ x = [c \in Threads |-> [NoContext EXCEPT !.known = c \in First]]
          /\ y = [p \in Processes |->
                        IF \E c \in First : ProcessOf[c] = p
                          THEN [NoInstruction EXCEPT !.alive = TRUE, !.refs = TRUE,
                                                     !.planted = TRUE]
                          ELSE NoInstruction]
          /\ z = [p \in Processes |-> {}]
          /\ s = [ctx |-> x, bi |-> y,
              list |-> <<>>, lock |-> 0, count |-> 0, ticks |-> 0, timer |-> FALSE,
              queue |-> <<>>, all_stop |-> all_stop, enabled |-> TRUE,
              posted |-> <<>>, loc_posted |-> {}, active |-> {}, loc_active |-> {},
              waiting |-> <<>>, conds |-> z, ok |-> {},
              replanting |-> FALSE]
    BY Zenon, <1>a
  <1>3. PICK t, o, w : t = s /\ o = os /\ w = work
    OBVIOUS
  <1>4. /\ x \in [Threads -> Ctx]
        /\ \A c \in Threads : /\ x[c].known <=> c \in First
                              /\ ~x[c].stopped /\ ~x[c].exited /\ ~x[c].pending_safe_event
    <2>1. ASSUME NEW c \in Threads
          PROVE  /\ x[c] \in Ctx /\ x[c].known = (c \in First)
                 /\ ~x[c].stopped /\ ~x[c].exited /\ ~x[c].pending_safe_event
      <3>1. PICK b : b = (c \in First)
        OBVIOUS
      <3>2. b \in BOOLEAN
        BY <3>1
      <3>3. x[c] = [NoContext EXCEPT !.known = b]
        BY <1>2, <3>1
      <3> QED BY <3>1, <3>2, <3>3, InitContext
    <2>2. x = [c \in Threads |-> x[c]]
      BY <1>2
    <2> QED BY <2>1, <2>2
  <1>5. /\ y \in [Processes -> Instr]
        /\ \A p \in Processes : y[p].valid /\ y[p].stepping = 0
        /\ \A p \in Processes : (y[p].refs => y[p].planted)
        /\ \A p \in Processes : (\E c \in First : ProcessOf[c] = p) => y[p].refs = TRUE
    <2>1. ASSUME NEW p \in Processes
          PROVE  /\ y[p] \in Instr /\ y[p].valid /\ y[p].stepping = 0
                 /\ (y[p].refs => y[p].planted)
                 /\ (\E c \in First : ProcessOf[c] = p) => y[p].refs = TRUE
      <3>1. y[p] = IF \E c \in First : ProcessOf[c] = p
                     THEN [NoInstruction EXCEPT !.alive = TRUE, !.refs = TRUE, !.planted = TRUE]
                     ELSE NoInstruction
        BY <1>2
      <3>2. CASE \E c \in First : ProcessOf[c] = p
        <4>1. y[p] = [NoInstruction EXCEPT !.alive = TRUE, !.refs = TRUE, !.planted = TRUE]
          BY <3>1, <3>2
        <4>2. y[p] = [alive |-> TRUE, valid |-> TRUE, refs |-> TRUE, planted |-> TRUE, stepping |-> 0]
          BY <4>1 DEF NoInstruction
        <4>3. y[p] \in Instr
          BY <4>2 DEF Instr
        <4> QED BY <4>2, <4>3
      <3>3. CASE ~\E c \in First : ProcessOf[c] = p
        <4>1. y[p] = [alive |-> FALSE, valid |-> TRUE, refs |-> FALSE, planted |-> FALSE,
                      stepping |-> 0]
          BY <3>1, <3>3 DEF NoInstruction
        <4>2. y[p] \in Instr
          BY <4>1 DEF Instr
        <4> QED BY <3>3, <4>1, <4>2
      <3> QED BY <3>2, <3>3
    <2>2. y = [p \in Processes |-> y[p]]
      BY <1>2
    <2> QED BY <2>1, <2>2
  <1>6. z \in [Processes -> SUBSET Threads]
    BY <1>2
  <1>7. t \in DState
    <2>1. PICK e \in BOOLEAN : e = TRUE
      OBVIOUS
    <2> QED BY <1>2, <1>3, <1>4, <1>5, <1>6, <2>1, InitRecord
  <1>8. /\ t.ctx = x /\ t.bi = y /\ t.list = <<>> /\ t.lock = 0 /\ t.count = 0 /\ t.queue = <<>>
        /\ t.enabled = TRUE /\ t.posted = <<>> /\ t.loc_posted = {} /\ t.waiting = <<>>
        /\ t.replanting = FALSE
    BY <1>2, <1>3
  <1>9. Locked(t, NoMore)
    <2>1. Len(t.list) = 0
      BY <1>8
    <2> QED BY <1>8, <2>1 DEF Locked, NoMore
  <1>10. Counted(t)
    <2>1. Pending(t) = {}
      BY <1>4, <1>8 DEF Pending
    <2> QED BY <1>8, <2>1, FS_EmptySet DEF Counted
  <1>11. Requests(t)
    <2>1. PICK q : q = <<>>
      OBVIOUS
    <2>2. IsInjective(q)
      BY <2>1 DEF IsInjective
    <2>3. t.queue = q /\ t.queue \in Seq({"safe", "sync", "replant"})
      BY <1>7, <1>8, <2>1 DEF DState
    <2>4. Range(t.queue) = {}
      BY <2>1, <2>3, RangeOf
    <2> QED BY <1>8, <2>1, <2>2, <2>4 DEF Requests
  <1>12. Wanted(t)
    <2>1. ASSUME NEW p \in Processes, ~ProcessExited(t, p) PROVE t.bi[p].refs = t.enabled
      <3>1. PICK c \in Threads : ProcessOf[c] = p /\ Alive(t, c)
        BY <2>1 DEF ProcessExited, Group
      <3>2. c \in First
        BY <1>4, <1>8, <3>1 DEF Alive
      <3> QED BY <1>5, <1>8, <3>1, <3>2
    <2> QED BY <2>1 DEF Wanted
  <1>13. Steps(t)
    <2>1. ASSUME NEW p \in Processes PROVE t.bi[p].stepping = Cardinality(StepEvents(t.list, p))
      <3>1. StepEvents(t.list, p) = {}
        BY <1>8 DEF StepEvents
      <3> QED BY <1>5, <1>8, <3>1, FS_EmptySet
    <2> QED BY <2>1 DEF Steps
  <1>14. Plants(t)
    BY <1>5, <1>8 DEF Plants
  <1>15. ThreadsOK(t, o)
    <2>1. o = [c \in Threads |-> IF c \in First THEN "run" ELSE "none"] /\ w = Idle
      BY <1>3 DEF Init
    <2>2. o \in [Threads -> OsStates]
      BY <2>1 DEF OsStates
    <2>3. ASSUME NEW c \in Threads PROVE OsThread(t.ctx[c], o[c])
      BY <1>4, <1>8, <2>1 DEF OsThread
    <2>4. ASSUME NEW c \in Threads PROVE t.bi[ProcessOf[c]].refs => t.bi[ProcessOf[c]].planted
      BY <1>5, <1>8, ContextsAssumption
    <2> QED BY <2>2, <2>3, <2>4 DEF ThreadsOK, OsOK, NoneMissed
  <1>16. WorkOK(t, w)
    BY <1>3, IdleOK DEF Init
  <1> QED BY <1>3, <1>7, <1>9, <1>10, <1>11, <1>12, <1>13, <1>14, <1>15, <1>16 DEF DbInv, DbOK, RecInv

LEMMA NextInv == DbInv /\ [Next]_vars => DbInv' /\ NoneResumed(s, s')
  <1> SUFFICES ASSUME DbInv, [Next]_vars PROVE DbInv' /\ NoneResumed(s, s')
    OBVIOUS
  <1>1. CASE Dispatch
    BY <1>1, RunSafeEvents, RunSafeEvent, SafeEventsDone, ReplantStep, RunClient, SyncStart,
       SyncThread, SyncKill, SyncDone DEF Dispatch
  <1>2. CASE StopAllTimer
    BY <1>2, TimerStep
  <1>3. CASE set_breakpoint
    BY <1>3, SetBreakpointStep
  <1>4. ASSUME NEW c \in Threads,
               \/ SigStop(c) \/ StepDone(c) \/ Leave(c)
               \/ ExitReport(c) \/ Unsolicited(c) \/ Commands(c)
        PROVE  DbInv' /\ NoneResumed(s, s')
    BY <1>4, SigStopStep, StepDoneStep, LeaveStep, ExitReportStep, UnsolicitedStep, SuspendStep,
       ResumeStep, TerminateStep DEF Commands
  <1>5. ASSUME NEW c \in Threads, NEW d \in Threads, Clone(c, d)
        PROVE  DbInv' /\ NoneResumed(s, s')
    BY <1>5, CloneStep
  <1>6. ASSUME NEW p \in Processes, Kill(p) PROVE DbInv' /\ NoneResumed(s, s')
    BY <1>6, KillStep
  <1>7. CASE UNCHANGED vars
    <2>1. PICK t, o, w : t = s /\ o = os /\ w = work
      OBVIOUS
    <2>2. s' = t /\ os' = o /\ work' = w
      BY <1>7, <2>1 DEF vars
    <2>3. DbOK(t, o, w)
      BY <2>1 DEF DbInv
    <2> QED BY <2>1, <2>2, <2>3 DEF DbInv, NoneResumed
  <1> QED BY <1>1, <1>2, <1>3, <1>4, <1>5, <1>6, <1>7 DEF Next

\* The invariant from which the theorems follow.
LEMMA Invariant == Spec => []DbInv
  <1>1. DbInv /\ [Next]_vars => DbInv'
    BY NextInv
  <1> QED BY <1>1, InitInv, PTL DEF Spec

-----------------------------------------------------------------------------
(***************************************************************************)
(* The theorems                                                            *)
(***************************************************************************)

\* safe_event_pid_count is the number of threads that are waited for, and
\* run_ctrl_lock_cnt is the number of safe events, and one more while breakpoints
\* are being replanted.
THEOREM LocksCountedCorrect == Spec => []LocksCounted
  <1>1. DbInv => LocksCounted
    <2> SUFFICES ASSUME DbInv PROVE LocksCounted
      OBVIOUS
    <2>1. s.count = Cardinality(Pending(s))
      BY DEF DbInv, DbOK, RecInv, Counted
    <2>2. s.lock = Len(s.list) + (IF s.replanting THEN 1 ELSE 0)
      <3>1. PICK m, n : m = Len(s.list) /\ n = (IF s.replanting THEN 1 ELSE 0)
        OBVIOUS
      <3>2. s.list \in Seq(SafeEv)
        BY DEF DbInv, DbOK, RecInv, DState
      <3>3. m \in Nat /\ n \in Nat /\ s.lock = m + n + 0
        BY <3>1, <3>2 DEF DbInv, DbOK, RecInv, Locked, NoMore
      <3>4. s.lock = m + n
        BY <3>3
      <3> QED BY <3>1, <3>4
    <2> QED BY <2>1, <2>2 DEF LocksCounted, Pending
  <1> QED BY <1>1, Invariant, PTL

\* The safe event that run_safe_events calls next finds its stop group stopped.
THEOREM SafeEventsSafeCorrect == Spec => []SafeEventsSafe
  <1>1. DbInv => SafeEventsSafe
    <2> SUFFICES ASSUME DbInv, work.op = "events", s.list # <<>>, s.count = 0,
                        GroupOf(Head(s.list).ctx) \in work.marks
                 PROVE  is_all_stopped(s, Head(s.list).ctx)
      BY DEF SafeEventsSafe
    <2>1. Marked(s, work.marks)
      BY DEF DbInv, DbOK, WorkOK, EventsWork, ClientsWork, SyncWork, Idle
    <2>2. \A c \in Threads : ~s.ctx[c].pending_safe_event
      BY NonePending DEF DbInv, DbOK, RecInv
    <2> QED BY <2>1, <2>2 DEF Marked, is_all_stopped, Group
  <1> QED BY <1>1, Invariant, PTL

\* No thread runs past a break instruction that is taken out, but one that exits or
\* could not be stopped.
THEOREM NoMissedBreakpointCorrect == Spec => []NoMissedBreakpoint
  <1>1. DbInv => NoMissedBreakpoint
    BY DEF DbInv, DbOK, ThreadsOK, NoneMissed, NoMissedBreakpoint
  <1> QED BY <1>1, Invariant, PTL

\* While run control is not locked an enabled breakpoint is planted in every process.
THEOREM PlantedWhenUnlockedCorrect == Spec => []PlantedWhenUnlocked
  <1>1. DbInv => PlantedWhenUnlocked
    BY Unlocked DEF DbInv, DbOK, PlantedWhenUnlocked
  <1> QED BY <1>1, Invariant, PTL

\* Under the run control lock no thread is resumed but for a single step or to exit.
THEOREM NoResumeWhileLockedCorrect == Spec => NoResumeWhileLocked
  <1> DEFINE A == \A c \in Threads :
                    s.ctx[c].stopped /\ ~s'.ctx[c].stopped /\ s.lock > 0 =>
                        s'.ctx[c].safe_single_step \/ s'.ctx[c].exiting \/ s'.ctx[c].exited
  <1>1. DbInv /\ [Next]_vars => A
    BY NextInv DEF NoneResumed
  <1>2. NoResumeWhileLocked <=> [][A]_vars
    BY DEF NoResumeWhileLocked
  <1> QED BY <1>1, <1>2, Invariant, PTL DEF Spec

\* An event_replant_breakpoints in the queue finds evaluations that were posted: the
\* assertion of event_replant_breakpoints.
THEOREM ReplantFindsRequests == Spec => []("replant" \in Range(s.queue) => s.posted # <<>>)
  <1>1. DbInv => ("replant" \in Range(s.queue) => s.posted # <<>>)
    BY DEF DbInv, DbOK, RecInv, Requests
  <1> QED BY <1>1, Invariant, PTL
=============================================================================

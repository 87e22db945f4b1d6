--------------------------- MODULE ProtocolProofs ---------------------------
(***************************************************************************)
(* Proofs about Protocol, for any set of commands sent by any of the four  *)
(* ends, any token width, and any ends that close and links that break:    *)
(* no reply is without its handler, no Hello comes unexpected, the two     *)
(* ends of a proxy stay in step, and every handler is called at most once. *)
(*                                                                         *)
(* The token of a command wanders: it is in a message, or held by a        *)
(* service, by a redirect that connects or by a redirect that is relayed.  *)
(* The invariant says that it is in one of these places at most, and that  *)
(* its sender keeps the reply handler for it.                              *)
(***************************************************************************)
EXTENDS Protocol, Integers, FiniteSetTheorems, SequenceTheorems,
        WellFoundedInduction, TLAPS

-----------------------------------------------------------------------------
(***************************************************************************)
(* Types                                                                   *)
(***************************************************************************)

\* The ends that send redirects and the ends that get them.
Upper == {"client", "target"}
Lower == {"host", "agent"}

Finals  == {"C", "R", "N"}
Replies == {"R", "P", "N"}
Tokens  == {"C", "R", "P", "N"}

MsgTypes == Tokens \cup {"Hello", "junk", "eos"}

Msgs == [type : MsgTypes, hops : {0, 1}, n : Nat,
         cmd : Cmds \cup {CHOOSE c \in Cmds : TRUE}, ok : BOOLEAN]

Handlers == [n : Nat, cmd : Cmds, kind : {"app", "relay", "dead"}, via : Nat]

UpperStates == {"StartWait", "HelloSent", "Connected", "RedirectSent", "Disconnected"}
LowerStates == {"StartWait", "HelloSent", "Connected", "RedirectReceived",
                "HelloReceived", "Disconnected"}

PrTypeOK ==
    /\ state \in [Ends -> UpperStates \cup LowerStates]
    /\ \A e \in Upper : state[e] \in UpperStates
    /\ \A e \in Lower : state[e] \in LowerStates
    /\ tokenid \in [Ends -> 0..(TokenMod - 1)]
    /\ rhs \in [Ends -> SUBSET Handlers]
    /\ \A e \in Ends : IsFiniteSet(rhs[e])
    /\ failed \subseteq Cmds
    /\ serving \in [Ends -> SUBSET Msgs]
    /\ connecting \in [Ends -> {NoInfo} \cup {<<m>> : m \in Msgs}]
    /\ net \in [Ends -> Seq(Msgs)]
    /\ broken \subseteq Links
    /\ issued \subseteq Cmds
    /\ calls \in [Cmds -> Seq({"reply", "rejected", "closed"})]

-----------------------------------------------------------------------------
(***************************************************************************)
(* Tokens                                                                  *)
(***************************************************************************)

\* The end at the far side of the proxy, from which a token with a prefix comes.
Far == [client |-> "agent", agent |-> "client", target |-> "client", host |-> "agent"]

\* The end that made the token of a message on the way to x.
Owner(x, m) == IF m.hops = 1 THEN Far[x] ELSE IF m.type = "C" THEN Peer[x] ELSE x

\* The end that made the token of a command that a service of x handles.
ServedFor(x, m) == IF m.hops = 1 THEN Far[x] ELSE Peer[x]

\* A token that is not in a message.
Held(kind, e, own, m) == [kind |-> kind, at |-> e, own |-> own, msg |-> m]

RelayHeld(r) == Held("relay", "target", "client", Message("C", 0, r.via, r.cmd, TRUE))

\* The services sv, the redirects cn and the structures rt of the target hold these tokens.
ServedTokens(sv)  == UNION {{Held("served", e, ServedFor(e, m), m) : m \in sv[e]} : e \in Ends}
ConnectTokens(cn) ==
    {Held("connects", e, Peer[e], cn[e][1]) : e \in {x \in Ends : cn[x] # NoInfo}}
RelayTokens(rt)   == {RelayHeld(r) : r \in {x \in rt : x.kind = "relay"}}

HeldOf(sv, cn, rt) == ServedTokens(sv) \cup ConnectTokens(cn) \cup RelayTokens(rt)

HeldTokens == HeldOf(serving, connecting, rhs["target"])

\* Two places that one end may not have both: the same token, or two redirects.
Clash(own1, m1, own2, m2) ==
    own1 = own2 /\ (m1.n = m2.n \/ (m1.cmd \in Redirects /\ m2.cmd \in Redirects))

Fin(m) == m.type \in Finals

\* One place for each token.
OnePlace(q, H) ==
    /\ \A x, y \in Ends : \A i \in 1..Len(q[x]), j \in 1..Len(q[y]) :
         /\ Fin(q[x][i]) /\ Fin(q[y][j])
         /\ Clash(Owner(x, q[x][i]), q[x][i], Owner(y, q[y][j]), q[y][j])
         => x = y /\ i = j
    /\ \A x \in Ends : \A i \in 1..Len(q[x]), h \in H :
         Fin(q[x][i]) => ~Clash(Owner(x, q[x][i]), q[x][i], h.own, h.msg)
    /\ \A g, h \in H : Clash(g.own, g.msg, h.own, h.msg) => g = h

\* The owner of a token has the structure for it.
HasHandler(rh, own, m) == \E r \in rh[own] : r.n = m.n /\ r.cmd = m.cmd

Owned(q, H, rh, cl) ==
    /\ \A x \in Ends : \A i \in 1..Len(q[x]) :
         /\ q[x][i].type \in Tokens
         /\ Owner(x, q[x][i]) \notin cl
         => HasHandler(rh, Owner(x, q[x][i]), q[x][i])
    /\ \A h \in H : h.own \notin cl => HasHandler(rh, h.own, h.msg)

\* Progress is reported before the answer: what still has to come with the same token
\* is behind it.
ProgressFirst(q, H) ==
    \A y \in Ends : \A j \in 1..Len(q[y]) : q[y][j].type = "P" =>
       /\ \A x \in Ends : \A i \in 1..Len(q[x]) :
            /\ Fin(q[x][i])
            /\ Owner(x, q[x][i]) = Owner(y, q[y][j]) /\ q[x][i].n = q[y][j].n
            => /\ q[x][i].type # "C"
               /\ \/ q[x][i].hops > q[y][j].hops
                  \/ x = y /\ j < i
       /\ \A h \in H :
            h.own = Owner(y, q[y][j]) /\ h.msg.n = q[y][j].n
            => h.kind = "served" /\ h.msg.hops >= q[y][j].hops

\* Where messages with a prefix, and redirects, may be.
RoutedOne(x, m, prox) ==
    /\ m.hops = 1 => /\ prox /\ m.type \in Tokens /\ m.cmd \notin Redirects
                     /\ m.type = "C" => x \in {"agent", "client"}
                     /\ m.type # "C" => x \in {"target", "host"}
    /\ m.type \in Tokens /\ m.cmd \in Redirects =>
         (IF m.type = "C" THEN x \in Lower ELSE x \in Upper)
    /\ m.type \in Tokens => m.cmd \in Cmds

Routed(q, prox) == \A x \in Ends : \A i \in 1..Len(q[x]) : RoutedOne(x, q[x][i], prox)

HeldOK(H, prox) ==
    \A h \in H :
       /\ h.own \in Ends /\ h.at \in Ends /\ h.msg \in Msgs /\ h.msg.cmd \in Cmds
       /\ h.kind \in {"served", "connects", "relay"}
       /\ h.kind = "served" => /\ h.msg.type \in {"C", "P"} /\ h.msg.cmd \notin Redirects
                               /\ h.own = ServedFor(h.at, h.msg)
                               /\ h.msg.hops = 1 => prox /\ h.at \in {"agent", "client"}
       /\ h.kind = "connects" => /\ h.msg.type = "C" /\ h.msg.cmd \in Redirects
                                 /\ h.msg.hops = 0 /\ h.at \in Lower /\ h.own = Peer[h.at]
       /\ h.kind = "relay" => h.own = "client" /\ h.at = "target" /\ h.msg.cmd \in Redirects

Shut == {e \in Ends : state[e] = "Disconnected"}

TokensOK(q, H, rh, cl, prox) ==
    /\ Routed(q, prox)
    /\ HeldOK(H, prox)
    /\ OnePlace(q, H)
    /\ Owned(q, H, rh, cl)
    /\ ProgressFirst(q, H)

TokenInv == TokensOK(net, HeldTokens, rhs, Shut, proxied)

-----------------------------------------------------------------------------
(***************************************************************************)
(* Reply handlers                                                          *)
(***************************************************************************)

\* r is the handler of a redirect command that is not answered.
RedirectHandler(r) == r.kind # "dead" /\ r.cmd \in Redirects

HandlersAt(e, S) ==
    \A r \in S :
       /\ r.kind = "app" => Origin[r.cmd] = e
       /\ r.kind = "relay" => e = "target" /\ r.cmd \in Redirects
       /\ r.kind = "dead" => r.cmd \notin Redirects
       /\ \A s \in S : r.n = s.n \/ (RedirectHandler(r) /\ RedirectHandler(s)) => r = s

HandlersOK(rh) == \A e \in Ends : HandlersAt(e, rh[e])

\* A redirect waits for its answer in state RedirectSent only.
RedirectStates(rh, st) ==
    /\ \A e \in Ends : \A r \in rh[e] : RedirectHandler(r) => st[e] = "RedirectSent"
    /\ st["target"] = "RedirectSent" => \E r \in rh["target"] : r.kind = "relay"

-----------------------------------------------------------------------------
(***************************************************************************)
(* Hello                                                                   *)
(***************************************************************************)

\* The answer that makes its receiver wait for a Hello once more.
Granted(m) == m.type = "R" /\ m.ok /\ m.hops = 0 /\ m.cmd \in Redirects

(* In the next two, an upper end in state su and its peer in state sd are connected,    *)
(* and the messages qu and qd are on the way to them; the link is cut or not.           *)

\* The one Hello that a host or an agent expects.
HelloDown(qd, su, sd) ==
    /\ \A i \in 1..Len(qd) : qd[i].type = "Hello" =>
         /\ sd \in {"StartWait", "HelloSent"} /\ su # "StartWait"
         /\ \A j \in 1..Len(qd) : qd[j].type = "Hello" => i = j
    /\ su = "StartWait" => sd \in {"StartWait", "HelloSent", "Disconnected"}

\* The Hello that a client or a target expects: the first one, and one after each redirect
\* that was granted.
HelloUp(qu, su, sd, cut) ==
    /\ \A i \in 1..Len(qu) : qu[i].type = "Hello" =>
         /\ \/ su \in {"StartWait", "HelloSent"}
            \/ su = "RedirectSent" /\ \E j \in 1..(i - 1) : Granted(qu[j])
         /\ sd \notin {"StartWait", "HelloReceived"}
         /\ \A j \in 1..Len(qu) : qu[j].type = "Hello" => i = j
    /\ sd = "StartWait" => su \in {"StartWait", "HelloSent", "Disconnected"}
    /\ sd = "HelloReceived" /\ ~cut =>
         \/ su \in {"HelloSent", "Disconnected"}
         \/ su = "RedirectSent" /\ \E j \in 1..Len(qu) : Granted(qu[j])

HelloLink(qu, qd, su, sd, cut) == HelloDown(qd, su, sd) /\ HelloUp(qu, su, sd, cut)

\* Nothing is on the way to an end that is closed or does not exist.
NetFor(q, st, br, prox) ==
    /\ q \in [Ends -> Seq(Msgs)]
    /\ \A e \in Ends : st[e] = "Disconnected" => q[e] = <<>>
    /\ ~prox => q["target"] = <<>> /\ q["agent"] = <<>>
    /\ HelloLink(q["client"], q["host"], st["client"], st["host"], {"client", "host"} \in br)
    /\ HelloLink(q["target"], q["agent"], st["target"], st["agent"], {"target", "agent"} \in br)

-----------------------------------------------------------------------------
(***************************************************************************)
(* The two ends of the proxy                                               *)
(***************************************************************************)

\* Before proxy_create() there is neither a target nor an agent, and the host may connect;
\* afterwards it never does again.
ProxyInv ==
    /\ ProxyPair
    /\ ~proxied => /\ state["target"] = "StartWait" /\ state["agent"] = "StartWait"
                   /\ rhs["target"] = {} /\ serving["target"] = {} /\ serving["agent"] = {}
                   /\ state["host"] # "HelloReceived"
    /\ proxied => connecting["host"] = NoInfo
    /\ \A e \in Ends : connecting[e] # NoInfo =>
          e \in Lower /\ state[e] \in {"RedirectReceived", "Disconnected"}
    /\ \A e \in Ends : state[e] = "Disconnected" => rhs[e] = {}

-----------------------------------------------------------------------------
(***************************************************************************)
(* Calls of the handlers                                                   *)
(***************************************************************************)

\* A handler that is not called yet waits in one place at most.
CallsOK(rh, fl, iss, ca) ==
    /\ \A c \in Cmds : c \notin iss => ca[c] = <<>>
    /\ \A c \in fl : c \in iss /\ ca[c] = <<>>
    /\ \A e \in Ends : \A r \in rh[e] : r.kind = "app" =>
          /\ r.cmd \in iss \ fl /\ ca[r.cmd] = <<>>
          /\ \A s \in rh[e] : s.kind = "app" /\ s.cmd = r.cmd => s = r

PrInv ==
    /\ PrTypeOK
    /\ TokenInv
    /\ HandlersOK(rhs)
    /\ RedirectStates(rhs, state)
    /\ NetFor(net, state, broken, proxied)
    /\ ProxyInv
    /\ CallsOK(rhs, failed, issued, calls)
    /\ NoSurprise

-----------------------------------------------------------------------------
(***************************************************************************)
(* What adding and removing a message does to the places of the tokens     *)
(***************************************************************************)

Queues == [Ends -> Seq(Msgs)]

\* The messages of p are those of q, each in its place or one place further on.
Fewer(q, p) ==
    \A x \in Ends : \E k \in {0, 1} :
       /\ Len(p[x]) + k <= Len(q[x])
       /\ \A i \in 1..Len(p[x]) : p[x][i] = q[x][i + k]

\* The message m is added to those on the way to x, or lost.
Added(q, p, x, m) == p = q \/ p = [q EXCEPT ![x] = Append(@, m)]

\* Messages and held tokens may disappear.
LEMMA FewerTokens ==
    ASSUME NEW q \in Queues, NEW p \in Queues, NEW H, NEW K \in SUBSET H, NEW rh, NEW cl,
           NEW prox, TokensOK(q, H, rh, cl, prox), Fewer(q, p)
    PROVE  TokensOK(p, K, rh, cl, prox)
  <1>1. \A x \in Ends : \A i \in 1..Len(p[x]) : \E k \in {0, 1} :
           i + k \in 1..Len(q[x]) /\ p[x][i] = q[x][i + k]
           /\ \A j \in 1..Len(p[x]) : j + k \in 1..Len(q[x]) /\ p[x][j] = q[x][j + k]
    BY SMTT(20) DEF Fewer, Queues
  <1>2. Routed(p, prox)
    <2>1. ASSUME NEW x \in Ends, NEW i \in 1..Len(p[x])
          PROVE  RoutedOne(x, p[x][i], prox)
      <3>1. PICK k \in {0, 1} : i + k \in 1..Len(q[x]) /\ p[x][i] = q[x][i + k]
        BY <1>1
      <3>2. RoutedOne(x, q[x][i + k], prox)
        BY <3>1 DEF Routed, TokensOK
      <3>3. QED BY <3>1, <3>2
    <2>2. QED BY <2>1 DEF Routed
  <1>3. HeldOK(K, prox)
    BY DEF HeldOK, TokensOK
  <1>4. OnePlace(p, K)
    <2>1. ASSUME NEW x \in Ends, NEW y \in Ends, NEW i \in 1..Len(p[x]), NEW j \in 1..Len(p[y]),
                 Fin(p[x][i]), Fin(p[y][j]),
                 Clash(Owner(x, p[x][i]), p[x][i], Owner(y, p[y][j]), p[y][j])
          PROVE  x = y /\ i = j
      <3>1. PICK k \in {0, 1} : \A a \in 1..Len(p[x]) : a + k \in 1..Len(q[x]) /\ p[x][a] = q[x][a + k]
        BY <1>1
      <3>2. PICK l \in {0, 1} : j + l \in 1..Len(q[y]) /\ p[y][j] = q[y][j + l]
        BY <1>1
      <3>3. x = y /\ i + k = j + l
        BY <2>1, <3>1, <3>2 DEF OnePlace, TokensOK
      <3>4. j + k \in 1..Len(q[x]) /\ p[x][j] = q[x][j + k]
        BY <3>1, <3>3
      <3>5. x = y /\ i + k = j + k
        BY <2>1, <3>1, <3>3, <3>4 DEF OnePlace, TokensOK
      <3>6. QED BY <3>5
    <2>2. ASSUME NEW x \in Ends, NEW i \in 1..Len(p[x]), NEW h \in K, Fin(p[x][i])
          PROVE  ~Clash(Owner(x, p[x][i]), p[x][i], h.own, h.msg)
      BY <1>1, <2>2 DEF OnePlace, TokensOK
    <2>3. \A g, h \in K : Clash(g.own, g.msg, h.own, h.msg) => g = h
      BY DEF OnePlace, TokensOK
    <2>4. QED BY <2>1, <2>2, <2>3 DEF OnePlace
  <1>5. Owned(p, K, rh, cl)
    BY <1>1 DEF Owned, TokensOK
  <1>6. ProgressFirst(p, K)
    <2>1. ASSUME NEW y \in Ends, NEW j \in 1..Len(p[y]), p[y][j].type = "P",
                 NEW x \in Ends, NEW i \in 1..Len(p[x]), Fin(p[x][i]),
                 Owner(x, p[x][i]) = Owner(y, p[y][j]), p[x][i].n = p[y][j].n
          PROVE  p[x][i].type # "C" /\ (p[x][i].hops > p[y][j].hops \/ (x = y /\ j < i))
      <3>1. PICK k \in {0, 1} : \A a \in 1..Len(p[x]) : a + k \in 1..Len(q[x]) /\ p[x][a] = q[x][a + k]
        BY <1>1
      <3>2. PICK l \in {0, 1} : j + l \in 1..Len(q[y]) /\ p[y][j] = q[y][j + l]
        BY <1>1
      <3>3. i + k \in 1..Len(q[x]) /\ p[x][i] = q[x][i + k]
        BY <3>1
      <3>4. p[x][i].type # "C" /\ (p[x][i].hops > p[y][j].hops \/ (x = y /\ j + l < i + k))
        BY <2>1, <3>2, <3>3 DEF ProgressFirst, TokensOK
      <3>5. CASE x = y
        <4>1. j + k \in 1..Len(q[x]) /\ p[x][j] = q[x][j + k]
          BY <3>1, <3>5
        <4>0. /\ q[x][j + k].type = "P" /\ Fin(q[x][i + k])
              /\ Owner(x, q[x][i + k]) = Owner(x, q[x][j + k]) /\ q[x][i + k].n = q[x][j + k].n
          BY <2>1, <3>3, <3>5, <4>1
        <4>2. q[x][i + k].hops > q[x][j + k].hops \/ j + k < i + k
          BY <3>3, <4>1, <4>0 DEF ProgressFirst, TokensOK
        <4>3. QED BY <3>3, <3>4, <3>5, <4>1, <4>2
      <3>6. QED BY <3>4, <3>5
    <2>2. ASSUME NEW y \in Ends, NEW j \in 1..Len(p[y]), p[y][j].type = "P", NEW h \in K,
                 h.own = Owner(y, p[y][j]), h.msg.n = p[y][j].n
          PROVE  h.kind = "served" /\ h.msg.hops >= p[y][j].hops
      <3>1. PICK l \in {0, 1} : j + l \in 1..Len(q[y]) /\ p[y][j] = q[y][j + l]
        BY <1>1
      <3>2. QED BY <2>2, <3>1 DEF ProgressFirst, TokensOK
    <2>3. QED BY <2>1, <2>2 DEF ProgressFirst
  <1>7. QED BY <1>2, <1>3, <1>4, <1>5, <1>6 DEF TokensOK

LEMMA SameFewer == ASSUME NEW q \in Queues PROVE Fewer(q, q)
  <1>1. \A x \in Ends : Len(q[x]) + 0 <= Len(q[x]) /\ \A i \in 1..Len(q[x]) : q[x][i] = q[x][i + 0]
    BY DEF Queues
  <1>2. QED BY <1>1 DEF Fewer

\* The length and the elements of a queue to which a message is added.
LEMMA AddedFacts ==
    ASSUME NEW q \in Queues, NEW p, NEW x \in Ends, NEW m \in Msgs,
           p = [q EXCEPT ![x] = Append(@, m)]
    PROVE  /\ p \in Queues
           /\ \A y \in Ends \ {x} : p[y] = q[y]
           /\ Len(p[x]) = Len(q[x]) + 1 /\ Len(q[x]) \in Nat
           /\ \A i \in 1..Len(q[x]) : p[x][i] = q[x][i]
           /\ p[x][Len(p[x])] = m
  BY DEF Queues

LEMMA MsgType ==
    ASSUME NEW m \in Msgs
    PROVE  /\ m.type \in MsgTypes /\ m.hops \in {0, 1} /\ m.n \in Nat /\ m.ok \in BOOLEAN
           /\ m.cmd \in Cmds \cup {CHOOSE c \in Cmds : TRUE}
  BY DEF Msgs

LEMMA ElemType ==
    ASSUME NEW q \in Queues, NEW y \in Ends, NEW j \in 1..Len(q[y])
    PROVE  q[y][j] \in Msgs /\ q[y][j].type \in MsgTypes /\ q[y][j].hops \in {0, 1}
  <1>1. q[y][j] \in Msgs BY DEF Queues
  <1>2. QED BY <1>1, MsgType

\* A message is old or the one that was added.
LEMMA AddedOne ==
    ASSUME NEW q \in Queues, NEW p, NEW x \in Ends, NEW m \in Msgs,
           p = [q EXCEPT ![x] = Append(@, m)],
           NEW y \in Ends, NEW j \in 1..Len(p[y])
    PROVE  \/ j \in 1..Len(q[y]) /\ p[y][j] = q[y][j]
           \/ y = x /\ j = Len(q[x]) + 1 /\ p[y][j] = m
  BY AddedFacts

LEMMA AddedType ==
    ASSUME NEW q \in Queues, NEW p, NEW x \in Ends, NEW m \in Msgs, Added(q, p, x, m)
    PROVE  p \in Queues
  BY AddedFacts DEF Added

\* A message without a token changes nothing.
LEMMA AddPlain ==
    ASSUME NEW q \in Queues, NEW p, NEW H, NEW rh, NEW cl, NEW prox,
           NEW x \in Ends, NEW m \in Msgs, m.type \notin Tokens, m.hops = 0,
           TokensOK(q, H, rh, cl, prox), Added(q, p, x, m)
    PROVE  TokensOK(p, H, rh, cl, prox)
  <1>0. CASE p = q BY <1>0
  <1>1. CASE p = [q EXCEPT ![x] = Append(@, m)]
    <2>1. \A y \in Ends : \A j \in 1..Len(p[y]) :
             \/ j \in 1..Len(q[y]) /\ p[y][j] = q[y][j]
             \/ p[y][j] = m
      BY <1>1, AddedOne
    <2>2. RoutedOne(x, m, prox) /\ \A y \in Ends : RoutedOne(y, m, prox)
      BY DEF RoutedOne
    <2>3. Routed(p, prox)
      <3>1. ASSUME NEW y \in Ends, NEW j \in 1..Len(p[y]) PROVE RoutedOne(y, p[y][j], prox)
        <4>1. CASE p[y][j] = m BY <2>2, <4>1
        <4>2. CASE j \in 1..Len(q[y]) /\ p[y][j] = q[y][j] BY <4>2 DEF Routed, TokensOK
        <4>3. QED BY <2>1, <4>1, <4>2
      <3>2. QED BY <3>1 DEF Routed
    <2>4. ~Fin(m) /\ m.type # "P"
      BY DEF Fin, Finals, Tokens
    <2>5. \A y \in Ends : \A j \in 1..Len(p[y]) :
             Fin(p[y][j]) \/ p[y][j].type \in Tokens \/ p[y][j].type = "P"
             => j \in 1..Len(q[y]) /\ p[y][j] = q[y][j]
      BY <2>1, <2>4
    <2>6. OnePlace(p, H)
      BY <2>5 DEF OnePlace, TokensOK
    <2>7. Owned(p, H, rh, cl)
      BY <2>5 DEF Owned, TokensOK
    <2>8. ProgressFirst(p, H)
      <3>1. ASSUME NEW y \in Ends, NEW j \in 1..Len(p[y]), p[y][j].type = "P",
                   NEW z \in Ends, NEW i \in 1..Len(p[z]), Fin(p[z][i]),
                   Owner(z, p[z][i]) = Owner(y, p[y][j]), p[z][i].n = p[y][j].n
            PROVE  p[z][i].type # "C" /\ (p[z][i].hops > p[y][j].hops \/ (z = y /\ j < i))
        <4>1. j \in 1..Len(q[y]) /\ p[y][j] = q[y][j] /\ i \in 1..Len(q[z]) /\ p[z][i] = q[z][i]
          BY <2>5, <3>1
        <4>2. QED BY <3>1, <4>1 DEF ProgressFirst, TokensOK
      <3>2. ASSUME NEW y \in Ends, NEW j \in 1..Len(p[y]), p[y][j].type = "P", NEW h \in H,
                   h.own = Owner(y, p[y][j]), h.msg.n = p[y][j].n
            PROVE  h.kind = "served" /\ h.msg.hops >= p[y][j].hops
        BY <2>5, <3>2 DEF ProgressFirst, TokensOK
      <3>3. QED BY <3>1, <3>2 DEF ProgressFirst
    <2>9. QED BY <2>3, <2>6, <2>7, <2>8 DEF TokensOK
  <1>2. QED BY <1>0, <1>1 DEF Added

\* No place clashes with a token m of own.
Fresh(q, H, own, m) ==
    /\ \A y \in Ends : \A j \in 1..Len(q[y]) :
         Fin(q[y][j]) => ~Clash(own, m, Owner(y, q[y][j]), q[y][j])
    /\ \A h \in H : ~Clash(own, m, h.own, h.msg)

\* No report of progress has the token m of own.
NoProgress(q, own, m) ==
    \A y \in Ends : \A j \in 1..Len(q[y]) :
       q[y][j].type = "P" => ~(Owner(y, q[y][j]) = own /\ q[y][j].n = m.n)

\* Reports of progress with the token m of own have gone at least as far as to x.
ProgressAhead(q, x, own, m) ==
    \A y \in Ends : \A j \in 1..Len(q[y]) :
       q[y][j].type = "P" /\ Owner(y, q[y][j]) = own /\ q[y][j].n = m.n
       => m.hops > q[y][j].hops \/ y = x

\* A message with a token that is in no other place.
LEMMA AddFinal ==
    ASSUME NEW q \in Queues, NEW p, NEW H, NEW rh, NEW cl, NEW prox,
           NEW x \in Ends, NEW m \in Msgs, Fin(m), RoutedOne(x, m, prox),
           TokensOK(q, H, rh, cl, prox), Added(q, p, x, m),
           Fresh(q, H, Owner(x, m), m),
           Owner(x, m) \notin cl => HasHandler(rh, Owner(x, m), m),
           m.type = "C" => NoProgress(q, Owner(x, m), m),
           ProgressAhead(q, x, Owner(x, m), m)
    PROVE  TokensOK(p, H, rh, cl, prox)
  <1>0. CASE p = q BY <1>0
  <1>1. CASE p = [q EXCEPT ![x] = Append(@, m)]
    <2>0. PICK n : n = Len(q[x]) + 1 OBVIOUS
    <2>1. \A y \in Ends : \A j \in 1..Len(p[y]) :
             \/ j \in 1..Len(q[y]) /\ p[y][j] = q[y][j]
             \/ y = x /\ j = n /\ p[y][j] = m
      BY <1>1, <2>0, AddedOne
    <2>2. \A j \in 1..Len(q[x]) : j < n
      BY <2>0 DEF Queues
    <2>3. Routed(p, prox)
      BY <2>1 DEF Routed, TokensOK
    <2>4. m.type # "P" /\ m.type \in Tokens
      BY DEF Fin, Finals, Tokens
    <2>5. OnePlace(p, H)
      <3>1. ASSUME NEW y \in Ends, NEW z \in Ends, NEW i \in 1..Len(p[y]), NEW j \in 1..Len(p[z]),
                   Fin(p[y][i]), Fin(p[z][j]),
                   Clash(Owner(y, p[y][i]), p[y][i], Owner(z, p[z][j]), p[z][j])
            PROVE  y = z /\ i = j
        <4>1. CASE i \in 1..Len(q[y]) /\ p[y][i] = q[y][i] /\ j \in 1..Len(q[z]) /\ p[z][j] = q[z][j]
          BY <3>1, <4>1 DEF OnePlace, TokensOK
        <4>2. CASE y = x /\ i = n /\ p[y][i] = m /\ j \in 1..Len(q[z]) /\ p[z][j] = q[z][j]
          BY <3>1, <4>2 DEF Fresh
        <4>3. CASE i \in 1..Len(q[y]) /\ p[y][i] = q[y][i] /\ z = x /\ j = n /\ p[z][j] = m
          <5>1. Clash(Owner(x, m), m, Owner(y, q[y][i]), q[y][i])
            BY <3>1, <4>3 DEF Clash
          <5>2. QED BY <3>1, <4>3, <5>1 DEF Fresh
        <4>4. QED BY <2>1, <4>1, <4>2, <4>3
      <3>2. ASSUME NEW y \in Ends, NEW i \in 1..Len(p[y]), NEW h \in H, Fin(p[y][i])
            PROVE  ~Clash(Owner(y, p[y][i]), p[y][i], h.own, h.msg)
        BY <2>1, <3>2 DEF OnePlace, TokensOK, Fresh
      <3>3. QED BY <3>1, <3>2 DEF OnePlace, TokensOK
    <2>6. Owned(p, H, rh, cl)
      BY <2>1 DEF Owned, TokensOK
    <2>7. ProgressFirst(p, H)
      <3>1. ASSUME NEW y \in Ends, NEW j \in 1..Len(p[y]), p[y][j].type = "P",
                   NEW z \in Ends, NEW i \in 1..Len(p[z]), Fin(p[z][i]),
                   Owner(z, p[z][i]) = Owner(y, p[y][j]), p[z][i].n = p[y][j].n
            PROVE  p[z][i].type # "C" /\ (p[z][i].hops > p[y][j].hops \/ (z = y /\ j < i))
        <4>1. j \in 1..Len(q[y]) /\ p[y][j] = q[y][j]
          BY <2>1, <2>4, <3>1
        <4>2. CASE i \in 1..Len(q[z]) /\ p[z][i] = q[z][i]
          BY <3>1, <4>1, <4>2 DEF ProgressFirst, TokensOK
        <4>3. CASE z = x /\ i = n /\ p[z][i] = m
          <5>1. m.type # "C"
            BY <3>1, <4>1, <4>3 DEF NoProgress
          <5>2. m.hops > q[y][j].hops \/ y = x
            BY <3>1, <4>1, <4>3 DEF ProgressAhead
          <5>3. QED BY <2>2, <4>1, <4>3, <5>1, <5>2
        <4>4. QED BY <2>1, <4>2, <4>3
      <3>2. ASSUME NEW y \in Ends, NEW j \in 1..Len(p[y]), p[y][j].type = "P", NEW h \in H,
                   h.own = Owner(y, p[y][j]), h.msg.n = p[y][j].n
            PROVE  h.kind = "served" /\ h.msg.hops >= p[y][j].hops
        BY <2>1, <2>4, <3>2 DEF ProgressFirst, TokensOK
      <3>3. QED BY <3>1, <3>2 DEF ProgressFirst
    <2>8. QED BY <2>3, <2>5, <2>6, <2>7 DEF TokensOK
  <1>2. QED BY <1>0, <1>1 DEF Added

\* A report of progress, which all that has the same token is behind.
LEMMA AddProgress ==
    ASSUME NEW q \in Queues, NEW p, NEW H, NEW rh, NEW cl, NEW prox,
           NEW x \in Ends, NEW m \in Msgs, m.type = "P", RoutedOne(x, m, prox),
           TokensOK(q, H, rh, cl, prox), Added(q, p, x, m),
           Owner(x, m) \notin cl => HasHandler(rh, Owner(x, m), m),
           \A y \in Ends : \A j \in 1..Len(q[y]) :
              Fin(q[y][j]) /\ Owner(y, q[y][j]) = Owner(x, m) /\ q[y][j].n = m.n
              => q[y][j].type # "C" /\ q[y][j].hops > m.hops,
           \A h \in H : h.own = Owner(x, m) /\ h.msg.n = m.n
              => h.kind = "served" /\ h.msg.hops >= m.hops
    PROVE  TokensOK(p, H, rh, cl, prox)
  <1>0. CASE p = q BY <1>0
  <1>1. CASE p = [q EXCEPT ![x] = Append(@, m)]
    <2>1. \A y \in Ends : \A j \in 1..Len(p[y]) :
             \/ j \in 1..Len(q[y]) /\ p[y][j] = q[y][j]
             \/ y = x /\ p[y][j] = m
      BY <1>1, AddedOne
    <2>3. Routed(p, prox)
      BY <2>1 DEF Routed, TokensOK
    <2>4. ~Fin(m)
      BY DEF Fin, Finals
    <2>5. OnePlace(p, H)
      BY <2>1, <2>4 DEF OnePlace, TokensOK
    <2>6. Owned(p, H, rh, cl)
      BY <2>1 DEF Owned, TokensOK
    <2>7. ProgressFirst(p, H)
      <3>1. ASSUME NEW y \in Ends, NEW j \in 1..Len(p[y]), p[y][j].type = "P",
                   NEW z \in Ends, NEW i \in 1..Len(p[z]), Fin(p[z][i]),
                   Owner(z, p[z][i]) = Owner(y, p[y][j]), p[z][i].n = p[y][j].n
            PROVE  p[z][i].type # "C" /\ (p[z][i].hops > p[y][j].hops \/ (z = y /\ j < i))
        <4>1. i \in 1..Len(q[z]) /\ p[z][i] = q[z][i]
          BY <2>1, <2>4, <3>1
        <4>2. CASE j \in 1..Len(q[y]) /\ p[y][j] = q[y][j]
          BY <3>1, <4>1, <4>2 DEF ProgressFirst, TokensOK
        <4>3. CASE y = x /\ p[y][j] = m
          BY <3>1, <4>1, <4>3
        <4>4. QED BY <2>1, <4>2, <4>3
      <3>2. ASSUME NEW y \in Ends, NEW j \in 1..Len(p[y]), p[y][j].type = "P", NEW h \in H,
                   h.own = Owner(y, p[y][j]), h.msg.n = p[y][j].n
            PROVE  h.kind = "served" /\ h.msg.hops >= p[y][j].hops
        <4>2. CASE j \in 1..Len(q[y]) /\ p[y][j] = q[y][j]
          BY <3>2, <4>2 DEF ProgressFirst, TokensOK
        <4>3. CASE y = x /\ p[y][j] = m
          BY <3>2, <4>3
        <4>4. QED BY <2>1, <4>2, <4>3
      <3>3. QED BY <3>1, <3>2 DEF ProgressFirst
    <2>8. QED BY <2>3, <2>5, <2>6, <2>7 DEF TokensOK
  <1>2. QED BY <1>0, <1>1 DEF Added

\* A token that is in no other place is held.
LEMMA AddHeld ==
    ASSUME NEW q \in Queues, NEW H, NEW rh, NEW cl, NEW prox, NEW h,
           TokensOK(q, H, rh, cl, prox), HeldOK({h}, prox),
           Fresh(q, H, h.own, h.msg),
           h.own \notin cl => HasHandler(rh, h.own, h.msg),
           \A y \in Ends : \A j \in 1..Len(q[y]) :
              q[y][j].type = "P" /\ Owner(y, q[y][j]) = h.own /\ q[y][j].n = h.msg.n
              => h.kind = "served" /\ h.msg.hops >= q[y][j].hops
    PROVE  TokensOK(q, H \cup {h}, rh, cl, prox)
  <1>1. HeldOK(H \cup {h}, prox)
    BY DEF HeldOK, TokensOK
  <1>2. OnePlace(q, H \cup {h})
    BY DEF OnePlace, TokensOK, Fresh, Clash
  <1>3. Owned(q, H \cup {h}, rh, cl)
    BY DEF Owned, TokensOK
  <1>4. ProgressFirst(q, H \cup {h})
    BY DEF ProgressFirst, TokensOK
  <1>5. QED BY <1>1, <1>2, <1>3, <1>4 DEF TokensOK

\* The structures change, but not for a token of an open channel.
LEMMA OtherHandlers ==
    ASSUME NEW q \in Queues, NEW H, NEW rh, NEW cl, NEW prox, NEW rh2, NEW cl2,
           TokensOK(q, H, rh, cl, prox), cl \subseteq cl2,
           \A e \in Ends \ cl2 : \A r \in rh[e] : \E s \in rh2[e] : s.n = r.n /\ s.cmd = r.cmd
    PROVE  TokensOK(q, H, rh2, cl2, prox)
  <1>1. \A x \in Ends, m \in Msgs : Owner(x, m) \in Ends
    BY DEF Owner, Far, Peer, Ends
  <1>2. \A h \in H : h.own \in Ends
    BY DEF TokensOK, HeldOK
  <1>3. \A e \in Ends \ cl2 : \A m : HasHandler(rh, e, m) => HasHandler(rh2, e, m)
    BY DEF HasHandler
  <1>4. \A x \in Ends : \A i \in 1..Len(q[x]) : q[x][i] \in Msgs
    BY DEF Queues
  <1>5. Owned(q, H, rh2, cl2)
    BY <1>1, <1>2, <1>3, <1>4 DEF Owned, TokensOK
  <1>6. QED BY <1>5 DEF TokensOK

\* A structure is freed for whose token there is no place any more.
LEMMA DropHandler ==
    ASSUME NEW q \in Queues, NEW H, NEW rh, NEW cl, NEW prox, NEW rh2, NEW e \in Ends, NEW r,
           TokensOK(q, H, rh, cl, prox),
           \A x \in Ends \ {e} : rh2[x] = rh[x], rh2[e] = rh[e] \ {r},
           Fresh(q, H, e, r), NoProgress(q, e, r)
    PROVE  TokensOK(q, H, rh2, cl, prox)
  <1>1. \A x \in Ends, m \in Msgs : Owner(x, m) \in Ends
    BY DEF Owner, Far, Peer, Ends
  <1>2. \A h \in H : h.own \in Ends
    BY DEF TokensOK, HeldOK
  <1>3. \A x \in Ends : \A m : HasHandler(rh, x, m) /\ ~(x = e /\ m.n = r.n) => HasHandler(rh2, x, m)
    BY DEF HasHandler
  <1>4. \A x \in Ends : \A i \in 1..Len(q[x]) : q[x][i] \in Msgs
    BY DEF Queues
  <1>5. ASSUME NEW x \in Ends, NEW i \in 1..Len(q[x]), q[x][i].type \in Tokens,
               Owner(x, q[x][i]) = e, q[x][i].n = r.n
        PROVE  FALSE
    <2>1. Fin(q[x][i]) \/ q[x][i].type = "P"
      BY <1>5 DEF Fin, Finals, Tokens
    <2>2. QED BY <1>5, <2>1 DEF Fresh, NoProgress, Clash
  <1>6. ASSUME NEW h \in H, h.own = e, h.msg.n = r.n PROVE FALSE
    BY <1>6 DEF Fresh, Clash
  <1>7. Owned(q, H, rh2, cl)
    BY <1>1, <1>2, <1>3, <1>4, <1>5, <1>6 DEF Owned, TokensOK
  <1>8. QED BY <1>7 DEF TokensOK

-----------------------------------------------------------------------------
(***************************************************************************)
(* Taking a token from its place                                           *)
(***************************************************************************)

\* The first message on the way to e is taken.
Took(q, p, e) == q[e] # <<>> /\ p = [q EXCEPT ![e] = Tail(@)]

LEMMA TailFacts ==
    ASSUME NEW q \in Queues, NEW e \in Ends, NEW p, Took(q, p, e)
    PROVE  /\ p \in Queues /\ Fewer(q, p)
           /\ \A y \in Ends \ {e} : p[y] = q[y]
           /\ p[e] = Tail(q[e]) /\ Len(q[e]) \in Nat \ {0} /\ Len(p[e]) = Len(q[e]) - 1
           /\ \A i \in 1..Len(p[e]) : p[e][i] = q[e][i + 1]
           /\ Head(q[e]) = q[e][1] /\ Head(q[e]) \in Msgs
  <1>1. /\ q[e] \in Seq(Msgs) /\ q[e] # <<>>
        /\ p[e] = Tail(q[e]) /\ \A y \in Ends \ {e} : p[y] = q[y]
    BY DEF Queues, Took
  <1>2. Tail(q[e]) \in Seq(Msgs) /\ Len(q[e]) \in Nat \ {0} /\ Len(Tail(q[e])) = Len(q[e]) - 1
        /\ \A i \in 1..Len(Tail(q[e])) : Tail(q[e])[i] = q[e][i + 1]
        /\ Head(q[e]) = q[e][1] /\ Head(q[e]) \in Msgs
    BY <1>1
  <1>3. p \in Queues
    BY <1>2 DEF Queues, Took
  <1>4. ASSUME NEW x \in Ends
        PROVE  \E k \in {0, 1} : /\ Len(p[x]) + k <= Len(q[x])
                                 /\ \A i \in 1..Len(p[x]) : p[x][i] = q[x][i + k]
    <2>1. CASE x = e
      <3>1. PICK t : t = Tail(q[e]) OBVIOUS
      <3>2. Len(t) + 1 <= Len(q[e]) /\ \A i \in 1..Len(t) : t[i] = q[e][i + 1]
        BY <1>2, <3>1
      <3>3. QED BY <1>1, <2>1, <3>1, <3>2
    <2>2. CASE x # e
      <3>1. p[x] = q[x] /\ Len(q[x]) \in Nat BY <1>1, <2>2 DEF Queues
      <3>0. \A i \in 1..Len(q[x]) : i + 0 = i BY <3>1
      <3>2. Len(q[x]) + 0 <= Len(q[x]) /\ \A i \in 1..Len(q[x]) : q[x][i] = q[x][i + 0] BY <3>0, <3>1
      <3>3. QED BY <3>1, <3>2
    <2>3. QED BY <2>1, <2>2
  <1>5. Fewer(q, p)
    BY <1>4 DEF Fewer
  <1>6. \A i \in 1..Len(p[e]) : p[e][i] = q[e][i + 1]
    BY <1>1, <1>2
  <1>7. Len(p[e]) = Len(q[e]) - 1
    BY <1>1, <1>2
  <1>8. QED BY <1>1, <1>2, <1>3, <1>5, <1>6, <1>7

\* A message is where it was, or moved up by one.
LEMMA TailOne ==
    ASSUME NEW q \in Queues, NEW e \in Ends, NEW p, Took(q, p, e),
           NEW y \in Ends, NEW j \in 1..Len(p[y])
    PROVE  \E k \in 1..Len(q[y]) : p[y][j] = q[y][k] /\ (y # e \/ k > 1)
  <1>1. CASE y = e
    <2>1. Len(q[e]) \in Nat \ {0} /\ Len(p[e]) = Len(q[e]) - 1
      BY TailFacts
    <2>2. j + 1 \in 1..Len(q[e]) /\ j + 1 > 1
      BY <1>1, <2>1
    <2>3. p[y][j] = q[y][j + 1]
      BY <1>1, TailFacts
    <2>4. QED BY <1>1, <2>2, <2>3
  <1>2. CASE y # e
    <2>1. p[y] = q[y] BY <1>2, TailFacts
    <2>2. QED BY <1>2, <2>1
  <1>3. QED BY <1>1, <1>2

LEMMA HeadFacts ==
    ASSUME NEW q \in Queues, NEW e \in Ends, NEW p, Took(q, p, e)
    PROVE  Head(q[e]) = q[e][1] /\ Head(q[e]) \in Msgs /\ 1 \in 1..Len(q[e])
  BY DEF Queues, Took

\* The head of a queue was the only place of its token.
LEMMA TakeFinal ==
    ASSUME NEW q \in Queues, NEW e \in Ends, NEW p, Took(q, p, e),
           NEW H, NEW rh, NEW cl, NEW prox, TokensOK(q, H, rh, cl, prox),
           NEW m, m = Head(q[e]), Fin(m)
    PROVE  /\ RoutedOne(e, m, prox)
           /\ Fresh(p, H, Owner(e, m), m)
           /\ Owner(e, m) \notin cl => HasHandler(rh, Owner(e, m), m)
           /\ m.type = "C" => NoProgress(p, Owner(e, m), m)
           /\ \A y \in Ends : \A j \in 1..Len(p[y]) :
                 p[y][j].type = "P" /\ Owner(y, p[y][j]) = Owner(e, m) /\ p[y][j].n = m.n
                 => m.hops > p[y][j].hops
  <1>1. m = q[e][1] /\ 1 \in 1..Len(q[e])
    BY HeadFacts
  <1>2. m.type \in Tokens
    BY DEF Fin, Finals, Tokens
  <1>3. RoutedOne(e, m, prox)
    BY <1>1 DEF Routed, TokensOK
  <1>4. Owner(e, m) \notin cl => HasHandler(rh, Owner(e, m), m)
    BY <1>1, <1>2 DEF Owned, TokensOK
  <1>5. Fresh(p, H, Owner(e, m), m)
    <2>1. ASSUME NEW y \in Ends, NEW j \in 1..Len(p[y]), Fin(p[y][j]),
                 Clash(Owner(e, m), m, Owner(y, p[y][j]), p[y][j])
          PROVE  FALSE
      <3>1. PICK k \in 1..Len(q[y]) : p[y][j] = q[y][k] /\ (y # e \/ k > 1)
        BY TailOne
      <3>2. /\ Fin(q[e][1]) /\ Fin(q[y][k])
            /\ Clash(Owner(e, q[e][1]), q[e][1], Owner(y, q[y][k]), q[y][k])
        BY <1>1, <2>1, <3>1
      <3>4. e = y /\ 1 = k
        BY <1>1, <3>2 DEF OnePlace, TokensOK
      <3>3. QED BY <3>1, <3>4
    <2>2. \A h \in H : ~Clash(Owner(e, m), m, h.own, h.msg)
      BY <1>1 DEF OnePlace, TokensOK
    <2>3. QED BY <2>1, <2>2 DEF Fresh
  <1>6. ASSUME NEW y \in Ends, NEW j \in 1..Len(p[y]), p[y][j].type = "P",
               Owner(y, p[y][j]) = Owner(e, m), p[y][j].n = m.n
        PROVE  m.type # "C" /\ m.hops > p[y][j].hops
    <2>1. PICK k \in 1..Len(q[y]) : p[y][j] = q[y][k] /\ (y # e \/ k > 1)
      BY TailOne
    <2>2. /\ Fin(q[e][1]) /\ q[y][k].type = "P"
          /\ Owner(e, q[e][1]) = Owner(y, q[y][k]) /\ q[e][1].n = q[y][k].n
      BY <1>1, <1>6, <2>1
    <2>3. q[e][1].type # "C" /\ (q[e][1].hops > q[y][k].hops \/ (e = y /\ k < 1))
      BY <1>1, <2>2 DEF ProgressFirst, TokensOK
    <2>4. QED BY <1>1, <2>1, <2>3
  <1>7. QED BY <1>3, <1>4, <1>5, <1>6 DEF NoProgress

\* A report of progress is taken: what has the same token is behind it.
LEMMA TakeProgress ==
    ASSUME NEW q \in Queues, NEW e \in Ends, NEW p, Took(q, p, e),
           NEW H, NEW rh, NEW cl, NEW prox, TokensOK(q, H, rh, cl, prox),
           NEW m, m = Head(q[e]), m.type = "P"
    PROVE  /\ RoutedOne(e, m, prox)
           /\ Owner(e, m) \notin cl => HasHandler(rh, Owner(e, m), m)
           /\ \A y \in Ends : \A j \in 1..Len(p[y]) :
                 Fin(p[y][j]) /\ Owner(y, p[y][j]) = Owner(e, m) /\ p[y][j].n = m.n
                 => p[y][j].type # "C" /\ (p[y][j].hops > m.hops \/ y = e)
           /\ \A h \in H : h.own = Owner(e, m) /\ h.msg.n = m.n
                 => h.kind = "served" /\ h.msg.hops >= m.hops
  <1>1. m = q[e][1] /\ 1 \in 1..Len(q[e])
    BY HeadFacts
  <1>2. RoutedOne(e, m, prox)
    BY <1>1 DEF Routed, TokensOK
  <1>3. Owner(e, m) \notin cl => HasHandler(rh, Owner(e, m), m)
    BY <1>1 DEF Owned, TokensOK, Tokens
  <1>4. ASSUME NEW y \in Ends, NEW j \in 1..Len(p[y]), Fin(p[y][j]),
               Owner(y, p[y][j]) = Owner(e, m), p[y][j].n = m.n
        PROVE  p[y][j].type # "C" /\ (p[y][j].hops > m.hops \/ y = e)
    <2>1. PICK k \in 1..Len(q[y]) : p[y][j] = q[y][k]
      BY TailOne
    <2>2. /\ Fin(q[y][k]) /\ q[e][1].type = "P"
          /\ Owner(y, q[y][k]) = Owner(e, q[e][1]) /\ q[y][k].n = q[e][1].n
      BY <1>1, <1>4, <2>1
    <2>3. q[y][k].type # "C" /\ (q[y][k].hops > q[e][1].hops \/ (y = e /\ 1 < k))
      BY <1>1, <2>2 DEF ProgressFirst, TokensOK
    <2>4. QED BY <1>1, <2>1, <2>3
  <1>5. \A h \in H : h.own = Owner(e, m) /\ h.msg.n = m.n
            => h.kind = "served" /\ h.msg.hops >= m.hops
    BY <1>1 DEF ProgressFirst, TokensOK
  <1>6. QED BY <1>2, <1>3, <1>4, <1>5

\* A token that is held is in no other place.
LEMMA TakeHeld ==
    ASSUME NEW q \in Queues, NEW H, NEW rh, NEW cl, NEW prox, TokensOK(q, H, rh, cl, prox),
           NEW h \in H, NEW K \in SUBSET (H \ {h})
    PROVE  /\ TokensOK(q, K, rh, cl, prox)
           /\ Fresh(q, K, h.own, h.msg)
           /\ h.own \notin cl => HasHandler(rh, h.own, h.msg)
           /\ h.kind # "served" => NoProgress(q, h.own, h.msg)
           /\ \A y \in Ends : \A j \in 1..Len(q[y]) :
                 q[y][j].type = "P" /\ Owner(y, q[y][j]) = h.own /\ q[y][j].n = h.msg.n
                 => h.msg.hops >= q[y][j].hops
  <1>1. TokensOK(q, K, rh, cl, prox)
    BY FewerTokens, SameFewer
  <1>2. Fresh(q, K, h.own, h.msg)
    BY DEF Fresh, OnePlace, TokensOK, Clash
  <1>3. h.own \notin cl => HasHandler(rh, h.own, h.msg)
    BY DEF Owned, TokensOK
  <1>4. \A y \in Ends : \A j \in 1..Len(q[y]) :
           q[y][j].type = "P" /\ Owner(y, q[y][j]) = h.own /\ q[y][j].n = h.msg.n
           => h.kind = "served" /\ h.msg.hops >= q[y][j].hops
    BY DEF ProgressFirst, TokensOK
  <1>5. QED BY <1>1, <1>2, <1>3, <1>4 DEF NoProgress

\* A number that no structure of the end e has is in no place.
LEMMA NewNumber ==
    ASSUME NEW q \in Queues, NEW H, NEW rh, NEW cl, NEW prox, TokensOK(q, H, rh, cl, prox),
           NEW e \in Ends, e \notin cl, NEW m, \A r \in rh[e] : r.n # m.n,
           m.cmd \in Redirects => \A r \in rh[e] : r.cmd \notin Redirects
    PROVE  Fresh(q, H, e, m) /\ NoProgress(q, e, m)
  <1>0. \A x \in Ends : \A i \in 1..Len(q[x]) : Fin(q[x][i]) => q[x][i].type \in Tokens
    BY DEF Fin, Finals, Tokens
  <1>1. \A x \in Ends : \A i \in 1..Len(q[x]) : q[x][i].type \in Tokens /\ Owner(x, q[x][i]) = e =>
           \E r \in rh[e] : r.n = q[x][i].n /\ r.cmd = q[x][i].cmd
    BY DEF TokensOK, Owned, HasHandler
  <1>2. \A h \in H : h.own = e => \E r \in rh[e] : r.n = h.msg.n /\ r.cmd = h.msg.cmd
    BY DEF TokensOK, Owned, HasHandler
  <1>3. Fresh(q, H, e, m)
    BY <1>0, <1>1, <1>2 DEF Fresh, Clash
  <1>4. NoProgress(q, e, m)
    BY <1>1 DEF NoProgress, Tokens
  <1>5. QED BY <1>3, <1>4

-----------------------------------------------------------------------------
(***************************************************************************)
(* Moving a token from one place to another                                *)
(***************************************************************************)

SameToken(m, k) == m.n = k.n /\ m.cmd = k.cmd

LEMMA FreshSame ==
    ASSUME NEW q, NEW H, NEW own, NEW m, NEW k, SameToken(m, k)
    PROVE  /\ Fresh(q, H, own, m) => Fresh(q, H, own, k)
           /\ NoProgress(q, own, m) => NoProgress(q, own, k)
           /\ \A rh : HasHandler(rh, own, m) => HasHandler(rh, own, k)
  <1>1. Fresh(q, H, own, m) => Fresh(q, H, own, k)
    BY DEF Fresh, Clash, SameToken
  <1>2. NoProgress(q, own, m) => NoProgress(q, own, k)
    BY DEF NoProgress, SameToken
  <1>3. \A rh : HasHandler(rh, own, m) => HasHandler(rh, own, k)
    BY DEF HasHandler, SameToken
  <1>4. QED BY <1>1, <1>2, <1>3

\* A command becomes a reply or is passed on.
LEMMA MoveCommand ==
    ASSUME NEW q \in Queues, NEW e \in Ends, NEW p, Took(q, p, e),
           NEW H, NEW rh, NEW cl, NEW prox, TokensOK(q, H, rh, cl, prox),
           NEW m, m = Head(q[e]), m.type = "C",
           NEW x \in Ends, NEW k \in Msgs, Fin(k), SameToken(m, k), Owner(x, k) = Owner(e, m),
           RoutedOne(x, k, prox), NEW p2, Added(p, p2, x, k)
    PROVE  TokensOK(p2, H, rh, cl, prox)
  <1>1. p \in Queues /\ TokensOK(p, H, rh, cl, prox)
    BY TailFacts, FewerTokens
  <1>2. Fin(m)
    BY DEF Fin, Finals
  <1>3. /\ Fresh(p, H, Owner(e, m), m)
        /\ Owner(e, m) \notin cl => HasHandler(rh, Owner(e, m), m)
        /\ NoProgress(p, Owner(e, m), m)
    BY <1>2, TakeFinal
  <1>4. /\ Fresh(p, H, Owner(x, k), k)
        /\ Owner(x, k) \notin cl => HasHandler(rh, Owner(x, k), k)
        /\ NoProgress(p, Owner(x, k), k)
    BY <1>3, FreshSame
  <1>5. ProgressAhead(p, x, Owner(x, k), k)
    BY <1>4 DEF NoProgress, ProgressAhead
  <1>6. QED BY <1>1, <1>4, <1>5, AddFinal

\* A proxy passes a reply on and takes the prefix off.
LEMMA MoveReply ==
    ASSUME NEW q \in Queues, NEW e \in Ends, NEW p, Took(q, p, e),
           NEW H, NEW rh, NEW cl, NEW prox, TokensOK(q, H, rh, cl, prox),
           NEW m, m = Head(q[e]), m.type \in {"R", "N"}, m.hops = 1,
           NEW k \in Msgs, k.type = m.type, k.hops = 0, SameToken(m, k),
           RoutedOne(Far[e], k, prox), NEW p2, Added(p, p2, Far[e], k)
    PROVE  TokensOK(p2, H, rh, cl, prox)
  <1>1. p \in Queues /\ TokensOK(p, H, rh, cl, prox)
    BY TailFacts, FewerTokens
  <1>2. Fin(m) /\ Fin(k) /\ k.type # "C" /\ Far[e] \in Ends
    BY DEF Fin, Finals, Far, Ends
  <1>3. Owner(e, m) = Far[e] /\ Owner(Far[e], k) = Far[e]
    BY <1>2 DEF Owner
  <1>4. /\ Fresh(p, H, Owner(e, m), m)
        /\ Owner(e, m) \notin cl => HasHandler(rh, Owner(e, m), m)
        /\ \A y \in Ends : \A j \in 1..Len(p[y]) :
              p[y][j].type = "P" /\ Owner(y, p[y][j]) = Owner(e, m) /\ p[y][j].n = m.n
              => m.hops > p[y][j].hops
    BY <1>2, TakeFinal
  <1>5. /\ Fresh(p, H, Owner(Far[e], k), k)
        /\ Owner(Far[e], k) \notin cl => HasHandler(rh, Owner(Far[e], k), k)
    BY <1>3, <1>4, FreshSame
  <1>6. ProgressAhead(p, Far[e], Owner(Far[e], k), k)
    <2>1. ASSUME NEW y \in Ends, NEW j \in 1..Len(p[y]), p[y][j].type = "P",
                 Owner(y, p[y][j]) = Far[e], p[y][j].n = k.n
          PROVE  y = Far[e]
      <3>1. p[y][j] \in Msgs /\ 1 > p[y][j].hops
        BY <1>1, <1>3, <1>4, <2>1 DEF Queues, SameToken
      <3>2. p[y][j].hops \in {0, 1}
        BY <3>1 DEF Msgs
      <3>3. p[y][j].hops = 0
        BY <3>1, <3>2
      <3>4. QED BY <2>1, <3>3 DEF Owner
    <2>2. QED BY <1>3, <2>1 DEF ProgressAhead
  <1>7. QED BY <1>1, <1>2, <1>5, <1>6, AddFinal

\* A proxy passes a report of progress on.
LEMMA MoveProgress ==
    ASSUME NEW q \in Queues, NEW e \in Ends, NEW p, Took(q, p, e),
           NEW H, NEW rh, NEW cl, NEW prox, TokensOK(q, H, rh, cl, prox),
           NEW m, m = Head(q[e]), m.type = "P", m.hops = 1,
           NEW k \in Msgs, k.type = "P", k.hops = 0, SameToken(m, k),
           RoutedOne(Far[e], k, prox), NEW p2, Added(p, p2, Far[e], k)
    PROVE  TokensOK(p2, H, rh, cl, prox)
  <1>1. p \in Queues /\ TokensOK(p, H, rh, cl, prox)
    BY TailFacts, FewerTokens
  <1>2. Far[e] \in Ends
    BY DEF Far, Ends
  <1>3. Owner(e, m) = Far[e] /\ Owner(Far[e], k) = Far[e]
    BY <1>2 DEF Owner
  <1>4. /\ Owner(e, m) \notin cl => HasHandler(rh, Owner(e, m), m)
        /\ \A y \in Ends : \A j \in 1..Len(p[y]) :
              Fin(p[y][j]) /\ Owner(y, p[y][j]) = Owner(e, m) /\ p[y][j].n = m.n
              => p[y][j].type # "C" /\ (p[y][j].hops > m.hops \/ y = e)
        /\ \A h \in H : h.own = Owner(e, m) /\ h.msg.n = m.n
              => h.kind = "served" /\ h.msg.hops >= m.hops
    BY TakeProgress
  <1>5. ASSUME NEW y \in Ends, NEW j \in 1..Len(p[y]), Fin(p[y][j]),
               Owner(y, p[y][j]) = Far[e], p[y][j].n = k.n
        PROVE  p[y][j].type # "C" /\ p[y][j].hops > k.hops
    <2>1. p[y][j].hops \in {0, 1}
      BY <1>1, ElemType
    <2>2. p[y][j].type # "C" /\ (p[y][j].hops > 1 \/ y = e)
      BY <1>3, <1>4, <1>5 DEF SameToken
    <2>3. y = e
      BY <2>1, <2>2
    <2>4. e # Far[e]
      BY DEF Far, Ends
    <2>5. p[y][j].hops = 1
      BY <1>5, <2>1, <2>2, <2>3, <2>4 DEF Owner
    <2>6. QED BY <2>2, <2>5
  <1>6. \A h \in H : h.own = Far[e] /\ h.msg.n = k.n => h.kind = "served" /\ h.msg.hops >= k.hops
    <2>1. \A h \in H : h.msg.hops \in {0, 1}
      BY DEF TokensOK, HeldOK, Msgs
    <2>2. QED BY <1>3, <1>4, <2>1 DEF SameToken
  <1>7. Owner(Far[e], k) \notin cl => HasHandler(rh, Owner(Far[e], k), k)
    BY <1>3, <1>4, FreshSame
  <1>8. QED BY <1>1, <1>2, <1>3, <1>5, <1>6, <1>7, AddProgress

\* A service, or command_redirect(), takes a command.
LEMMA MoveToHeld ==
    ASSUME NEW q \in Queues, NEW e \in Ends, NEW p, Took(q, p, e),
           NEW H, NEW rh, NEW cl, NEW prox, TokensOK(q, H, rh, cl, prox),
           NEW m, m = Head(q[e]), m.type = "C",
           NEW h, HeldOK({h}, prox), SameToken(m, h.msg), h.own = Owner(e, m)
    PROVE  TokensOK(p, H \cup {h}, rh, cl, prox)
  <1>1. p \in Queues /\ TokensOK(p, H, rh, cl, prox)
    BY TailFacts, FewerTokens
  <1>2. Fin(m)
    BY DEF Fin, Finals
  <1>3. /\ Fresh(p, H, Owner(e, m), m)
        /\ Owner(e, m) \notin cl => HasHandler(rh, Owner(e, m), m)
        /\ NoProgress(p, Owner(e, m), m)
    BY <1>2, TakeFinal
  <1>4. /\ Fresh(p, H, h.own, h.msg)
        /\ h.own \notin cl => HasHandler(rh, h.own, h.msg)
        /\ NoProgress(p, h.own, h.msg)
    BY <1>3, FreshSame
  <1>5. QED BY <1>1, <1>4, AddHeld DEF NoProgress

\* A token that is held is sent back in a reply.
LEMMA MoveFromHeld ==
    ASSUME NEW q \in Queues, NEW H, NEW rh, NEW cl, NEW prox, TokensOK(q, H, rh, cl, prox),
           NEW h \in H, NEW K \in SUBSET (H \ {h}),
           NEW x \in Ends, NEW k \in Msgs, k.type \in {"R", "N"}, SameToken(h.msg, k),
           k.hops = h.msg.hops, RoutedOne(x, k, prox), Owner(x, k) = h.own,
           NEW p, Added(q, p, x, k)
    PROVE  TokensOK(p, K, rh, cl, prox)
  <1>1. TokensOK(q, K, rh, cl, prox)
    BY TakeHeld
  <1>2. /\ Fresh(q, K, h.own, h.msg)
        /\ h.own \notin cl => HasHandler(rh, h.own, h.msg)
        /\ \A y \in Ends : \A j \in 1..Len(q[y]) :
              q[y][j].type = "P" /\ Owner(y, q[y][j]) = h.own /\ q[y][j].n = h.msg.n
              => h.msg.hops >= q[y][j].hops
    BY TakeHeld
  <1>3. Fresh(q, K, Owner(x, k), k) /\ (Owner(x, k) \notin cl => HasHandler(rh, Owner(x, k), k))
    BY <1>2, FreshSame
  <1>4. Fin(k) /\ k.type # "C"
    BY DEF Fin, Finals
  <1>5. ProgressAhead(q, x, Owner(x, k), k)
    <2>1. ASSUME NEW y \in Ends, NEW j \in 1..Len(q[y]), q[y][j].type = "P",
                 Owner(y, q[y][j]) = Owner(x, k), q[y][j].n = k.n, ~(k.hops > q[y][j].hops)
          PROVE  y = x
      <3>1. q[y][j].hops \in {0, 1} /\ k.hops \in {0, 1}
        BY ElemType, MsgType
      <3>2. k.hops >= q[y][j].hops
        BY <1>2, <2>1 DEF SameToken
      <3>3. q[y][j].hops = k.hops
        BY <2>1, <3>1, <3>2
      <3>4. RoutedOne(y, q[y][j], prox)
        BY DEF TokensOK, Routed
      <3>5. CASE k.hops = 0
        BY <1>4, <2>1, <3>3, <3>5 DEF Owner
      <3>6. CASE k.hops = 1
        <4>1. x \in {"target", "host"} /\ y \in {"target", "host"}
          BY <1>4, <2>1, <3>3, <3>4, <3>6 DEF RoutedOne
        <4>2. Far[x] = Far[y]
          BY <2>1, <3>3, <3>6 DEF Owner
        <4>3. QED BY <4>1, <4>2 DEF Far
      <3>7. QED BY <3>1, <3>5, <3>6
    <2>2. QED BY <2>1 DEF ProgressAhead
  <1>6. QED BY <1>1, <1>3, <1>4, <1>5, AddFinal

-----------------------------------------------------------------------------
(***************************************************************************)
(* The tokens that are held                                                *)
(***************************************************************************)

LEMMA HeldFields ==
    ASSUME NEW kind, NEW e, NEW own, NEW m
    PROVE  /\ Held(kind, e, own, m).kind = kind /\ Held(kind, e, own, m).at = e
           /\ Held(kind, e, own, m).own = own /\ Held(kind, e, own, m).msg = m
  BY DEF Held

LEMMA RelayFields ==
    ASSUME NEW r
    PROVE  /\ RelayHeld(r).kind = "relay" /\ RelayHeld(r).at = "target"
           /\ RelayHeld(r).own = "client"
           /\ RelayHeld(r).msg.n = r.via /\ RelayHeld(r).msg.cmd = r.cmd
           /\ RelayHeld(r).msg.type = "C" /\ RelayHeld(r).msg.hops = 0
  BY DEF RelayHeld, Held, Message

\* What is held, one kind after the other.
LEMMA HeldKinds ==
    ASSUME NEW sv, NEW cn, NEW rt, NEW h
    PROVE  h \in HeldOf(sv, cn, rt) <=>
              \/ \E e \in Ends : \E m \in sv[e] : h = Held("served", e, ServedFor(e, m), m)
              \/ \E e \in Ends : cn[e] # NoInfo /\ h = Held("connects", e, Peer[e], cn[e][1])
              \/ \E r \in rt : r.kind = "relay" /\ h = RelayHeld(r)
  <1>1. h \in ServedTokens(sv) <=>
          \E e \in Ends : \E m \in sv[e] : h = Held("served", e, ServedFor(e, m), m)
    BY DEF ServedTokens
  <1>2. h \in ConnectTokens(cn) <=>
          \E e \in Ends : cn[e] # NoInfo /\ h = Held("connects", e, Peer[e], cn[e][1])
    BY DEF ConnectTokens
  <1>3. h \in RelayTokens(rt) <=> \E r \in rt : r.kind = "relay" /\ h = RelayHeld(r)
    BY DEF RelayTokens
  <1>4. QED BY <1>1, <1>2, <1>3 DEF HeldOf

\* The command m is served at the end e as well.
AlsoServed(sv, sw, e, m) == sw[e] = sv[e] \cup {m} /\ \A x \in Ends \ {e} : sw[x] = sv[x]

LEMMA ServeHeld ==
    ASSUME NEW sv, NEW sw, NEW cn, NEW rt, NEW e \in Ends, NEW m, AlsoServed(sv, sw, e, m)
    PROVE  HeldOf(sw, cn, rt) = HeldOf(sv, cn, rt) \cup {Held("served", e, ServedFor(e, m), m)}
  <1>2. \A x \in Ends : sw[x] = IF x = e THEN sv[x] \cup {m} ELSE sv[x]
    BY DEF AlsoServed
  <1>3. ASSUME NEW h
        PROVE  h \in HeldOf(sw, cn, rt) <=>
                 h \in HeldOf(sv, cn, rt) \cup {Held("served", e, ServedFor(e, m), m)}
    <2>1. (\E x \in Ends : \E k \in sw[x] : h = Held("served", x, ServedFor(x, k), k)) <=>
            \/ \E x \in Ends : \E k \in sv[x] : h = Held("served", x, ServedFor(x, k), k)
            \/ h = Held("served", e, ServedFor(e, m), m)
      BY <1>2
    <2>2. QED BY <2>1, HeldKinds
  <1>4. QED BY <1>3

LEMMA UnserveHeld ==
    ASSUME NEW sv, DOMAIN sv = Ends, NEW cn, NEW rt, NEW e \in Ends, NEW m \in sv[e]
    PROVE  LET h == Held("served", e, ServedFor(e, m), m) IN
           /\ h \in HeldOf(sv, cn, rt)
           /\ HeldOf([sv EXCEPT ![e] = @ \ {m}], cn, rt) \subseteq HeldOf(sv, cn, rt) \ {h}
  <1> DEFINE h == Held("served", e, ServedFor(e, m), m)
  <1>1. PICK sw : sw = [sv EXCEPT ![e] = @ \ {m}] OBVIOUS
  <1>2. \A x \in Ends : sw[x] = IF x = e THEN sv[x] \ {m} ELSE sv[x]
    BY <1>1
  <1>3. h \in HeldOf(sv, cn, rt)
    BY HeldKinds
  <1>4. ASSUME NEW g \in HeldOf(sw, cn, rt) PROVE g \in HeldOf(sv, cn, rt) /\ g # h
    <2>0. h.kind = "served" /\ h.at = e /\ h.msg = m
      BY HeldFields
    <2>1. CASE \E x \in Ends : \E k \in sw[x] : g = Held("served", x, ServedFor(x, k), k)
      <3>0. PICK x \in Ends : \E k \in sw[x] : g = Held("served", x, ServedFor(x, k), k)
        BY <2>1
      <3>1. PICK k \in sw[x] : g = Held("served", x, ServedFor(x, k), k)
        BY <3>0
      <3>2. g.at = x /\ g.msg = k
        BY <3>1, HeldFields
      <3>3. k \in sv[x] /\ (x # e \/ k # m)
        BY <1>2
      <3>4. g # h
        BY <2>0, <3>2, <3>3
      <3>5. QED BY <3>1, <3>3, <3>4, HeldKinds
    <2>2. CASE \E x \in Ends : cn[x] # NoInfo /\ g = Held("connects", x, Peer[x], cn[x][1])
      <3>1. g.kind = "connects"
        BY <2>2, HeldFields
      <3>2. QED BY <2>0, <2>2, <3>1, HeldKinds
    <2>3. CASE \E r \in rt : r.kind = "relay" /\ g = RelayHeld(r)
      <3>1. g.kind = "relay"
        BY <2>3, RelayFields
      <3>2. QED BY <2>0, <2>3, <3>1, HeldKinds
    <2>4. QED BY <2>1, <2>2, <2>3, HeldKinds
  <1>5. QED BY <1>1, <1>3, <1>4

\* The redirect m waits for a connection at the end e as well.
AlsoConnects(cn, cm, e, m) ==
    cn[e] = NoInfo /\ cm[e] = <<m>> /\ \A x \in Ends \ {e} : cm[x] = cn[x]

LEMMA ConnectHeld ==
    ASSUME NEW sv, NEW cn, NEW cm, NEW rt, NEW e \in Ends, NEW m, AlsoConnects(cn, cm, e, m)
    PROVE  HeldOf(sv, cm, rt) = HeldOf(sv, cn, rt) \cup {Held("connects", e, Peer[e], m)}
  <1>2. \A x \in Ends : cm[x] = IF x = e THEN <<m>> ELSE cn[x]
    BY DEF AlsoConnects
  <1>3. cm[e] # NoInfo /\ cm[e][1] = m
    BY <1>2 DEF NoInfo
  <1>4. ASSUME NEW h
        PROVE  h \in HeldOf(sv, cm, rt) <=>
                 h \in HeldOf(sv, cn, rt) \cup {Held("connects", e, Peer[e], m)}
    <2>1. (\E x \in Ends : cm[x] # NoInfo /\ h = Held("connects", x, Peer[x], cm[x][1])) <=>
            \/ \E x \in Ends : cn[x] # NoInfo /\ h = Held("connects", x, Peer[x], cn[x][1])
            \/ h = Held("connects", e, Peer[e], m)
      BY <1>2, <1>3 DEF AlsoConnects
    <2>2. QED BY <2>1, HeldKinds
  <1>5. QED BY <1>4

LEMMA UnconnectHeld ==
    ASSUME NEW sv, NEW cn, DOMAIN cn = Ends, NEW rt, NEW e \in Ends, cn[e] # NoInfo
    PROVE  LET h == Held("connects", e, Peer[e], cn[e][1]) IN
           /\ h \in HeldOf(sv, cn, rt)
           /\ HeldOf(sv, [cn EXCEPT ![e] = NoInfo], rt) \subseteq HeldOf(sv, cn, rt) \ {h}
  <1> DEFINE h == Held("connects", e, Peer[e], cn[e][1])
  <1>1. PICK cm : cm = [cn EXCEPT ![e] = NoInfo] OBVIOUS
  <1>2. \A x \in Ends : cm[x] = IF x = e THEN NoInfo ELSE cn[x]
    BY <1>1
  <1>3. h \in HeldOf(sv, cn, rt)
    BY HeldKinds
  <1>4. ASSUME NEW g \in HeldOf(sv, cm, rt) PROVE g \in HeldOf(sv, cn, rt) /\ g # h
    <2>0. h.kind = "connects" /\ h.at = e
      BY HeldFields
    <2>1. CASE \E x \in Ends : \E k \in sv[x] : g = Held("served", x, ServedFor(x, k), k)
      <3>1. g.kind = "served"
        BY <2>1, HeldFields
      <3>2. QED BY <2>0, <2>1, <3>1, HeldKinds
    <2>2. CASE \E x \in Ends : cm[x] # NoInfo /\ g = Held("connects", x, Peer[x], cm[x][1])
      <3>1. PICK x \in Ends : cm[x] # NoInfo /\ g = Held("connects", x, Peer[x], cm[x][1])
        BY <2>2
      <3>2. x # e /\ cm[x] = cn[x]
        BY <1>2, <3>1
      <3>3. g.at = x
        BY <3>1, HeldFields
      <3>4. QED BY <2>0, <3>1, <3>2, <3>3, HeldKinds
    <2>3. CASE \E r \in rt : r.kind = "relay" /\ g = RelayHeld(r)
      <3>1. g.kind = "relay"
        BY <2>3, RelayFields
      <3>2. QED BY <2>0, <2>3, <3>1, HeldKinds
    <2>4. QED BY <2>1, <2>2, <2>3, HeldKinds
  <1>5. QED BY <1>1, <1>3, <1>4

\* The structures of the target count by their relays only.
LEMMA SameRelays ==
    ASSUME NEW sv, NEW cn, NEW rt, NEW ru,
           {r \in rt : r.kind = "relay"} = {r \in ru : r.kind = "relay"}
    PROVE  HeldOf(sv, cn, rt) = HeldOf(sv, cn, ru)
  BY DEF HeldOf, RelayTokens

LEMMA RelayHolds ==
    ASSUME NEW sv, NEW cn, NEW rt, NEW r, r.kind = "relay"
    PROVE  HeldOf(sv, cn, rt \cup {r}) = HeldOf(sv, cn, rt) \cup {RelayHeld(r)}
  <1>1. ASSUME NEW h
        PROVE  h \in HeldOf(sv, cn, rt \cup {r}) <=> h \in HeldOf(sv, cn, rt) \cup {RelayHeld(r)}
    <2>1. (\E x \in rt \cup {r} : x.kind = "relay" /\ h = RelayHeld(x)) <=>
             (\E x \in rt : x.kind = "relay" /\ h = RelayHeld(x)) \/ h = RelayHeld(r)
      OBVIOUS
    <2>2. QED BY <2>1, HeldKinds
  <1>2. QED BY <1>1

\* Without its only relay the target holds nothing.
LEMMA NoRelays ==
    ASSUME NEW sv, NEW cn, NEW rt, NEW ru, NEW r \in rt, r.kind = "relay",
           \A s \in ru : s.kind # "relay"
    PROVE  /\ RelayHeld(r) \in HeldOf(sv, cn, rt)
           /\ HeldOf(sv, cn, ru) \subseteq HeldOf(sv, cn, rt) \ {RelayHeld(r)}
  <1>1. RelayHeld(r) \in HeldOf(sv, cn, rt)
    BY HeldKinds
  <1>2. RelayHeld(r).kind = "relay"
    BY RelayFields
  <1>3. ASSUME NEW g \in HeldOf(sv, cn, ru) PROVE g \in HeldOf(sv, cn, rt) /\ g.kind # "relay"
    <2>1. CASE \E x \in Ends : \E k \in sv[x] : g = Held("served", x, ServedFor(x, k), k)
      <3>1. g.kind = "served"
        BY <2>1, HeldFields
      <3>2. QED BY <2>1, <3>1, HeldKinds
    <2>2. CASE \E x \in Ends : cn[x] # NoInfo /\ g = Held("connects", x, Peer[x], cn[x][1])
      <3>1. g.kind = "connects"
        BY <2>2, HeldFields
      <3>2. QED BY <2>2, <3>1, HeldKinds
    <2>3. QED BY <2>1, <2>2, HeldKinds
  <1>4. QED BY <1>1, <1>2, <1>3

LEMMA FewerRelays ==
    ASSUME NEW sv, NEW cn, NEW rt, NEW ru, \A s \in ru : s.kind = "relay" => s \in rt
    PROVE  HeldOf(sv, cn, ru) \subseteq HeldOf(sv, cn, rt)
  BY HeldKinds

-----------------------------------------------------------------------------
(***************************************************************************)
(* The number of a new token                                               *)
(***************************************************************************)

LEMMA LeastNumber ==
    ASSUME NEW S, S \subseteq Nat, S # {}
    PROVE  \E n \in S : \A m \in S : n <= m
  <1> DEFINE R == OpToRel(<, Nat)
  <1>1. IsWellFoundedOn(R, Nat)
    BY NatLessThanWellFounded, Zenon
  <1>2. \A m, n \in Nat : m < n => <<m, n>> \in R
    BY DEF OpToRel
  <1> HIDE DEF R
  <1>3. PICK n \in S : \A m \in S : <<m, n>> \notin R
    BY <1>1, WFMin
  <1>4. \A m \in S : ~(m < n)
    BY <1>2, <1>3
  <1> QED BY <1>4

\* A number that is counted on from t wraps around once at most.
LEMMA CountOn ==
    ASSUME NEW s \in Nat, s > 0, NEW x \in Nat, x < s + s
    PROVE  x % s = IF x < s THEN x ELSE x - s
  <1>1. CASE x < s
    BY <1>1, Z3
  <1>2. CASE ~(x < s)
    <2>1. x % s = x - s
      BY <1>2, Z3
    <2> QED BY <1>2, <2>1
  <1> QED BY <1>1, <1>2

\* protocol_send_command() finds a number that is not in use.
LEMMA NewTokenFree ==
    ASSUME PrTypeOK, NEW e \in Ends, TokenLeft(e)
    PROVE  NewToken(e) \in 0..(TokenMod - 1) /\ \A r \in rhs[e] : r.n # NewToken(e)
  <1>0. TokenMod \in Nat /\ TokenMod > 0
    BY ProtocolAssumption
  <1>t. PICK t : t = tokenid[e] OBVIOUS
  <1>s. PICK S : S = rhs[e] OBVIOUS
  <1>c. PICK c : c = Cardinality(S) OBVIOUS
  <1>1. t \in Nat /\ t < TokenMod /\ IsFiniteSet(S)
    BY <1>0, <1>t, <1>s DEF PrTypeOK
  <1>2. c \in Nat /\ c < TokenMod
    BY <1>1, <1>c, <1>s, FS_CardinalityType DEF TokenLeft
  <1> DEFINE used(k) == \E r \in S : r.n = (t + k) % TokenMod
             Good(i) == ~used(i) /\ \A j \in 0..(i - 1) : used(j)
  <1>3. \A k, l \in 0..c : (t + k) % TokenMod = (t + l) % TokenMod => k = l
    <2>1. ASSUME NEW k \in 0..c, NEW l \in 0..c, (t + k) % TokenMod = (t + l) % TokenMod
          PROVE  k = l
      <3>1. (t + k) % TokenMod = IF t + k < TokenMod THEN t + k ELSE (t + k) - TokenMod
        BY <1>0, <1>1, <1>2, CountOn
      <3>2. (t + l) % TokenMod = IF t + l < TokenMod THEN t + l ELSE (t + l) - TokenMod
        BY <1>0, <1>1, <1>2, CountOn
      <3>3. QED BY <1>0, <1>1, <1>2, <2>1, <3>1, <3>2
    <2>2. QED BY <2>1
  <1>4. \E k \in 0..c : ~used(k)
    <2>1. SUFFICES ASSUME \A k \in 0..c : used(k) PROVE FALSE
      OBVIOUS
    <2>2. PICK f : f = [k \in 0..c |-> CHOOSE r \in S : r.n = (t + k) % TokenMod]
      OBVIOUS
    <2>3. \A k \in 0..c : f[k] \in S /\ f[k].n = (t + k) % TokenMod
      BY <2>1, <2>2
    <2>4. f \in [0..c -> S]
      BY <2>2, <2>3
    <2>5. IsFiniteSet(0..c) /\ Cardinality(0..c) = (c - 0) + 1
      BY <1>2, FS_Interval
    <2>6. Cardinality(S) < Cardinality(0..c)
      BY <1>2, <1>c, <2>5
    <2>7. PICK k \in 0..c, l \in 0..c : k # l /\ f[k] = f[l]
      BY <1>1, <2>4, <2>5, <2>6, FS_PigeonHole
    <2>8. QED BY <1>3, <2>3, <2>7
  <1>5. \E i \in 0..c : Good(i)
    <2>1. PICK U : U = {k \in 0..c : ~used(k)} OBVIOUS
    <2>2. U \subseteq Nat /\ U # {}
      BY <1>4, <2>1
    <2>3. PICK i \in U : \A m \in U : i <= m
      BY <2>2, LeastNumber
    <2>4. ASSUME NEW j \in 0..(i - 1) PROVE used(j)
      <3>1. j \in 0..c /\ j \notin U
        BY <1>2, <2>1, <2>3
      <3>2. QED BY <2>1, <3>1
    <2>5. QED BY <2>1, <2>3, <2>4
  <1>6. PICK i : i = CHOOSE k \in 0..c : Good(k) OBVIOUS
  <1>7. i \in 0..c /\ ~used(i)
    <2>1. i \in 0..c /\ Good(i)
      BY <1>5, <1>6
    <2>2. QED BY <2>1
  <1>8. NewToken(e) = (t + i) % TokenMod
    BY <1>6, <1>t, <1>s, <1>c DEF NewToken
  <1>9. (t + i) % TokenMod = IF t + i < TokenMod THEN t + i ELSE (t + i) - TokenMod
    BY <1>0, <1>1, <1>2, <1>7, CountOn
  <1>10. (t + i) % TokenMod \in 0..(TokenMod - 1)
    BY <1>0, <1>1, <1>2, <1>7, <1>9
  <1>11. QED BY <1>7, <1>8, <1>10, <1>s

-----------------------------------------------------------------------------
(***************************************************************************)
(* Hello on one link                                                       *)
(***************************************************************************)

NoHello(q)   == \A i \in 1..Len(q) : q[i].type # "Hello"
NoGranted(q) == \A i \in 1..Len(q) : ~Granted(q[i])

Grown(q, p, m) == p = q \/ p = Append(q, m)

LEMMA AppendFacts ==
    ASSUME NEW q \in Seq(Msgs), NEW m \in Msgs
    PROVE  /\ Append(q, m) \in Seq(Msgs)
           /\ \A i \in 1..Len(Append(q, m)) :
                \/ i \in 1..Len(q) /\ Append(q, m)[i] = q[i]
                \/ i = Len(q) + 1 /\ Append(q, m)[i] = m
           /\ \A i \in 1..Len(q) : i \in 1..Len(Append(q, m)) /\ Append(q, m)[i] = q[i]
           /\ Len(q) + 1 \in 1..Len(Append(q, m)) /\ Append(q, m)[Len(q) + 1] = m
           /\ \A i \in 1..Len(q) : i \in 1..((Len(q) + 1) - 1) /\ i < Len(q) + 1
  OBVIOUS

LEMMA ShiftFacts ==
    ASSUME NEW q \in Seq(Msgs), q # <<>>
    PROVE  /\ Tail(q) \in Seq(Msgs)
           /\ \A i \in 1..Len(Tail(q)) : i + 1 \in 1..Len(q) /\ Tail(q)[i] = q[i + 1]
           /\ 1 \in 1..Len(q) /\ Head(q) = q[1]
           /\ \A j \in 1..Len(q) : j = 1 \/ (j - 1 \in 1..Len(Tail(q)) /\ Tail(q)[j - 1] = q[j])
  OBVIOUS

LEMMA TakeUp ==
    ASSUME NEW q \in Seq(Msgs), q # <<>>, NEW su, NEW sd, NEW cut, HelloUp(q, su, sd, cut),
           ~Granted(Head(q)) \/ su # "RedirectSent"
    PROVE  HelloUp(Tail(q), su, sd, cut)
  <1>1. PICK t : t = Tail(q) OBVIOUS
  <1>2. /\ \A i \in 1..Len(t) : i + 1 \in 1..Len(q) /\ t[i] = q[i + 1]
        /\ Head(q) = q[1]
        /\ \A j \in 1..Len(q) : j = 1 \/ (j - 1 \in 1..Len(t) /\ t[j - 1] = q[j])
    BY <1>1, ShiftFacts
  <1>3. ASSUME NEW i \in 1..Len(t), t[i].type = "Hello"
        PROVE  /\ \/ su \in {"StartWait", "HelloSent"}
                  \/ su = "RedirectSent" /\ \E j \in 1..(i - 1) : Granted(t[j])
               /\ sd \notin {"StartWait", "HelloReceived"}
               /\ \A j \in 1..Len(t) : t[j].type = "Hello" => i = j
    <2>1. i + 1 \in 1..Len(q) /\ q[i + 1].type = "Hello"
      BY <1>2, <1>3
    <2>2. \/ su \in {"StartWait", "HelloSent"}
          \/ su = "RedirectSent" /\ \E j \in 1..((i + 1) - 1) : Granted(q[j])
      BY <2>1 DEF HelloUp
    <2>3. ASSUME su = "RedirectSent", \E j \in 1..((i + 1) - 1) : Granted(q[j])
          PROVE  \E j \in 1..(i - 1) : Granted(t[j])
      <3>1. PICK j \in 1..((i + 1) - 1) : Granted(q[j])
        BY <2>3
      <3>2. j # 1 /\ j \in 1..Len(q)
        BY <1>2, <2>1, <2>3, <3>1
      <3>3. j - 1 \in 1..(i - 1) /\ t[j - 1] = q[j]
        BY <1>2, <3>1, <3>2
      <3>4. QED BY <3>1, <3>3
    <2>4. sd \notin {"StartWait", "HelloReceived"}
      BY <2>1 DEF HelloUp
    <2>5. ASSUME NEW j \in 1..Len(t), t[j].type = "Hello" PROVE i = j
      <3>1. i + 1 = j + 1
        BY <1>2, <2>1, <2>5 DEF HelloUp
      <3>2. QED BY <3>1
    <2>6. \/ su \in {"StartWait", "HelloSent"}
          \/ su = "RedirectSent" /\ \E j \in 1..(i - 1) : Granted(t[j])
      BY <2>2, <2>3
    <2>7. QED BY <2>4, <2>5, <2>6
  <1>4. sd = "StartWait" => su \in {"StartWait", "HelloSent", "Disconnected"}
    BY DEF HelloUp
  <1>5. sd = "HelloReceived" /\ ~cut =>
           \/ su \in {"HelloSent", "Disconnected"}
           \/ su = "RedirectSent" /\ \E j \in 1..Len(t) : Granted(t[j])
    BY <1>2 DEF HelloUp
  <1>6. QED BY <1>1, <1>3, <1>4, <1>5 DEF HelloUp

LEMMA TakeDown ==
    ASSUME NEW q \in Seq(Msgs), q # <<>>, NEW su, NEW sd, HelloDown(q, su, sd)
    PROVE  HelloDown(Tail(q), su, sd)
  <1>1. PICK t : t = Tail(q) OBVIOUS
  <1>2. \A i \in 1..Len(t) : i + 1 \in 1..Len(q) /\ t[i] = q[i + 1]
    BY <1>1, ShiftFacts
  <1>3. ASSUME NEW i \in 1..Len(t), t[i].type = "Hello"
        PROVE  /\ sd \in {"StartWait", "HelloSent"} /\ su # "StartWait"
               /\ \A j \in 1..Len(t) : t[j].type = "Hello" => i = j
    <2>1. \A j \in 1..Len(t) : t[j].type = "Hello" => i + 1 = j + 1
      BY <1>2, <1>3 DEF HelloDown
    <2>2. sd \in {"StartWait", "HelloSent"} /\ su # "StartWait"
      BY <1>2, <1>3 DEF HelloDown
    <2>3. QED BY <2>1, <2>2
  <1>4. QED BY <1>1, <1>3 DEF HelloDown

\* After the one Hello there is none.
LEMMA TakeHelloUp ==
    ASSUME NEW q \in Seq(Msgs), q # <<>>, NEW su, NEW sd, NEW cut, HelloUp(q, su, sd, cut),
           Head(q).type = "Hello"
    PROVE  NoHello(Tail(q))
  <1>2. /\ \A i \in 1..Len(Tail(q)) : i + 1 \in 1..Len(q) /\ Tail(q)[i] = q[i + 1]
        /\ Head(q) = q[1] /\ 1 \in 1..Len(q)
    BY ShiftFacts
  <1>3. \A i \in 1..Len(Tail(q)) : Tail(q)[i].type = "Hello" => 1 = i + 1
    BY <1>2 DEF HelloUp
  <1>4. QED BY <1>3 DEF NoHello

LEMMA TakeHelloDown ==
    ASSUME NEW q \in Seq(Msgs), q # <<>>, NEW su, NEW sd, HelloDown(q, su, sd),
           Head(q).type = "Hello"
    PROVE  NoHello(Tail(q))
  <1>2. /\ \A i \in 1..Len(Tail(q)) : i + 1 \in 1..Len(q) /\ Tail(q)[i] = q[i + 1]
        /\ Head(q) = q[1] /\ 1 \in 1..Len(q)
    BY ShiftFacts
  <1>3. \A i \in 1..Len(Tail(q)) : Tail(q)[i].type = "Hello" => 1 = i + 1
    BY <1>2 DEF HelloDown
  <1>4. QED BY <1>3 DEF NoHello

LEMMA TakeNoHello ==
    ASSUME NEW q \in Seq(Msgs), q # <<>>, NoHello(q)
    PROVE  NoHello(Tail(q))
  BY ShiftFacts DEF NoHello

\* Any message but a Hello may be added.
LEMMA GrowUp ==
    ASSUME NEW q \in Seq(Msgs), NEW m \in Msgs, m.type # "Hello", NEW p, Grown(q, p, m),
           NEW su, NEW sd, NEW cut, HelloUp(q, su, sd, cut)
    PROVE  HelloUp(p, su, sd, cut)
  <1>1. CASE p = q BY <1>1
  <1>2. CASE p = Append(q, m)
    <2>1. /\ \A i \in 1..Len(p) : p[i].type = "Hello" => i \in 1..Len(q) /\ p[i] = q[i]
          /\ \A i \in 1..Len(q) : i \in 1..Len(p) /\ p[i] = q[i]
      BY <1>2, AppendFacts
    <2>2. ASSUME NEW i \in 1..Len(p), p[i].type = "Hello"
          PROVE  /\ \/ su \in {"StartWait", "HelloSent"}
                    \/ su = "RedirectSent" /\ \E j \in 1..(i - 1) : Granted(p[j])
                 /\ sd \notin {"StartWait", "HelloReceived"}
                 /\ \A j \in 1..Len(p) : p[j].type = "Hello" => i = j
      <3>1. i \in 1..Len(q) /\ q[i].type = "Hello"
        BY <2>1, <2>2
      <3>2. \A j \in 1..(i - 1) : j \in 1..Len(q)
        BY <3>1
      <3>3. QED BY <2>1, <3>1, <3>2 DEF HelloUp
    <2>3. QED BY <2>1, <2>2 DEF HelloUp
  <1>3. QED BY <1>1, <1>2 DEF Grown

LEMMA GrowDown ==
    ASSUME NEW q \in Seq(Msgs), NEW m \in Msgs, m.type # "Hello", NEW p, Grown(q, p, m),
           NEW su, NEW sd, HelloDown(q, su, sd)
    PROVE  HelloDown(p, su, sd)
  <1>1. CASE p = q BY <1>1
  <1>2. CASE p = Append(q, m)
    <2>1. \A i \in 1..Len(p) : p[i].type = "Hello" => i \in 1..Len(q) /\ p[i] = q[i]
      BY <1>2, AppendFacts
    <2>2. QED BY <2>1 DEF HelloDown
  <1>3. QED BY <1>1, <1>2 DEF Grown

\* The Hello of a host or an agent, which goes on to the state sd.
LEMMA HelloSentUp ==
    ASSUME NEW q \in Seq(Msgs), NEW m \in Msgs, m.type = "Hello", NEW p, Grown(q, p, m),
           NEW su, NEW sd, NEW cut, NoHello(q), sd \notin {"StartWait", "HelloReceived"},
           p # q => \/ su \in {"StartWait", "HelloSent"}
                    \/ su = "RedirectSent" /\ \E j \in 1..Len(q) : Granted(q[j])
    PROVE  HelloUp(p, su, sd, cut)
  <1>1. CASE p = q BY <1>1 DEF HelloUp, NoHello
  <1>2. CASE p # q /\ p = Append(q, m)
    <2>0. PICK n : n = Len(q) + 1 OBVIOUS
    <2>1. /\ \A i \in 1..Len(p) : p[i].type = "Hello" => i = n
          /\ \A i \in 1..Len(q) : i \in 1..(n - 1) /\ p[i] = q[i]
      BY <1>2, <2>0, AppendFacts DEF NoHello
    <2>2. QED BY <1>2, <2>1 DEF HelloUp
  <1>3. QED BY <1>1, <1>2 DEF Grown

\* The Hello of a client or a target.
LEMMA HelloSentDown ==
    ASSUME NEW q \in Seq(Msgs), NEW m \in Msgs, m.type = "Hello", NEW p, Grown(q, p, m),
           NEW su, NEW sd, NoHello(q), su # "StartWait", p # q => sd \in {"StartWait", "HelloSent"}
    PROVE  HelloDown(p, su, sd)
  <1>1. CASE p = q BY <1>1 DEF HelloDown, NoHello
  <1>2. CASE p # q /\ p = Append(q, m)
    <2>0. PICK n : n = Len(q) + 1 OBVIOUS
    <2>1. \A i \in 1..Len(p) : p[i].type = "Hello" => i = n
      BY <1>2, <2>0, AppendFacts DEF NoHello
    <2>2. QED BY <1>2, <2>1 DEF HelloDown
  <1>3. QED BY <1>1, <1>2 DEF Grown

\* Without a Hello on the way only the states count.
LEMMA QuietUp ==
    ASSUME NEW q, NoHello(q), NEW su, NEW sd, NEW cut,
           sd = "StartWait" => su \in {"StartWait", "HelloSent", "Disconnected"},
           sd = "HelloReceived" /\ ~cut => \/ su \in {"HelloSent", "Disconnected"}
                                           \/ su = "RedirectSent" /\ ~NoGranted(q)
    PROVE  HelloUp(q, su, sd, cut)
  BY DEF HelloUp, NoHello, NoGranted

LEMMA QuietDown ==
    ASSUME NEW q, NoHello(q), NEW su, NEW sd,
           su = "StartWait" => sd \in {"StartWait", "HelloSent", "Disconnected"}
    PROVE  HelloDown(q, su, sd)
  BY DEF HelloDown, NoHello

LEMMA EmptyQuiet == NoHello(<<>>)
  BY DEF NoHello

-----------------------------------------------------------------------------
(***************************************************************************)
(* Sending and receiving                                                   *)
(***************************************************************************)

LEMMA EndsFacts ==
    /\ \A e \in Ends : Peer[e] \in Ends /\ Peer[Peer[e]] = e /\ Peer[e] # e
    /\ \A e \in Ends : e \in Upper \/ e \in Lower
    /\ \A e \in Upper : Peer[e] \in Lower /\ e \in Ends /\ e \notin Lower
    /\ \A e \in Lower : Peer[e] \in Upper /\ e \in Ends /\ e \notin Upper
    /\ \A e \in {"host", "target"} : Other(e) \in Ends /\ Peer[Other(e)] = Far[e]
  BY DEF Ends, Peer, Upper, Lower, Other, Far

LEMMA PlainFacts ==
    ASSUME NEW t \in {"Hello", "junk", "eos"}
    PROVE  Plain(t) \in Msgs /\ Plain(t).type = t /\ Plain(t).hops = 0 /\ t \notin Tokens
  <1>1. PICK c : c = CHOOSE x \in Cmds : TRUE OBVIOUS
  <1>2. Plain(t) = [type |-> t, hops |-> 0, n |-> 0, cmd |-> c, ok |-> TRUE]
    BY <1>1 DEF Plain, Message
  <1>3. t \in MsgTypes /\ t \notin Tokens
    BY DEF MsgTypes, Tokens
  <1>4. QED BY <1>1, <1>2, <1>3 DEF Msgs

\* Put() adds a message to those on the way to the peer, or loses it.
LEMMA PutFacts ==
    ASSUME NEW q \in Queues, NEW e \in Ends, NEW m \in Msgs
    PROVE  /\ Put(q, e, m) \in Queues
           /\ Added(q, Put(q, e, m), Peer[e], m)
           /\ Closed(Peer[e]) \/ {e, Peer[e]} \in broken => Put(q, e, m) = q
           /\ Grown(q[Peer[e]], Put(q, e, m)[Peer[e]], m)
           /\ ~Closed(Peer[e]) /\ {e, Peer[e]} \notin broken =>
                Put(q, e, m)[Peer[e]] = Append(q[Peer[e]], m)
           /\ \A x \in Ends \ {Peer[e]} : Put(q, e, m)[x] = q[x]
  <1>0. Peer[e] \in Ends
    BY EndsFacts
  <1>1. CASE {e, Peer[e]} \in broken \/ Closed(Peer[e])
    BY <1>1 DEF Put, Added, Grown
  <1>2. CASE ~({e, Peer[e]} \in broken \/ Closed(Peer[e]))
    <2>1. Put(q, e, m) = [q EXCEPT ![Peer[e]] = Append(@, m)]
      BY <1>2 DEF Put
    <2>2. Put(q, e, m)[Peer[e]] = Append(q[Peer[e]], m) /\ Put(q, e, m) \in Queues
          /\ \A x \in Ends \ {Peer[e]} : Put(q, e, m)[x] = q[x]
      BY <1>0, <2>1 DEF Queues
    <2>3. QED BY <1>2, <2>1, <2>2 DEF Added, Grown
  <1>3. QED BY <1>1, <1>2

LEMMA NetTake ==
    ASSUME NEW q \in Queues, NEW e \in Ends, NEW p, Took(q, p, e), NEW st, NEW br, NEW prox,
           NetFor(q, st, br, prox),
           ~Granted(Head(q[e])) \/ e \notin Upper \/ st[e] # "RedirectSent"
    PROVE  NetFor(p, st, br, prox)
  <1>1. p \in Queues /\ (\A y \in Ends \ {e} : p[y] = q[y]) /\ p[e] = Tail(q[e])
    BY TailFacts
  <1>2. q[e] \in Seq(Msgs) /\ q[e] # <<>>
    BY DEF Queues, Took
  <1>3. e \notin {"client", "target"} \/ ~Granted(Head(q[e])) \/ st[e] # "RedirectSent"
    BY DEF Upper
  <1>4. \A x \in Ends : st[x] = "Disconnected" => x # e /\ p[x] = <<>>
    BY <1>1, <1>2 DEF NetFor
  <1>5. ~prox => p["target"] = <<>> /\ p["agent"] = <<>>
    <2>1. ~prox => e # "target" /\ e # "agent" /\ q["target"] = <<>> /\ q["agent"] = <<>>
      BY <1>2 DEF NetFor
    <2>2. "target" \in Ends /\ "agent" \in Ends BY DEF Ends
    <2>3. QED BY <1>1, <2>1, <2>2
  <1>6. HelloLink(p["client"], p["host"], st["client"], st["host"], {"client", "host"} \in br)
    <2>0. HelloLink(q["client"], q["host"], st["client"], st["host"], {"client", "host"} \in br)
          /\ "client" \in Ends /\ "host" \in Ends
      BY DEF NetFor, Ends
    <2>1. CASE e = "client"
      BY <1>1, <1>2, <1>3, <2>0, <2>1, TakeUp DEF HelloLink
    <2>2. CASE e = "host"
      BY <1>1, <1>2, <2>0, <2>2, TakeDown DEF HelloLink
    <2>3. CASE e # "client" /\ e # "host"
      BY <1>1, <2>0, <2>3
    <2>4. QED BY <2>1, <2>2, <2>3
  <1>7. HelloLink(p["target"], p["agent"], st["target"], st["agent"], {"target", "agent"} \in br)
    <2>0. HelloLink(q["target"], q["agent"], st["target"], st["agent"], {"target", "agent"} \in br)
          /\ "target" \in Ends /\ "agent" \in Ends
      BY DEF NetFor, Ends
    <2>1. CASE e = "target"
      BY <1>1, <1>2, <1>3, <2>0, <2>1, TakeUp DEF HelloLink
    <2>2. CASE e = "agent"
      BY <1>1, <1>2, <2>0, <2>2, TakeDown DEF HelloLink
    <2>3. CASE e # "target" /\ e # "agent"
      BY <1>1, <2>0, <2>3
    <2>4. QED BY <2>1, <2>2, <2>3
  <1>8. QED BY <1>1, <1>4, <1>5, <1>6, <1>7 DEF NetFor, Queues

LEMMA NetAdd ==
    ASSUME NEW q \in Queues, NEW x \in Ends, NEW m \in Msgs, m.type # "Hello",
           NEW p, Added(q, p, x, m), NEW st, NEW br, NEW prox,
           NetFor(q, st, br, prox), p # q => st[x] # "Disconnected",
           prox \/ x \in {"client", "host"}
    PROVE  NetFor(p, st, br, prox)
  <1>1. CASE p = q BY <1>1
  <1>2. CASE p # q
    <2>0. p = [q EXCEPT ![x] = Append(@, m)]
      BY <1>2 DEF Added
    <2>1. p \in Queues /\ (\A y \in Ends \ {x} : p[y] = q[y]) /\ p[x] = Append(q[x], m)
      BY <2>0 DEF Queues
    <2>2. q[x] \in Seq(Msgs) /\ Grown(q[x], p[x], m)
      BY <2>1 DEF Queues, Grown
    <2>3. \A y \in Ends : st[y] = "Disconnected" => p[y] = <<>>
      BY <1>2, <2>1 DEF NetFor
    <2>4. ~prox => p["target"] = <<>> /\ p["agent"] = <<>>
      BY <2>1 DEF NetFor, Ends
    <2>5. HelloLink(p["client"], p["host"], st["client"], st["host"], {"client", "host"} \in br)
      <3>0. HelloLink(q["client"], q["host"], st["client"], st["host"], {"client", "host"} \in br)
            /\ "client" \in Ends /\ "host" \in Ends
        BY DEF NetFor, Ends
      <3>1. CASE x = "client"
        BY <2>1, <2>2, <3>0, <3>1, GrowUp DEF HelloLink
      <3>2. CASE x = "host"
        BY <2>1, <2>2, <3>0, <3>2, GrowDown DEF HelloLink
      <3>3. CASE x # "client" /\ x # "host"
        BY <2>1, <3>0, <3>3
      <3>4. QED BY <3>1, <3>2, <3>3
    <2>6. HelloLink(p["target"], p["agent"], st["target"], st["agent"], {"target", "agent"} \in br)
      <3>0. HelloLink(q["target"], q["agent"], st["target"], st["agent"], {"target", "agent"} \in br)
            /\ "target" \in Ends /\ "agent" \in Ends
        BY DEF NetFor, Ends
      <3>1. CASE x = "target"
        BY <2>1, <2>2, <3>0, <3>1, GrowUp DEF HelloLink
      <3>2. CASE x = "agent"
        BY <2>1, <2>2, <3>0, <3>2, GrowDown DEF HelloLink
      <3>3. CASE x # "target" /\ x # "agent"
        BY <2>1, <3>0, <3>3
      <3>4. QED BY <3>1, <3>2, <3>3
    <2>7. QED BY <2>1, <2>3, <2>4, <2>5, <2>6 DEF NetFor, Queues
  <1>3. QED BY <1>1, <1>2

\* A message is sent on.
LEMMA NetPut ==
    ASSUME NEW q \in Queues, NEW e \in Ends, NEW m \in Msgs, m.type # "Hello",
           NetFor(q, state, broken, proxied), proxied \/ e \in {"client", "host"}
    PROVE  NetFor(Put(q, e, m), state, broken, proxied)
  <1>1. Added(q, Put(q, e, m), Peer[e], m) /\ Peer[e] \in Ends
    BY PutFacts, EndsFacts
  <1>2. Put(q, e, m) # q => state[Peer[e]] # "Disconnected"
    BY PutFacts DEF Closed
  <1>3. proxied \/ Peer[e] \in {"client", "host"}
    BY DEF Peer
  <1>4. QED BY <1>1, <1>2, <1>3, NetAdd

-----------------------------------------------------------------------------
(***************************************************************************)
(* The steps of Receive(e) that only pass messages on                      *)
(***************************************************************************)

LEMMA ReplyFacts ==
    ASSUME NEW m \in Msgs, NEW t \in {"R", "P", "N"}, NEW b \in BOOLEAN
    PROVE  /\ Reply(m, t, b) \in Msgs /\ Reply(m, t, b).type = t /\ Reply(m, t, b).ok = b
           /\ Reply(m, t, b).hops = m.hops /\ SameToken(m, Reply(m, t, b))
  <1>1. t \in MsgTypes
    BY DEF MsgTypes, Tokens
  <1>2. QED BY <1>1 DEF Reply, SameToken, Msgs

\* m is the next message that the end e handles.
Receives(e, m) ==
    e \in Ends /\ ~Closed(e) /\ state[e] # "StartWait" /\ net[e] # <<>> /\ m = Head(net[e])

LEMMA Received ==
    ASSUME PrInv, NEW e, NEW m, Receives(e, m)
    PROVE  /\ e \in Ends /\ net \in Queues /\ Took(net, Got(e), e) /\ Got(e) \in Queues
           /\ m = Head(net[e]) /\ m \in Msgs /\ RoutedOne(e, m, proxied)
           /\ proxied \/ e \in {"client", "host"}
           /\ TokensOK(net, HeldTokens, rhs, Shut, proxied)
           /\ TokensOK(Got(e), HeldTokens, rhs, Shut, proxied)
           /\ e \notin Shut
  <1>1. e \in Ends /\ net \in Queues /\ net[e] # <<>> /\ m = Head(net[e]) /\ e \notin Shut
    BY DEF Receives, PrInv, PrTypeOK, Queues, Shut, Closed
  <1>2. Took(net, Got(e), e)
    BY <1>1 DEF Took, Got
  <1>3. TokensOK(net, HeldTokens, rhs, Shut, proxied)
    BY DEF PrInv, TokenInv
  <1>4. Got(e) \in Queues /\ TokensOK(Got(e), HeldTokens, rhs, Shut, proxied)
    BY <1>1, <1>2, <1>3, TailFacts, FewerTokens
  <1>5. m \in Msgs /\ m = net[e][1] /\ 1 \in 1..Len(net[e])
    BY <1>1, <1>2, HeadFacts
  <1>6. RoutedOne(e, m, proxied)
    BY <1>1, <1>3, <1>5 DEF TokensOK, Routed
  <1>7. proxied \/ e \in {"client", "host"}
    BY DEF Receives, PrInv, ProxyInv, Ends
  <1>8. QED BY <1>1, <1>2, <1>3, <1>4, <1>5, <1>6, <1>7

\* Only the messages on the way change.
LEMMA NetStep ==
    ASSUME PrInv, NEW q, OnlyNet(q), NetFor(q, state, broken, proxied),
           TokensOK(q, HeldTokens, rhs, Shut, proxied)
    PROVE  PrInv'
  <1>1. UNCHANGED <<state, services, tokenid, rhs, failed, proxied, connecting, serving,
                    broken, issued, calls, faults>> /\ net' = q
    BY DEF OnlyNet
  <1>2. PrTypeOK'
    BY <1>1 DEF PrInv, PrTypeOK, NetFor
  <1>3. TokenInv'
    BY <1>1 DEF TokenInv, HeldTokens, Shut
  <1>4. HandlersOK(rhs)' /\ RedirectStates(rhs, state)'
    BY <1>1 DEF PrInv
  <1>5. NetFor(net, state, broken, proxied)'
    BY <1>1
  <1>6. ProxyInv'
    BY <1>1 DEF PrInv, ProxyInv, ProxyPair
  <1>7. CallsOK(rhs, failed, issued, calls)' /\ NoSurprise'
    BY <1>1 DEF PrInv, NoSurprise
  <1>8. QED BY <1>2, <1>3, <1>4, <1>5, <1>6, <1>7 DEF PrInv

\* A command is answered at once.
LEMMA AnswerStep ==
    ASSUME PrInv, NEW e, NEW m, Receives(e, m), m.type = "C",
           NEW t \in {"R", "N"}, NEW b \in BOOLEAN, OnlyNet(Put(Got(e), e, Reply(m, t, b)))
    PROVE  PrInv'
  <1>0. PICK k : k = Reply(m, t, b) OBVIOUS
  <1>1. /\ e \in Ends /\ net \in Queues /\ Took(net, Got(e), e) /\ Got(e) \in Queues
        /\ m = Head(net[e]) /\ m \in Msgs /\ RoutedOne(e, m, proxied)
        /\ proxied \/ e \in {"client", "host"}
        /\ TokensOK(net, HeldTokens, rhs, Shut, proxied)
    BY Received
  <1>2. k \in Msgs /\ k.type = t /\ k.hops = m.hops /\ SameToken(m, k) /\ Fin(k)
    BY <1>0, <1>1, ReplyFacts, SMTT(30) DEF Fin, Finals
  <1>3. Peer[e] \in Ends
    BY <1>1, EndsFacts
  <1>4. Owner(Peer[e], k) = Owner(e, m)
    <2>1. m.hops \in {0, 1}
      BY <1>1, MsgType
    <2>2. CASE m.hops = 1
      <3>1. e \in {"agent", "client"}
        BY <1>1, <2>2 DEF RoutedOne
      <3>2. QED BY <1>2, <2>2, <3>1 DEF Owner, Far, Peer
    <2>3. CASE m.hops = 0
      BY <1>2, <2>3 DEF Owner
    <2>4. QED BY <2>1, <2>2, <2>3
  <1>5. RoutedOne(Peer[e], k, proxied)
    <2>1. k.type # "C" /\ k.type \in Tokens /\ m.type \in Tokens /\ k.cmd = m.cmd
      BY <1>2 DEF Tokens, SameToken
    <2>2. k.hops = 1 => proxied /\ k.cmd \notin Redirects /\ Peer[e] \in {"target", "host"}
      BY <1>1, <1>2, <2>1 DEF RoutedOne, Peer
    <2>3. k.cmd \in Redirects => Peer[e] \in Upper
      BY <1>1, <2>1, EndsFacts DEF RoutedOne
    <2>4. k.cmd \in Cmds
      BY <1>1, <2>1 DEF RoutedOne
    <2>5. QED BY <2>1, <2>2, <2>3, <2>4 DEF RoutedOne
  <1>6. TokensOK(Put(Got(e), e, k), HeldTokens, rhs, Shut, proxied)
    <2>1. Added(Got(e), Put(Got(e), e, k), Peer[e], k)
      BY <1>1, <1>2, PutFacts
    <2>2. QED BY <1>1, <1>2, <1>3, <1>4, <1>5, <2>1, MoveCommand
  <1>7. NetFor(Got(e), state, broken, proxied)
    <2>1. ~Granted(Head(net[e]))
      BY <1>1 DEF Granted
    <2>2. QED BY <1>1, <2>1, NetTake DEF PrInv
  <1>8. NetFor(Put(Got(e), e, k), state, broken, proxied)
    BY <1>1, <1>2, <1>7, NetPut
  <1>9. QED BY <1>0, <1>6, <1>8, NetStep

LEMMA ForwardStep ==
    ASSUME PrInv, NEW e, NEW m, Receives(e, m), m.type = "C", IsProxy(e), m.cmd \notin Redirects,
           Forward(e, m)
    PROVE  PrInv'
  <1>0. PICK k : k = [m EXCEPT !.hops = @ + 1] OBVIOUS
  <1>1. /\ e \in Ends /\ net \in Queues /\ Took(net, Got(e), e) /\ Got(e) \in Queues
        /\ m = Head(net[e]) /\ m \in Msgs /\ RoutedOne(e, m, proxied)
        /\ TokensOK(net, HeldTokens, rhs, Shut, proxied)
    BY Received
  <1>2. proxied /\ e \in {"host", "target"}
    BY DEF IsProxy
  <1>3. m.hops = 0
    <2>1. m.hops \in {0, 1}
      BY <1>1, MsgType
    <2>2. m.hops # 1
      BY <1>1, <1>2 DEF RoutedOne
    <2>3. QED BY <2>1, <2>2
  <1>4. k \in Msgs /\ k.type = "C" /\ k.hops = 1 /\ SameToken(m, k) /\ Fin(k)
    <2>1. k = [m EXCEPT !.hops = 1]
      BY <1>0, <1>3
    <2>2. QED BY <1>1, <2>1 DEF Msgs, SameToken, Fin, Finals
  <1>5. Other(e) \in Ends /\ Peer[Other(e)] \in Ends /\ Peer[Other(e)] = Far[e]
        /\ Far[e] \in {"agent", "client"}
    BY <1>2, EndsFacts DEF Far
  <1>6. Owner(Peer[Other(e)], k) = Owner(e, m)
    BY <1>2, <1>3, <1>4, <1>5 DEF Owner, Far, Peer
  <1>7. RoutedOne(Peer[Other(e)], k, proxied)
    BY <1>1, <1>2, <1>4, <1>5 DEF RoutedOne, Tokens, SameToken
  <1>8. TokensOK(Put(Got(e), Other(e), k), HeldTokens, rhs, Shut, proxied)
    <2>1. Added(Got(e), Put(Got(e), Other(e), k), Peer[Other(e)], k)
      BY <1>1, <1>4, <1>5, PutFacts
    <2>2. QED BY <1>1, <1>4, <1>5, <1>6, <1>7, <2>1, MoveCommand
  <1>9. NetFor(Got(e), state, broken, proxied)
    <2>1. ~Granted(Head(net[e]))
      BY <1>1 DEF Granted
    <2>2. QED BY <1>1, <2>1, NetTake DEF PrInv
  <1>10. NetFor(Put(Got(e), Other(e), k), state, broken, proxied)
    BY <1>1, <1>2, <1>4, <1>5, <1>9, NetPut
  <1>11. QED BY <1>0, <1>8, <1>10, NetStep DEF Forward

\* A reply with a prefix goes to the end that made the token.
LEMMA PassReplyStep ==
    ASSUME PrInv, NEW e, NEW m, Receives(e, m), m.type \in {"R", "P", "N"}, IsProxy(e), m.hops > 0,
           OnlyNet(Put(Got(e), Other(e), [m EXCEPT !.hops = @ - 1]))
    PROVE  PrInv'
  <1>0. PICK k : k = [m EXCEPT !.hops = @ - 1] OBVIOUS
  <1>1. /\ e \in Ends /\ net \in Queues /\ Took(net, Got(e), e) /\ Got(e) \in Queues
        /\ m = Head(net[e]) /\ m \in Msgs /\ RoutedOne(e, m, proxied)
        /\ TokensOK(net, HeldTokens, rhs, Shut, proxied)
    BY Received
  <1>2. proxied /\ e \in {"host", "target"}
    BY DEF IsProxy
  <1>3. m.hops = 1
    <2>1. m.hops \in {0, 1}
      BY <1>1, MsgType
    <2>2. QED BY <2>1
  <1>4. k \in Msgs /\ k.type = m.type /\ k.hops = 0 /\ SameToken(m, k)
    <2>1. k = [m EXCEPT !.hops = 0]
      BY <1>0, <1>3
    <2>2. QED BY <1>1, <2>1 DEF Msgs, SameToken
  <1>5. Other(e) \in Ends /\ Peer[Other(e)] \in Ends /\ Peer[Other(e)] = Far[e]
    BY <1>2, EndsFacts
  <1>7. RoutedOne(Far[e], k, proxied)
    BY <1>1, <1>3, <1>4 DEF RoutedOne, Tokens, SameToken
  <1>8. TokensOK(Put(Got(e), Other(e), k), HeldTokens, rhs, Shut, proxied)
    <2>1. Added(Got(e), Put(Got(e), Other(e), k), Far[e], k)
      BY <1>1, <1>4, <1>5, PutFacts
    <2>2. CASE m.type = "P"
      BY <1>1, <1>3, <1>4, <1>7, <2>1, <2>2, MoveProgress
    <2>3. CASE m.type \in {"R", "N"}
      BY <1>1, <1>3, <1>4, <1>7, <2>1, <2>3, MoveReply
    <2>4. QED BY <2>2, <2>3
  <1>9. NetFor(Got(e), state, broken, proxied)
    <2>1. ~Granted(Head(net[e]))
      BY <1>1, <1>3 DEF Granted
    <2>2. QED BY <1>1, <2>1, NetTake DEF PrInv
  <1>10. NetFor(Put(Got(e), Other(e), k), state, broken, proxied)
    BY <1>1, <1>2, <1>4, <1>5, <1>9, NetPut
  <1>11. QED BY <1>0, <1>8, <1>10, NetStep

\* A report of progress calls the progress handler only.
LEMMA ProgressStep ==
    ASSUME PrInv, NEW e, NEW m, Receives(e, m), m.type = "P", OnlyNet(Got(e))
    PROVE  PrInv'
  <1>1. /\ e \in Ends /\ net \in Queues /\ Took(net, Got(e), e)
        /\ m = Head(net[e]) /\ TokensOK(Got(e), HeldTokens, rhs, Shut, proxied)
    BY Received
  <1>2. NetFor(Got(e), state, broken, proxied)
    <2>1. ~Granted(Head(net[e]))
      BY <1>1 DEF Granted
    <2>2. QED BY <1>1, <2>1, NetTake DEF PrInv
  <1>3. QED BY <1>1, <1>2, NetStep

-----------------------------------------------------------------------------
(***************************************************************************)
(* Services                                                                *)
(***************************************************************************)

\* Only the messages on the way and the commands that are served change.
LEMMA ServiceStep ==
    ASSUME PrInv,
           UNCHANGED <<state, services, tokenid, rhs, failed, proxied, connecting, broken,
                       issued, calls, faults>>,
           serving' \in [Ends -> SUBSET Msgs],
           ~proxied => serving'["target"] = {} /\ serving'["agent"] = {},
           NetFor(net', state, broken, proxied),
           TokensOK(net', HeldOf(serving', connecting, rhs["target"]), rhs, Shut, proxied)
    PROVE  PrInv'
  <1>2. PrTypeOK'
    BY DEF PrInv, PrTypeOK, NetFor
  <1>3. TokenInv'
    BY DEF TokenInv, HeldTokens, Shut
  <1>4. HandlersOK(rhs)' /\ RedirectStates(rhs, state)'
    BY DEF PrInv
  <1>5. NetFor(net, state, broken, proxied)'
    OBVIOUS
  <1>6. ProxyInv'
    BY DEF PrInv, ProxyInv, ProxyPair
  <1>7. CallsOK(rhs, failed, issued, calls)' /\ NoSurprise'
    BY DEF PrInv, NoSurprise
  <1>8. QED BY <1>2, <1>3, <1>4, <1>5, <1>6, <1>7 DEF PrInv

\* A command that a service has received.
LEMMA Serves ==
    ASSUME PrInv, NEW e \in Ends, NEW m \in serving[e]
    PROVE  /\ m \in Msgs /\ m.cmd \in Cmds \ Redirects
           /\ m.hops = 1 => proxied /\ e \in {"agent", "client"}
           /\ proxied \/ e \in {"client", "host"}
  <1>1. m \in Msgs
    BY DEF PrInv, PrTypeOK
  <1>2. PICK h : h = Held("served", e, ServedFor(e, m), m) OBVIOUS
  <1>3. h \in HeldTokens
    BY <1>2, HeldKinds DEF HeldTokens
  <1>4. HeldOK(HeldTokens, proxied)
    BY DEF PrInv, TokenInv, TokensOK
  <1>5. h.kind = "served" /\ h.at = e /\ h.msg = m
    BY <1>2, HeldFields
  <1>6. /\ m.cmd \in Cmds \ Redirects
        /\ m.hops = 1 => proxied /\ e \in {"agent", "client"}
    BY <1>3, <1>4, <1>5 DEF HeldOK
  <1>7. proxied \/ e \in {"client", "host"}
    BY DEF PrInv, ProxyInv, Ends
  <1>8. QED BY <1>1, <1>6, <1>7

\* The reply to a command that is served goes to the peer.
LEMMA ServedReply ==
    ASSUME NEW e \in Ends, NEW m \in Msgs, m.cmd \in Cmds \ Redirects,
           m.hops = 1 => proxied /\ e \in {"agent", "client"},
           NEW k \in Msgs, k.type \in {"R", "P", "N"}, k.hops = m.hops, SameToken(m, k)
    PROVE  Owner(Peer[e], k) = ServedFor(e, m) /\ RoutedOne(Peer[e], k, proxied)
  <1>1. m.hops \in {0, 1}
    BY MsgType
  <1>2. Owner(Peer[e], k) = ServedFor(e, m)
    BY <1>1 DEF Owner, ServedFor, Far, Peer, Ends
  <1>3. RoutedOne(Peer[e], k, proxied)
    BY DEF RoutedOne, Tokens, SameToken, Peer
  <1>4. QED BY <1>2, <1>3

LEMMA ServeStep ==
    ASSUME PrInv, NEW e, NEW m, Receives(e, m), m.type = "C", m.cmd \notin Redirects, Serve(e, m)
    PROVE  PrInv'
  <1>1. /\ e \in Ends /\ net \in Queues /\ Took(net, Got(e), e) /\ Got(e) \in Queues
        /\ m = Head(net[e]) /\ m \in Msgs /\ RoutedOne(e, m, proxied)
        /\ proxied \/ e \in {"client", "host"}
        /\ TokensOK(net, HeldTokens, rhs, Shut, proxied)
    BY Received
  <1>2. PICK h : h = Held("served", e, ServedFor(e, m), m) OBVIOUS
  <1>3. h.kind = "served" /\ h.at = e /\ h.msg = m /\ h.own = ServedFor(e, m)
    BY <1>2, HeldFields
  <1>4. HeldOK({h}, proxied)
    <2>1. ServedFor(e, m) \in Ends
      BY <1>1 DEF ServedFor, Far, Peer, Ends
    <2>2. m.cmd \in Cmds /\ (m.hops = 1 => proxied /\ e \in {"agent", "client"})
      BY <1>1 DEF RoutedOne, Tokens
    <2>3. QED BY <1>1, <1>3, <2>1, <2>2 DEF HeldOK
  <1>5. Owner(e, m) = ServedFor(e, m) /\ SameToken(m, m)
    BY DEF Owner, ServedFor, SameToken
  <1>6. TokensOK(Got(e), HeldTokens \cup {h}, rhs, Shut, proxied)
    BY <1>1, <1>3, <1>4, <1>5, MoveToHeld
  <1>7. DOMAIN serving = Ends /\ serving \in [Ends -> SUBSET Msgs]
    BY DEF PrInv, PrTypeOK
  <1>8. HeldOf(serving', connecting, rhs["target"]) = HeldTokens \cup {h}
    <2>1. AlsoServed(serving, serving', e, m)
      BY <1>1, <1>7 DEF Serve, AlsoServed
    <2>2. QED BY <1>1, <1>2, <2>1, ServeHeld DEF HeldTokens
  <1>9. NetFor(Got(e), state, broken, proxied)
    <2>1. ~Granted(Head(net[e]))
      BY <1>1 DEF Granted
    <2>2. QED BY <1>1, <2>1, NetTake DEF PrInv
  <1>10. serving' \in [Ends -> SUBSET Msgs]
         /\ (~proxied => serving'["target"] = {} /\ serving'["agent"] = {})
    BY <1>1, <1>7 DEF Serve, PrInv, ProxyInv, Ends
  <1>11. QED BY <1>6, <1>8, <1>9, <1>10, ServiceStep DEF Serve

LEMMA ProgressSentStep ==
    ASSUME PrInv, NEW e \in Ends, Progress(e)
    PROVE  PrInv'
  <1>1. PICK m \in serving[e] :
          /\ serving' = [serving EXCEPT ![e] = (@ \ {m}) \cup {Reply(m, "P", TRUE)}]
          /\ net' = Put(net, e, Reply(m, "P", TRUE))
          /\ UNCHANGED <<state, services, tokenid, rhs, failed, proxied, connecting, broken,
                         issued, calls, faults>>
    BY DEF Progress
  <1>k. PICK k : k = Reply(m, "P", TRUE) OBVIOUS
  <1>2. /\ m \in Msgs /\ m.cmd \in Cmds \ Redirects
        /\ m.hops = 1 => proxied /\ e \in {"agent", "client"}
        /\ proxied \/ e \in {"client", "host"}
    BY Serves
  <1>3. k \in Msgs /\ k.type = "P" /\ k.hops = m.hops /\ SameToken(m, k)
    BY <1>k, <1>2, ReplyFacts
  <1>4. Owner(Peer[e], k) = ServedFor(e, m) /\ RoutedOne(Peer[e], k, proxied) /\ Peer[e] \in Ends
    BY <1>2, <1>3, ServedReply, EndsFacts
  <1>h. PICK h : h = Held("served", e, ServedFor(e, m), m) OBVIOUS
  <1>g. PICK g : g = Held("served", e, ServedFor(e, k), k) OBVIOUS
  <1>5. /\ h.kind = "served" /\ h.at = e /\ h.msg = m /\ h.own = ServedFor(e, m)
        /\ g.kind = "served" /\ g.at = e /\ g.msg = k /\ g.own = ServedFor(e, m)
    BY <1>h, <1>g, <1>3, HeldFields DEF ServedFor
  <1>6. DOMAIN serving = Ends /\ serving \in [Ends -> SUBSET Msgs] /\ net \in Queues
        /\ TokensOK(net, HeldTokens, rhs, Shut, proxied)
    BY DEF PrInv, PrTypeOK, TokenInv, Queues
  <1>7. PICK sw : sw = [serving EXCEPT ![e] = @ \ {m}] OBVIOUS
  <1>8. PICK K : K = HeldOf(sw, connecting, rhs["target"]) OBVIOUS
  <1>9. h \in HeldTokens /\ K \in SUBSET (HeldTokens \ {h})
    BY <1>6, <1>7, <1>8, <1>h, UnserveHeld DEF HeldTokens
  <1>10. /\ TokensOK(net, K, rhs, Shut, proxied)
         /\ Fresh(net, K, h.own, h.msg)
         /\ h.own \notin Shut => HasHandler(rhs, h.own, h.msg)
         /\ \A y \in Ends : \A j \in 1..Len(net[y]) :
                 net[y][j].type = "P" /\ Owner(y, net[y][j]) = h.own /\ net[y][j].n = h.msg.n
                 => h.msg.hops >= net[y][j].hops
    BY <1>6, <1>9, TakeHeld
  <1>11. Fresh(net, K, g.own, g.msg) /\ (g.own \notin Shut => HasHandler(rhs, g.own, g.msg))
    BY <1>3, <1>5, <1>10, FreshSame
  <1>12. HeldOK({g}, proxied)
    <2>1. ServedFor(e, k) = ServedFor(e, m) /\ ServedFor(e, m) \in Ends /\ k.cmd = m.cmd
      BY <1>3 DEF ServedFor, Far, Peer, Ends, SameToken
    <2>2. QED BY <1>2, <1>3, <1>5, <2>1 DEF HeldOK
  <1>13. TokensOK(net, K \cup {g}, rhs, Shut, proxied)
    <2>1. \A y \in Ends : \A j \in 1..Len(net[y]) :
             net[y][j].type = "P" /\ Owner(y, net[y][j]) = g.own /\ net[y][j].n = g.msg.n
             => g.kind = "served" /\ g.msg.hops >= net[y][j].hops
      BY <1>3, <1>5, <1>10 DEF SameToken
    <2>2. QED BY <1>6, <1>10, <1>11, <1>12, <2>1, AddHeld
  <1>14. TokensOK(Put(net, e, k), K \cup {g}, rhs, Shut, proxied)
    <2>1. Added(net, Put(net, e, k), Peer[e], k)
      BY <1>3, <1>6, PutFacts
    <2>2. \A y \in Ends : \A j \in 1..Len(net[y]) :
             Fin(net[y][j]) => ~(Owner(y, net[y][j]) = Owner(Peer[e], k) /\ net[y][j].n = k.n)
      BY <1>4, <1>5, <1>11 DEF Fresh, Clash
    <2>3. ASSUME NEW x \in K \cup {g}, x.own = Owner(Peer[e], k), x.msg.n = k.n
          PROVE  x.kind = "served" /\ x.msg.hops >= k.hops
      <3>1. x = g
        BY <1>4, <1>5, <1>11, <2>3 DEF Fresh, Clash
      <3>2. k.hops \in {0, 1}
        BY <1>3, MsgType
      <3>3. QED BY <1>5, <3>1, <3>2
    <2>4. Owner(Peer[e], k) \notin Shut => HasHandler(rhs, Owner(Peer[e], k), k)
      BY <1>4, <1>5, <1>11
    <2>5. QED BY <1>3, <1>4, <1>6, <1>13, <2>1, <2>2, <2>3, <2>4, AddProgress
  <1>15. serving' = [sw EXCEPT ![e] = @ \cup {k}] /\ DOMAIN sw = Ends
    BY <1>1, <1>k, <1>6, <1>7
  <1>16. HeldOf(serving', connecting, rhs["target"]) = K \cup {g}
    <2>1. AlsoServed(sw, serving', e, k)
      BY <1>15 DEF AlsoServed
    <2>2. QED BY <1>8, <1>g, <2>1, ServeHeld
  <1>17. NetFor(Put(net, e, k), state, broken, proxied)
    BY <1>2, <1>3, <1>6, NetPut DEF PrInv
  <1>18. serving' \in [Ends -> SUBSET Msgs]
         /\ (~proxied => serving'["target"] = {} /\ serving'["agent"] = {})
    <2>1. serving' \in [Ends -> SUBSET Msgs]
      BY <1>1, <1>k, <1>3, <1>6
    <2>2. ~proxied => e # "target" /\ e # "agent" /\ serving["target"] = {} /\ serving["agent"] = {}
      BY <1>2 DEF PrInv, ProxyInv
    <2>3. "target" \in Ends /\ "agent" \in Ends BY DEF Ends
    <2>4. QED BY <1>1, <1>6, <2>1, <2>2, <2>3
  <1>19. QED BY <1>1, <1>k, <1>14, <1>16, <1>17, <1>18, ServiceStep

LEMMA AnswerSentStep ==
    ASSUME PrInv, NEW e \in Ends, Answer(e)
    PROVE  PrInv'
  <1>1. PICK m \in serving[e] :
          /\ serving' = [serving EXCEPT ![e] = @ \ {m}]
          /\ net' = IF Closed(e) THEN net ELSE Put(net, e, Reply(m, "R", TRUE))
          /\ UNCHANGED <<state, services, tokenid, rhs, failed, proxied, connecting, broken,
                         issued, calls, faults>>
    BY DEF Answer
  <1>k. PICK k : k = Reply(m, "R", TRUE) OBVIOUS
  <1>2. /\ m \in Msgs /\ m.cmd \in Cmds \ Redirects
        /\ m.hops = 1 => proxied /\ e \in {"agent", "client"}
        /\ proxied \/ e \in {"client", "host"}
    BY Serves
  <1>3. k \in Msgs /\ k.type = "R" /\ k.hops = m.hops /\ SameToken(m, k)
    BY <1>k, <1>2, ReplyFacts
  <1>4. Owner(Peer[e], k) = ServedFor(e, m) /\ RoutedOne(Peer[e], k, proxied) /\ Peer[e] \in Ends
    BY <1>2, <1>3, ServedReply, EndsFacts
  <1>h. PICK h : h = Held("served", e, ServedFor(e, m), m) OBVIOUS
  <1>5. h.kind = "served" /\ h.at = e /\ h.msg = m /\ h.own = ServedFor(e, m)
    BY <1>h, HeldFields
  <1>6. DOMAIN serving = Ends /\ serving \in [Ends -> SUBSET Msgs] /\ net \in Queues
        /\ TokensOK(net, HeldTokens, rhs, Shut, proxied)
    BY DEF PrInv, PrTypeOK, TokenInv, Queues
  <1>8. PICK K : K = HeldOf(serving', connecting, rhs["target"]) OBVIOUS
  <1>9. h \in HeldTokens /\ K \in SUBSET (HeldTokens \ {h})
    BY <1>1, <1>6, <1>8, <1>h, UnserveHeld DEF HeldTokens
  <1>10. TokensOK(net, K, rhs, Shut, proxied)
    BY <1>6, <1>9, TakeHeld
  <1>11. TokensOK(Put(net, e, k), K, rhs, Shut, proxied)
    <2>1. Added(net, Put(net, e, k), Peer[e], k)
      BY <1>3, <1>6, PutFacts
    <2>2. QED BY <1>3, <1>4, <1>5, <1>6, <1>9, <2>1, MoveFromHeld
  <1>12. NetFor(net, state, broken, proxied) /\ NetFor(Put(net, e, k), state, broken, proxied)
    BY <1>2, <1>3, <1>6, NetPut DEF PrInv
  <1>13. serving' \in [Ends -> SUBSET Msgs]
         /\ (~proxied => serving'["target"] = {} /\ serving'["agent"] = {})
    BY <1>1, <1>6 DEF PrInv, ProxyInv, Ends
  <1>14. CASE Closed(e)
    BY <1>1, <1>8, <1>10, <1>12, <1>13, <1>14, ServiceStep
  <1>15. CASE ~Closed(e)
    BY <1>1, <1>k, <1>8, <1>11, <1>12, <1>13, <1>15, ServiceStep
  <1>16. QED BY <1>14, <1>15

-----------------------------------------------------------------------------
(***************************************************************************)
(* Changes of the channel states                                           *)
(***************************************************************************)

\* A host or an agent that has its Hello and owes none.
Settled == {"Connected", "RedirectReceived"}

LEMMA LowerSettled ==
    ASSUME NEW qu, NEW qd, NEW su, NEW sd \in Settled, NEW sd2 \in Settled, NEW cut,
           HelloLink(qu, qd, su, sd, cut)
    PROVE  HelloLink(qu, qd, su, sd2, cut)
  <1>1. HelloUp(qu, su, sd2, cut)
    BY DEF HelloLink, HelloUp, Settled
  <1>2. HelloDown(qd, su, sd2)
    BY DEF HelloLink, HelloDown, Settled
  <1>3. QED BY <1>1, <1>2 DEF HelloLink

\* A redirect is sent.
LEMMA UpperAsks ==
    ASSUME NEW qu, NEW qd, NEW sd, NEW cut, HelloLink(qu, qd, "Connected", sd, cut)
    PROVE  HelloLink(qu, qd, "RedirectSent", sd, cut)
  <1>1. HelloUp(qu, "RedirectSent", sd, cut)
    BY DEF HelloLink, HelloUp
  <1>2. HelloDown(qd, "RedirectSent", sd)
    BY DEF HelloLink, HelloDown
  <1>3. QED BY <1>1, <1>2 DEF HelloLink

\* A redirect is refused.
LEMMA UpperRefused ==
    ASSUME NEW qu \in Seq(Msgs), qu # <<>>, NEW qd, NEW sd, NEW cut,
           HelloLink(qu, qd, "RedirectSent", sd, cut), NoGranted(qu)
    PROVE  HelloLink(Tail(qu), qd, "Connected", sd, cut)
  <1>1. NoHello(qu)
    <2>1. ASSUME NEW i \in 1..Len(qu), qu[i].type = "Hello" PROVE FALSE
      <3>1. PICK j \in 1..(i - 1) : Granted(qu[j])
        BY <2>1 DEF HelloLink, HelloUp
      <3>2. j \in 1..Len(qu)
        BY <2>1
      <3>3. QED BY <3>1, <3>2 DEF NoGranted
    <2>2. QED BY <2>1 DEF NoHello
  <1>2. NoHello(Tail(qu))
    BY <1>1, TakeNoHello
  <1>3. sd # "StartWait" /\ ~(sd = "HelloReceived" /\ ~cut)
    BY DEF HelloLink, HelloUp, NoGranted
  <1>4. HelloUp(Tail(qu), "Connected", sd, cut)
    BY <1>2, <1>3, QuietUp
  <1>5. HelloDown(qd, "Connected", sd)
    BY DEF HelloLink, HelloDown
  <1>6. QED BY <1>4, <1>5 DEF HelloLink

\* A redirect is granted, and its sender waits for a Hello.
LEMMA UpperGranted ==
    ASSUME NEW qu \in Seq(Msgs), qu # <<>>, NEW qd, NEW sd, NEW cut,
           HelloLink(qu, qd, "RedirectSent", sd, cut)
    PROVE  HelloLink(Tail(qu), qd, "HelloSent", sd, cut)
  <1>1. HelloUp(qu, "HelloSent", sd, cut)
    BY DEF HelloLink, HelloUp
  <1>2. HelloUp(Tail(qu), "HelloSent", sd, cut)
    BY <1>1, TakeUp
  <1>3. HelloDown(qd, "HelloSent", sd)
    BY DEF HelloLink, HelloDown
  <1>4. QED BY <1>2, <1>3 DEF HelloLink

\* A host or an agent grants a redirect by the message k, which its sender waits for.
LEMMA LowerGrants ==
    ASSUME NEW qu \in Seq(Msgs), NEW qd, NEW su, NEW sd \in Settled, NEW cut,
           HelloLink(qu, qd, su, sd, cut), NoGranted(qu),
           su = "Disconnected" => qu = <<>>, su \in {"RedirectSent", "Disconnected"},
           NEW k \in Msgs, Granted(k), NEW p, Grown(qu, p, k),
           ~cut /\ su # "Disconnected" => p = Append(qu, k)
    PROVE  HelloLink(p, qd, su, "HelloReceived", cut)
  <1>1. NoHello(qu)
    <2>1. ASSUME NEW i \in 1..Len(qu), qu[i].type = "Hello" PROVE FALSE
      <3>1. PICK j \in 1..(i - 1) : Granted(qu[j])
        BY <2>1 DEF HelloLink, HelloUp
      <3>2. j \in 1..Len(qu)
        BY <2>1
      <3>3. QED BY <3>1, <3>2 DEF NoGranted
    <2>2. QED BY <2>1 DEF NoHello
  <1>2. NoHello(p)
    BY <1>1, AppendFacts DEF NoHello, Grown, Granted
  <1>3. ~cut => su = "Disconnected" \/ (su = "RedirectSent" /\ ~NoGranted(p))
    BY AppendFacts DEF NoGranted
  <1>4. HelloUp(p, su, "HelloReceived", cut)
    BY <1>2, <1>3, QuietUp
  <1>5. HelloDown(qd, su, "HelloReceived")
    BY DEF HelloLink, HelloDown, Settled
  <1>6. QED BY <1>4, <1>5 DEF HelloLink

\* Its own Hello completes a redirection.
LEMMA LowerCompletes ==
    ASSUME NEW qu \in Seq(Msgs), NEW qd, NEW su, NEW cut,
           HelloLink(qu, qd, su, "HelloReceived", cut),
           NEW m \in Msgs, m.type = "Hello", NEW p, Grown(qu, p, m),
           p # qu => ~cut /\ su # "Disconnected"
    PROVE  HelloLink(p, qd, su, "Connected", cut)
  <1>1. NoHello(qu)
    BY DEF HelloLink, HelloUp, NoHello
  <1>2. p # qu => \/ su \in {"StartWait", "HelloSent"}
                  \/ su = "RedirectSent" /\ \E j \in 1..Len(qu) : Granted(qu[j])
    BY DEF HelloLink, HelloUp
  <1>3. HelloUp(p, su, "Connected", cut)
    BY <1>1, <1>2, HelloSentUp
  <1>4. HelloDown(qd, su, "Connected")
    BY DEF HelloLink, HelloDown
  <1>5. QED BY <1>3, <1>4 DEF HelloLink

\* The Hello that a client or a target waits for is taken.
LEMMA UpperConnects ==
    ASSUME NEW qu \in Seq(Msgs), qu # <<>>, NEW qd, NEW su, NEW sd, NEW cut,
           HelloLink(qu, qd, su, sd, cut), Head(qu).type = "Hello"
    PROVE  HelloLink(Tail(qu), qd, "Connected", sd, cut)
  <1>1. NoHello(Tail(qu))
    BY TakeHelloUp DEF HelloLink
  <1>2. sd \notin {"StartWait", "HelloReceived"}
    BY ShiftFacts DEF HelloLink, HelloUp
  <1>3. HelloUp(Tail(qu), "Connected", sd, cut)
    BY <1>1, <1>2, QuietUp
  <1>4. HelloDown(qd, "Connected", sd)
    BY DEF HelloLink, HelloDown
  <1>5. QED BY <1>3, <1>4 DEF HelloLink

\* The Hello that a host or an agent waits for is taken.
LEMMA LowerConnects ==
    ASSUME NEW qu, NEW qd \in Seq(Msgs), qd # <<>>, NEW su, NEW cut,
           HelloLink(qu, qd, su, "HelloSent", cut), Head(qd).type = "Hello"
    PROVE  HelloLink(qu, Tail(qd), su, "Connected", cut)
  <1>1. NoHello(Tail(qd))
    BY TakeHelloDown DEF HelloLink
  <1>2. su # "StartWait"
    BY ShiftFacts DEF HelloLink, HelloDown
  <1>3. HelloDown(Tail(qd), su, "Connected")
    BY <1>1, <1>2, QuietDown
  <1>4. HelloUp(qu, su, "Connected", cut)
    BY DEF HelloLink, HelloUp
  <1>5. QED BY <1>3, <1>4 DEF HelloLink

\* start_channel() of a client or of a target.
LEMMA UpperStarts ==
    ASSUME NEW qu, NEW qd \in Seq(Msgs), NEW sd, NEW cut, HelloLink(qu, qd, "StartWait", sd, cut),
           NEW m \in Msgs, m.type = "Hello", NEW p, Grown(qd, p, m),
           p # qd => sd # "Disconnected"
    PROVE  HelloLink(qu, p, "HelloSent", sd, cut)
  <1>1. NoHello(qd)
    BY DEF HelloLink, HelloDown, NoHello
  <1>2. p # qd => sd \in {"StartWait", "HelloSent"}
    BY DEF HelloLink, HelloDown
  <1>3. HelloDown(p, "HelloSent", sd)
    BY <1>1, <1>2, HelloSentDown
  <1>4. HelloUp(qu, "HelloSent", sd, cut)
    BY DEF HelloLink, HelloUp
  <1>5. QED BY <1>3, <1>4 DEF HelloLink

\* start_channel() of a host or of an agent.
LEMMA LowerStarts ==
    ASSUME NEW qu \in Seq(Msgs), NEW qd, NEW su, NEW cut, HelloLink(qu, qd, su, "StartWait", cut),
           NEW m \in Msgs, m.type = "Hello", NEW p, Grown(qu, p, m),
           p # qu => su # "Disconnected"
    PROVE  HelloLink(p, qd, su, "HelloSent", cut)
  <1>1. NoHello(qu)
    BY DEF HelloLink, HelloUp, NoHello
  <1>2. p # qu => su \in {"StartWait", "HelloSent"}
    BY DEF HelloLink, HelloUp
  <1>3. HelloUp(p, su, "HelloSent", cut)
    BY <1>1, <1>2, HelloSentUp
  <1>4. HelloDown(qd, su, "HelloSent")
    BY DEF HelloLink, HelloDown
  <1>5. QED BY <1>3, <1>4 DEF HelloLink

\* An end of the link closes, and what is on the way to it is dropped.
LEMMA LinkCloses ==
    ASSUME NEW qu, NEW qd, NEW su, NEW sd, NEW cut, HelloLink(qu, qd, su, sd, cut)
    PROVE  /\ HelloLink(<<>>, qd, "Disconnected", sd, cut)
           /\ HelloLink(qu, <<>>, su, "Disconnected", cut)
  <1>1. HelloUp(<<>>, "Disconnected", sd, cut)
    BY EmptyQuiet, QuietUp
  <1>2. HelloDown(qd, "Disconnected", sd)
    BY DEF HelloLink, HelloDown
  <1>3. HelloUp(qu, su, "Disconnected", cut)
    BY DEF HelloLink, HelloUp
  <1>4. HelloDown(<<>>, su, "Disconnected")
    BY EmptyQuiet, QuietDown
  <1>5. QED BY <1>1, <1>2, <1>3, <1>4 DEF HelloLink

\* The link is lost, with or without the messages that are on the way.
LEMMA LinkLost ==
    ASSUME NEW qu, NEW qd, NEW su, NEW sd, NEW cut, HelloLink(qu, qd, su, sd, cut),
           NEW pu, pu \in {qu, <<>>}, NEW pd, pd \in {qd, <<>>}, 
           su # "StartWait", sd # "StartWait"
    PROVE  HelloLink(pu, pd, su, sd, TRUE)
  <1>1. HelloUp(qu, su, sd, TRUE)
    BY DEF HelloLink, HelloUp
  <1>2. HelloUp(<<>>, su, sd, TRUE)
    BY EmptyQuiet, QuietUp
  <1>3. HelloDown(<<>>, su, sd)
    BY EmptyQuiet, QuietDown
  <1>4. QED BY <1>1, <1>2, <1>3 DEF HelloLink

-----------------------------------------------------------------------------
(***************************************************************************)
(* Structures that are added, detached and freed, and their calls          *)
(***************************************************************************)

LEMMA HandlersFewer ==
    ASSUME NEW e, NEW S, HandlersAt(e, S), NEW T \in SUBSET S
    PROVE  HandlersAt(e, T)
  BY DEF HandlersAt

LEMMA DetachFacts ==
    ASSUME NEW L, L \subseteq Handlers
    PROVE  /\ Detach(L) \subseteq Handlers
           /\ \A s \in Detach(L) : s.kind = "dead" /\ \E r \in L : s.n = r.n /\ s.cmd = r.cmd
           /\ \A r \in L : \E s \in Detach(L) : s.n = r.n /\ s.cmd = r.cmd
           /\ IsFiniteSet(L) => IsFiniteSet(Detach(L))
  <1>1. ASSUME NEW r \in L
        PROVE  LET s == [r EXCEPT !.kind = "dead"] IN
               s \in Handlers /\ s.kind = "dead" /\ s.n = r.n /\ s.cmd = r.cmd
    BY DEF Handlers
  <1>2. IsFiniteSet(L) => IsFiniteSet(Detach(L))
    <2>1. PICK f : f = [r \in L |-> [r EXCEPT !.kind = "dead"]] OBVIOUS
    <2>2. f \in Surjection(L, Detach(L))
      BY <2>1 DEF Surjection, Detach
    <2>3. QED BY <2>2, FS_Surjection
  <1>3. QED BY <1>1, <1>2 DEF Detach

LEMMA HandlersDetach ==
    ASSUME NEW e, NEW S, S \subseteq Handlers, HandlersAt(e, S), NEW L \in SUBSET S,
           \A r \in L : r.cmd \notin Redirects
    PROVE  HandlersAt(e, Detach(L))
  <1>1. ASSUME NEW s \in Detach(L), NEW t \in Detach(L), s.n = t.n
        PROVE  s = t
    <2>1. PICK r \in L : s = [r EXCEPT !.kind = "dead"]
      BY DEF Detach
    <2>2. PICK u \in L : t = [u EXCEPT !.kind = "dead"]
      BY DEF Detach
    <2>3. r.n = u.n
      BY <1>1, <2>1, <2>2 DEF Handlers
    <2>4. r = u
      BY <2>3 DEF HandlersAt
    <2>5. QED BY <2>1, <2>2, <2>4
  <1>2. \A s \in Detach(L) : s.kind = "dead" /\ s.cmd \notin Redirects
    BY DetachFacts
  <1>3. QED BY <1>1, <1>2 DEF HandlersAt, RedirectHandler

LEMMA HandlersMore ==
    ASSUME NEW e, NEW S, HandlersAt(e, S), NEW h, \A r \in S : r.n # h.n,
           RedirectHandler(h) => \A r \in S : ~RedirectHandler(r),
           h.kind = "app" => Origin[h.cmd] = e,
           h.kind = "relay" => e = "target" /\ h.cmd \in Redirects,
           h.kind = "dead" => h.cmd \notin Redirects
    PROVE  HandlersAt(e, S \cup {h})
  BY DEF HandlersAt

\* The handlers of the ends D are called no more.
GoneAt(D, rh, rh2) ==
    /\ \A e \in Ends \ D : rh2[e] \subseteq rh[e]
    /\ \A e \in D : \A r \in rh2[e] : r.kind # "app"

\* Only handlers of the ends D are called.
CalledAt(D, rh, ca, ca2) ==
    \A c \in Cmds : ca2[c] = ca[c] \/ \E e \in D : \E r \in rh[e] : r.kind = "app" /\ r.cmd = c

\* The handlers of the other ends still wait.
LEMMA CallsClosed ==
    ASSUME NEW rh \in [Ends -> SUBSET Handlers], NEW fl \in SUBSET Cmds, NEW iss, NEW ca,
           CallsOK(rh, fl, iss, ca), HandlersOK(rh), NEW D \in SUBSET Ends,
           NEW rh2, GoneAt(D, rh, rh2), NEW ca2, CalledAt(D, rh, ca, ca2)
    PROVE  CallsOK(rh2, fl, iss, ca2)
  <1>1. ASSUME NEW c \in Cmds, c \notin iss PROVE ca2[c] = <<>>
    BY <1>1 DEF CallsOK, CalledAt
  <1>2. ASSUME NEW c \in fl PROVE c \in iss /\ ca2[c] = <<>>
    BY <1>2 DEF CallsOK, CalledAt
  <1>3. ASSUME NEW e \in Ends, NEW r \in rh2[e], r.kind = "app"
        PROVE  /\ r.cmd \in iss \ fl /\ ca2[r.cmd] = <<>>
               /\ \A s \in rh2[e] : s.kind = "app" /\ s.cmd = r.cmd => s = r
    <2>1. e \notin D /\ r \in rh[e] /\ r.cmd \in Cmds
      BY <1>3 DEF Handlers, GoneAt
    <2>2. Origin[r.cmd] = e
      BY <1>3, <2>1 DEF HandlersOK, HandlersAt
    <2>3. ASSUME NEW x \in D, NEW s \in rh[x], s.kind = "app", s.cmd = r.cmd PROVE FALSE
      BY <2>1, <2>2, <2>3 DEF HandlersOK, HandlersAt
    <2>4. ca2[r.cmd] = ca[r.cmd]
      BY <2>1, <2>3 DEF CalledAt
    <2>5. rh2[e] \subseteq rh[e]
      BY <2>1 DEF GoneAt
    <2>6. QED BY <1>3, <2>1, <2>4, <2>5 DEF CallsOK
  <1>4. QED BY <1>1, <1>2, <1>3 DEF CallsOK

AnswerTypes == {"reply", "rejected", "closed"}

LEMMA CallFacts ==
    ASSUME calls \in [Cmds -> Seq(AnswerTypes)], NEW S, NEW a \in AnswerTypes
    PROVE  /\ Call(S, a) \in [Cmds -> Seq(AnswerTypes)]
           /\ \A c \in Cmds \ S : Call(S, a)[c] = calls[c]
           /\ \A c \in Cmds \cap S : Call(S, a)[c] = Append(calls[c], a)
  BY DEF Call

\* No host and no agent has a handler of a redirect.
LEMMA NoRedirectBelow ==
    ASSUME PrInv, NEW e \in Lower, NEW r \in rhs[e]
    PROVE  r.cmd \notin Redirects
  <1>1. e \in Ends /\ state[e] # "RedirectSent"
    BY DEF PrInv, PrTypeOK, Lower, LowerStates, Ends
  <1>2. ~RedirectHandler(r)
    BY <1>1 DEF PrInv, RedirectStates
  <1>3. r.kind = "dead" => r.cmd \notin Redirects
    BY <1>1 DEF PrInv, HandlersOK, HandlersAt
  <1>4. QED BY <1>2, <1>3 DEF RedirectHandler

\* An end that does not wait for the answer to a redirect has no handler of one.
LEMMA NoRedirectOut ==
    ASSUME PrInv, NEW e \in Ends, state[e] # "RedirectSent", NEW r \in rhs[e]
    PROVE  r.cmd \notin Redirects
  <1>2. ~RedirectHandler(r)
    BY DEF PrInv, RedirectStates
  <1>3. r.kind = "dead" => r.cmd \notin Redirects
    BY DEF PrInv, HandlersOK, HandlersAt
  <1>4. QED BY <1>2, <1>3 DEF RedirectHandler

\* The structure of a reply is the one of its command, and nothing else has its token.
LEMMA ReplyFound ==
    ASSUME PrInv, NEW e, NEW m, Receives(e, m), m.type \in {"R", "N"}, m.hops = 0,
           NEW r \in rhs[e], r.n = m.n
    PROVE  /\ r.cmd = m.cmd
           /\ Fresh(Got(e), HeldTokens, e, r) /\ NoProgress(Got(e), e, r)
  <1>1. /\ e \in Ends /\ net \in Queues /\ Took(net, Got(e), e) /\ Got(e) \in Queues
        /\ m = Head(net[e]) /\ m \in Msgs
        /\ TokensOK(net, HeldTokens, rhs, Shut, proxied) /\ e \notin Shut
    BY Received
  <1>2. Fin(m) /\ Owner(e, m) = e
    BY DEF Fin, Finals, Owner
  <1>3. /\ Fresh(Got(e), HeldTokens, e, m)
        /\ HasHandler(rhs, e, m)
        /\ \A y \in Ends : \A j \in 1..Len(Got(e)[y]) :
              Got(e)[y][j].type = "P" /\ Owner(y, Got(e)[y][j]) = e /\ Got(e)[y][j].n = m.n
              => m.hops > Got(e)[y][j].hops
    BY <1>1, <1>2, TakeFinal
  <1>4. r.cmd = m.cmd
    BY <1>1, <1>3 DEF HasHandler, PrInv, HandlersOK, HandlersAt
  <1>5. NoProgress(Got(e), e, m)
    <2>1. \A y \in Ends : \A j \in 1..Len(Got(e)[y]) : Got(e)[y][j].hops \in {0, 1}
      BY <1>1, ElemType
    <2>2. QED BY <1>3, <2>1 DEF NoProgress
  <1>6. SameToken(m, r)
    BY <1>4 DEF SameToken
  <1>7. QED BY <1>3, <1>4, <1>5, <1>6, FreshSame

-----------------------------------------------------------------------------
(***************************************************************************)
(* Sending commands                                                        *)
(***************************************************************************)

\* What a structure and a command of protocol_send_command() are.
LEMMA Sent ==
    ASSUME PrTypeOK, NEW e \in Ends, TokenLeft(e), NEW c \in Cmds,
           NEW kind \in {"app", "relay", "dead"}, NEW via \in Nat
    PROVE  /\ Handler(e, c, kind, via) \in Handlers
           /\ Handler(e, c, kind, via).n = NewToken(e) /\ Handler(e, c, kind, via).cmd = c
           /\ Handler(e, c, kind, via).kind = kind /\ Handler(e, c, kind, via).via = via
           /\ \A r \in rhs[e] : r.n # NewToken(e)
           /\ Command(e, c) \in Msgs /\ Command(e, c).type = "C" /\ Command(e, c).hops = 0
           /\ Command(e, c).n = NewToken(e) /\ Command(e, c).cmd = c
           /\ (NewToken(e) + 1) % TokenMod \in 0..(TokenMod - 1)
  <1>1. PICK n : n = NewToken(e) OBVIOUS
  <1>2. n \in 0..(TokenMod - 1) /\ \A r \in rhs[e] : r.n # n
    BY <1>1, NewTokenFree
  <1>3. n \in Nat /\ TokenMod \in Nat /\ TokenMod > 0
    BY <1>2, ProtocolAssumption
  <1>4. (n + 1) % TokenMod \in 0..(TokenMod - 1)
    BY <1>3
  <1>5. Handler(e, c, kind, via) = [n |-> n, cmd |-> c, kind |-> kind, via |-> via]
    BY <1>1 DEF Handler
  <1>6. Command(e, c) = [type |-> "C", hops |-> 0, n |-> n, cmd |-> c, ok |-> TRUE]
    BY <1>1 DEF Command, Message
  <1>7. Command(e, c) \in Msgs
    BY <1>3, <1>6 DEF Msgs, MsgTypes, Tokens
  <1>8. Handler(e, c, kind, via) \in Handlers
    BY <1>3, <1>5 DEF Handlers
  <1>9. QED BY <1>1, <1>2, <1>4, <1>5, <1>6, <1>7, <1>8

\* The structures of open channels stay, detached or not.
Keeps(rh, rh2) ==
    \A x \in Ends \ Shut : \A r \in rh[x] : \E s \in rh2[x] : s.n = r.n /\ s.cmd = r.cmd

LEMMA SendTokens ==
    ASSUME PrTypeOK, NEW e \in Ends, TokenLeft(e), e \notin Shut, NEW q \in Queues, NEW H, NEW rh,
           TokensOK(q, H, rh, Shut, proxied), rh[e] \subseteq rhs[e], NEW c \in Cmds,
           c \in Redirects => e \in Upper /\ \A r \in rh[e] : r.cmd \notin Redirects,
           NEW rh2, Keeps(rh, rh2), \E s \in rh2[e] : s.n = NewToken(e) /\ s.cmd = c
    PROVE  TokensOK(Put(q, e, Command(e, c)), H, rh2, Shut, proxied)
  <1>1. PICK k : k = Command(e, c) OBVIOUS
  <1>2. /\ k \in Msgs /\ k.type = "C" /\ k.hops = 0 /\ k.n = NewToken(e) /\ k.cmd = c
        /\ \A r \in rhs[e] : r.n # k.n
    <2>1. 0 \in Nat /\ "app" \in {"app", "relay", "dead"} OBVIOUS
    <2>2. QED BY <1>1, <2>1, Sent
  <1>3. Peer[e] \in Ends /\ Peer[Peer[e]] = e /\ (e \in Upper => Peer[e] \in Lower)
    BY EndsFacts
  <1>4. Owner(Peer[e], k) = e /\ Fin(k) /\ RoutedOne(Peer[e], k, proxied)
    BY <1>2, <1>3 DEF Owner, Fin, Finals, RoutedOne
  <1>5. Fresh(q, H, e, k) /\ NoProgress(q, e, k)
    <2>1. \A r \in rh[e] : r.n # k.n
      BY <1>2
    <2>2. k.cmd \in Redirects => \A r \in rh[e] : r.cmd \notin Redirects
      BY <1>2
    <2>3. QED BY <2>1, <2>2, NewNumber
  <1>6. TokensOK(q, H, rh2, Shut, proxied)
    BY OtherHandlers DEF Keeps
  <1>7. HasHandler(rh2, e, k)
    BY <1>2 DEF HasHandler
  <1>8. ProgressAhead(q, Peer[e], e, k)
    BY <1>5 DEF ProgressAhead, NoProgress
  <1>9. Added(q, Put(q, e, k), Peer[e], k)
    BY <1>2, PutFacts
  <1>10. QED BY <1>1, <1>2, <1>3, <1>4, <1>5, <1>6, <1>7, <1>8, <1>9, AddFinal

\* A command is issued for the first time.
LEMMA CallsIssued ==
    ASSUME NEW rh, NEW fl, NEW iss, NEW ca, CallsOK(rh, fl, iss, ca), NEW c \in Cmds, c \notin iss,
           NEW rh2, NEW e \in Ends, NEW h, h.cmd = c, rh2[e] = rh[e] \cup {h},
           \A x \in Ends \ {e} : rh2[x] = rh[x]
    PROVE  CallsOK(rh2, fl, iss \cup {c}, ca)
  <1>1. ASSUME NEW x \in Ends, NEW r \in rh2[x], r.kind = "app"
        PROVE  /\ r.cmd \in (iss \cup {c}) \ fl /\ ca[r.cmd] = <<>>
               /\ \A s \in rh2[x] : s.kind = "app" /\ s.cmd = r.cmd => s = r
    <2>1. CASE x # e
      BY <1>1, <2>1 DEF CallsOK
    <2>2. CASE x = e
      BY <1>1, <2>2 DEF CallsOK
    <2>3. QED BY <2>1, <2>2
  <1>2. QED BY <1>1 DEF CallsOK

\* An end that is started exists.
LEMMA Exists ==
    ASSUME PrInv, NEW e \in Ends, state[e] # "StartWait"
    PROVE  proxied \/ e \in {"client", "host"}
  BY DEF PrInv, ProxyInv, Ends

LEMMA SendCommandStep ==
    ASSUME PrInv, NEW c \in Cmds, SendCommand(c)
    PROVE  PrInv'
  <1>e. PICK e : e = Origin[c] OBVIOUS
  <1>1. /\ e \in Ends /\ c \notin issued /\ c \notin Redirects /\ state[e] # "StartWait"
        /\ issued' = issued \cup {c}
        /\ UNCHANGED <<state, services, proxied, connecting, serving, broken, calls, faults>>
    BY <1>e, ProtocolAssumption DEF SendCommand
  <1>2. /\ net \in Queues /\ TokensOK(net, HeldTokens, rhs, Shut, proxied) /\ PrTypeOK
        /\ NetFor(net, state, broken, proxied) /\ CallsOK(rhs, failed, issued, calls)
    BY DEF PrInv, PrTypeOK, TokenInv, Queues
  <1>3. proxied \/ e \in {"client", "host"}
    BY <1>1, Exists
  <1>4. CASE Closed(e) \/ ~services[e]
    <2>1. /\ failed' = failed \cup {c} /\ net' \in {net, Put(net, e, Plain("junk"))}
          /\ UNCHANGED <<tokenid, rhs>>
      BY <1>4, <1>e DEF SendCommand
    <2>k. PICK k : k = Plain("junk") OBVIOUS
    <2>2. k \in Msgs /\ k.type = "junk" /\ k.hops = 0 /\ k.type \notin Tokens
      BY <2>k, PlainFacts
    <2>3. NetFor(Put(net, e, k), state, broken, proxied)
      BY <1>1, <1>2, <1>3, <2>2, NetPut
    <2>4. TokensOK(Put(net, e, k), HeldTokens, rhs, Shut, proxied)
      <3>1. Added(net, Put(net, e, k), Peer[e], k) /\ Peer[e] \in Ends
        BY <1>1, <1>2, <2>2, PutFacts, EndsFacts
      <3>2. QED BY <1>2, <2>2, <3>1, AddPlain
    <2>5. PrTypeOK'
      BY <1>1, <1>2, <2>k, <2>1, <2>3 DEF PrTypeOK, NetFor
    <2>6. TokenInv'
      BY <1>1, <1>2, <2>k, <2>1, <2>4 DEF TokenInv, HeldTokens, Shut
    <2>7. HandlersOK(rhs)' /\ RedirectStates(rhs, state)'
      BY <1>1, <2>1 DEF PrInv
    <2>8. NetFor(net, state, broken, proxied)'
      BY <1>1, <1>2, <2>k, <2>1, <2>3
    <2>9. ProxyInv'
      BY <1>1, <2>1 DEF PrInv, ProxyInv, ProxyPair
    <2>10. CallsOK(rhs, failed, issued, calls)'
      BY <1>1, <1>2, <2>1 DEF CallsOK
    <2>11. NoSurprise'
      BY <1>1 DEF PrInv, NoSurprise
    <2>12. QED BY <2>5, <2>6, <2>7, <2>8, <2>9, <2>10, <2>11 DEF PrInv
  <1>5. CASE ~(Closed(e) \/ ~services[e])
    <2>1. /\ TokenLeft(e) /\ failed' = failed
          /\ tokenid' = [tokenid EXCEPT ![e] = (NewToken(e) + 1) % TokenMod]
          /\ rhs' = [rhs EXCEPT ![e] = @ \cup {Handler(e, c, "app", 0)}]
          /\ net' = Put(net, e, Command(e, c))
      BY <1>5, <1>e DEF SendCommand
    <2>h. PICK h : h = Handler(e, c, "app", 0) OBVIOUS
    <2>k. PICK k : k = Command(e, c) OBVIOUS
    <2>2. /\ h \in Handlers /\ h.n = NewToken(e) /\ h.cmd = c /\ h.kind = "app"
          /\ \A r \in rhs[e] : r.n # h.n
          /\ k \in Msgs /\ k.type = "C"
          /\ (NewToken(e) + 1) % TokenMod \in 0..(TokenMod - 1)
      <3>1. 0 \in Nat /\ "app" \in {"app", "relay", "dead"} OBVIOUS
      <3>2. QED BY <1>1, <1>2, <2>1, <2>h, <2>k, <3>1, Sent
    <2>3. NetFor(Put(net, e, k), state, broken, proxied)
      BY <1>1, <1>2, <1>3, <2>2, NetPut
    <2>4. /\ rhs' \in [Ends -> SUBSET Handlers] /\ rhs'[e] = rhs[e] \cup {h}
          /\ \A x \in Ends \ {e} : rhs'[x] = rhs[x]
      BY <1>1, <1>2, <2>1, <2>2, <2>h DEF PrTypeOK
    <2>5. e \notin Shut
      BY <1>5 DEF Shut, Closed
    <2>6. TokensOK(Put(net, e, k), HeldTokens, rhs', Shut, proxied)
      <3>1. Keeps(rhs, rhs') /\ \E s \in rhs'[e] : s.n = NewToken(e) /\ s.cmd = c
        BY <2>2, <2>4 DEF Keeps
      <3>2. QED BY <1>1, <1>2, <2>1, <2>k, <2>5, <3>1, SendTokens
    <2>7. HeldOf(serving, connecting, rhs'["target"]) = HeldTokens
      <3>1. {r \in rhs["target"] : r.kind = "relay"} = {r \in rhs'["target"] : r.kind = "relay"}
        BY <2>2, <2>4 DEF Ends
      <3>2. QED BY <3>1, SameRelays DEF HeldTokens
    <2>8. PrTypeOK'
      <3>1. \A x \in Ends : IsFiniteSet(rhs'[x])
        <4>1. IsFiniteSet(rhs[e] \cup {h})
          BY <1>1, <1>2, FS_AddElement DEF PrTypeOK
        <4>2. QED BY <1>2, <2>4, <4>1 DEF PrTypeOK
      <3>2. tokenid' \in [Ends -> 0..(TokenMod - 1)]
        BY <1>2, <2>1, <2>2 DEF PrTypeOK
      <3>3. QED BY <1>1, <1>2, <2>1, <2>k, <2>3, <2>4, <3>1, <3>2 DEF PrTypeOK, NetFor
    <2>9. TokenInv'
      BY <1>1, <2>1, <2>k, <2>6, <2>7 DEF TokenInv, HeldTokens, Shut
    <2>10. HandlersOK(rhs)'
      <3>1. HandlersAt(e, rhs[e]) /\ ~RedirectHandler(h)
        BY <1>1, <2>2 DEF PrInv, HandlersOK, RedirectHandler
      <3>2. HandlersAt(e, rhs'[e])
        BY <1>e, <2>2, <2>4, <3>1, HandlersMore
      <3>3. QED BY <2>4, <3>2 DEF PrInv, HandlersOK
    <2>11. RedirectStates(rhs, state)'
      <3>1. ~RedirectHandler(h)
        BY <1>1, <2>2 DEF RedirectHandler
      <3>2. QED BY <1>1, <2>4, <3>1 DEF PrInv, RedirectStates, Ends
    <2>12. NetFor(net, state, broken, proxied)'
      BY <1>1, <2>1, <2>k, <2>3
    <2>13. ProxyInv'
      <3>1. ~proxied => rhs'["target"] = {}
        BY <1>3, <2>4 DEF PrInv, ProxyInv, Ends
      <3>2. \A x \in Ends : state[x] = "Disconnected" => rhs'[x] = {}
        BY <2>4, <2>5 DEF PrInv, ProxyInv, Shut
      <3>3. QED BY <1>1, <3>1, <3>2 DEF PrInv, ProxyInv, ProxyPair
    <2>14. CallsOK(rhs, failed, issued, calls)'
      <3>1. CallsOK(rhs', failed, issued \cup {c}, calls)
        BY <1>1, <1>2, <2>2, <2>4, CallsIssued
      <3>2. QED BY <1>1, <2>1, <3>1
    <2>15. NoSurprise'
      BY <1>1 DEF PrInv, NoSurprise
    <2>16. QED BY <2>8, <2>9, <2>10, <2>11, <2>12, <2>13, <2>14, <2>15 DEF PrInv
  <1>6. QED BY <1>4, <1>5

LEMMA CommandFailedStep ==
    ASSUME PrInv, NEW c \in Cmds, CommandFailed(c)
    PROVE  PrInv'
  <1>1. /\ c \in failed /\ failed' = failed \ {c} /\ calls' = Call({c}, "closed")
        /\ UNCHANGED <<state, services, tokenid, rhs, proxied, connecting, serving, net, broken,
                       issued, faults>>
    BY DEF CommandFailed
  <1>2. calls \in [Cmds -> Seq(AnswerTypes)] /\ "closed" \in AnswerTypes
    BY DEF PrInv, PrTypeOK, AnswerTypes
  <1>3. /\ calls' \in [Cmds -> Seq(AnswerTypes)]
        /\ \A x \in Cmds \ {c} : calls'[x] = calls[x]
    BY <1>1, <1>2, CallFacts
  <1>4. PrTypeOK'
    BY <1>1, <1>3 DEF PrInv, PrTypeOK, AnswerTypes
  <1>5. TokenInv' /\ HandlersOK(rhs)' /\ RedirectStates(rhs, state)'
        /\ NetFor(net, state, broken, proxied)'
    BY <1>1 DEF PrInv, TokenInv, HeldTokens, Shut
  <1>6. ProxyInv' /\ NoSurprise'
    BY <1>1 DEF PrInv, ProxyInv, ProxyPair, NoSurprise
  <1>7. CallsOK(rhs, failed, issued, calls)'
    <2>1. CallsOK(rhs, failed, issued, calls) /\ failed \subseteq Cmds
          /\ \A e \in Ends : \A r \in rhs[e] : r.cmd \in Cmds
      BY DEF PrInv, PrTypeOK, Handlers
    <2>2. QED BY <1>1, <1>3, <2>1 DEF CallsOK
  <1>8. QED BY <1>4, <1>5, <1>6, <1>7 DEF PrInv

LEMMA SendRedirectStep ==
    ASSUME PrInv, NEW c \in Cmds, SendRedirect(c)
    PROVE  PrInv'
  <1>1. /\ c \in Redirects /\ c \notin issued /\ state["client"] = "Connected" /\ TokenLeft("client")
        /\ issued' = issued \cup {c}
        /\ state' = [state EXCEPT !["client"] = "RedirectSent"]
        /\ tokenid' = [tokenid EXCEPT !["client"] = (NewToken("client") + 1) % TokenMod]
        /\ rhs' = [rhs EXCEPT !["client"] = @ \cup {Handler("client", c, "app", 0)}]
        /\ net' = Put(net, "client", Command("client", c))
        /\ UNCHANGED <<failed, proxied, connecting, serving, broken, calls, faults>>
    BY DEF SendRedirect
  <1>e. PICK e : e = "client" OBVIOUS
  <1>0. e \in Ends /\ e \in Upper /\ e \notin Lower /\ Origin[c] = e
    BY <1>1, <1>e, ProtocolAssumption DEF Ends, Upper, Lower
  <1>2. /\ net \in Queues /\ TokensOK(net, HeldTokens, rhs, Shut, proxied) /\ PrTypeOK
        /\ NetFor(net, state, broken, proxied) /\ CallsOK(rhs, failed, issued, calls)
    BY DEF PrInv, PrTypeOK, TokenInv, Queues
  <1>h. PICK h : h = Handler(e, c, "app", 0) OBVIOUS
  <1>k. PICK k : k = Command(e, c) OBVIOUS
  <1>3. /\ h \in Handlers /\ h.n = NewToken(e) /\ h.cmd = c /\ h.kind = "app"
        /\ \A r \in rhs[e] : r.n # h.n
        /\ k \in Msgs /\ k.type = "C"
        /\ (NewToken(e) + 1) % TokenMod \in 0..(TokenMod - 1)
    <2>1. 0 \in Nat /\ "app" \in {"app", "relay", "dead"} OBVIOUS
    <2>2. QED BY <1>0, <1>1, <1>e, <1>2, <1>h, <1>k, <2>1, Sent
  <1>4. /\ rhs' \in [Ends -> SUBSET Handlers] /\ rhs'[e] = rhs[e] \cup {h}
        /\ \A x \in Ends \ {e} : rhs'[x] = rhs[x]
    BY <1>0, <1>1, <1>2, <1>3, <1>e, <1>h DEF PrTypeOK
  <1>5. state'[e] = "RedirectSent" /\ (\A x \in Ends \ {e} : state'[x] = state[x])
        /\ state' \in [Ends -> UpperStates \cup LowerStates]
    BY <1>0, <1>1, <1>2, <1>e DEF PrTypeOK, UpperStates
  <1>6. e \notin Shut /\ Shut' = Shut
    BY <1>1, <1>5, <1>e DEF Shut
  <1>7. \A r \in rhs[e] : r.cmd \notin Redirects
    BY <1>0, <1>1, <1>e, NoRedirectOut
  <1>8. TokensOK(Put(net, e, k), HeldTokens, rhs', Shut, proxied)
    <2>1. Keeps(rhs, rhs') /\ \E s \in rhs'[e] : s.n = NewToken(e) /\ s.cmd = c
      BY <1>3, <1>4 DEF Keeps
    <2>2. QED BY <1>0, <1>1, <1>2, <1>e, <1>k, <1>6, <1>7, <2>1, SendTokens
  <1>9. HeldOf(serving, connecting, rhs'["target"]) = HeldTokens
    <2>1. rhs'["target"] = rhs["target"]
      BY <1>4, <1>e DEF Ends
    <2>2. QED BY <2>1 DEF HeldTokens
  <1>10. NetFor(Put(net, e, k), state', broken, proxied)
    <2>1. NetFor(net, state', broken, proxied)
      <3>1. \A x \in Ends : state'[x] = "Disconnected" => state[x] = "Disconnected"
        BY <1>5
      <3>2. HelloLink(net["client"], net["host"], "Connected", state["host"], {"client", "host"} \in broken)
        BY <1>1, <1>2 DEF NetFor
      <3>3. HelloLink(net["client"], net["host"], state'["client"], state'["host"], {"client", "host"} \in broken)
        BY <3>2, <1>5, <1>e, UpperAsks DEF Ends
      <3>4. state'["target"] = state["target"] /\ state'["agent"] = state["agent"]
        BY <1>5, <1>e DEF Ends
      <3>5. QED BY <1>2, <3>1, <3>3, <3>4 DEF NetFor
    <2>p. Peer[e] \in Ends /\ Peer[e] = "host" /\ Peer[e] # e
      BY <1>e DEF Peer, Ends
    <2>2. /\ Added(net, Put(net, e, k), Peer[e], k)
          /\ Closed(Peer[e]) => Put(net, e, k) = net
      BY <1>0, <1>2, <1>3, PutFacts
    <2>3. Put(net, e, k) # net => state'[Peer[e]] # "Disconnected"
      BY <1>5, <2>p, <2>2 DEF Closed
    <2>4. QED BY <1>2, <1>3, <2>1, <2>p, <2>2, <2>3, NetAdd
  <1>11. PrTypeOK'
    <2>1. \A x \in Ends : IsFiniteSet(rhs'[x])
      <3>1. IsFiniteSet(rhs[e] \cup {h})
        BY <1>0, <1>2, FS_AddElement DEF PrTypeOK
      <3>2. QED BY <1>2, <1>4, <3>1 DEF PrTypeOK
    <2>2. tokenid' \in [Ends -> 0..(TokenMod - 1)]
      BY <1>1, <1>2, <1>3, <1>e DEF PrTypeOK
    <2>3. (\A x \in Upper : state'[x] \in UpperStates) /\ \A x \in Lower : state'[x] \in LowerStates
      BY <1>0, <1>2, <1>5, EndsFacts, ZenonT(40) DEF PrTypeOK, UpperStates
    <2>4. net' \in [Ends -> Seq(Msgs)]
      BY <1>1, <1>e, <1>k, <1>10 DEF NetFor
    <2>5. QED BY <1>1, <1>2, <1>4, <1>5, <2>1, <2>2, <2>3, <2>4 DEF PrTypeOK
  <1>12. TokenInv'
    BY <1>1, <1>e, <1>k, <1>6, <1>8, <1>9 DEF TokenInv, HeldTokens
  <1>13. HandlersOK(rhs)'
    <2>1. HandlersAt(e, rhs[e]) /\ \A r \in rhs[e] : ~RedirectHandler(r)
      BY <1>0, <1>7 DEF PrInv, HandlersOK, RedirectHandler
    <2>2. HandlersAt(e, rhs'[e])
      BY <1>0, <1>3, <1>4, <2>1, HandlersMore
    <2>3. QED BY <1>4, <2>2 DEF PrInv, HandlersOK
  <1>14. RedirectStates(rhs, state)'
    BY <1>4, <1>5, <1>e DEF PrInv, RedirectStates, Ends
  <1>15. NetFor(net, state, broken, proxied)'
    BY <1>1, <1>e, <1>k, <1>10
  <1>16. ProxyInv'
    <2>1. /\ rhs'["target"] = rhs["target"] /\ state'["host"] = state["host"]
          /\ state'["target"] = state["target"] /\ state'["agent"] = state["agent"]
      BY <1>4, <1>5, <1>e DEF Ends
    <2>2. \A x \in Ends : state'[x] = "Disconnected" => rhs'[x] = {}
      BY <1>4, <1>5 DEF PrInv, ProxyInv
    <2>3. \A x \in Ends : connecting[x] # NoInfo =>
             x \in Lower /\ state'[x] \in {"RedirectReceived", "Disconnected"}
      BY <1>0, <1>5 DEF PrInv, ProxyInv
    <2>4. QED BY <1>1, <2>1, <2>2, <2>3 DEF PrInv, ProxyInv, ProxyPair
  <1>17. CallsOK(rhs, failed, issued, calls)'
    <2>1. CallsOK(rhs', failed, issued \cup {c}, calls)
      BY <1>0, <1>1, <1>2, <1>3, <1>4, CallsIssued
    <2>2. QED BY <1>1, <2>1
  <1>18. NoSurprise'
    BY <1>1 DEF PrInv, NoSurprise
  <1>19. QED BY <1>11, <1>12, <1>13, <1>14, <1>15, <1>16, <1>17, <1>18 DEF PrInv

\* The token of the client's redirect, which a relay holds.
LEMMA RelayOK ==
    ASSUME NEW r \in Handlers, r.kind = "relay", r.cmd \in Redirects, NEW prox
    PROVE  HeldOK({RelayHeld(r)}, prox) /\ RelayHeld(r).msg \in Msgs
  <1>1. RelayHeld(r).msg = [type |-> "C", hops |-> 0, n |-> r.via, cmd |-> r.cmd, ok |-> TRUE]
    BY DEF RelayHeld, Held, Message
  <1>2. r.via \in Nat /\ r.cmd \in Cmds
    BY DEF Handlers
  <1>3. RelayHeld(r).msg \in Msgs
    BY <1>1, <1>2 DEF Msgs, MsgTypes, Tokens
  <1>4. QED BY <1>2, <1>3, RelayFields DEF HeldOK, Ends

\* The client has one redirect out at a time, so the target is connected when it is relayed.
LEMMA RelayFree ==
    ASSUME PrInv, NEW m, Receives("host", m), m.type = "C", proxied,
           state["host"] = "Connected", m.cmd \in Redirects
    PROVE  state["target"] = "Connected"
  <1>1. /\ "host" \in Ends /\ net \in Queues /\ Took(net, Got("host"), "host")
        /\ m = Head(net["host"]) /\ m \in Msgs /\ RoutedOne("host", m, proxied)
        /\ TokensOK(net, HeldTokens, rhs, Shut, proxied)
    BY Received
  <1>2. m.hops = 0
    <2>1. m.hops \in {0, 1} BY <1>1, MsgType
    <2>2. QED BY <1>1, <2>1 DEF RoutedOne
  <1>3. Owner("host", m) = "client" /\ Fin(m)
    BY <1>2 DEF Owner, Peer, Fin, Finals
  <1>4. Fresh(Got("host"), HeldTokens, "client", m)
    BY <1>1, <1>3, TakeFinal
  <1>5. state["target"] \in {"Connected", "RedirectSent"}
    BY DEF PrInv, ProxyInv, ProxyPair
  <1>6. ASSUME state["target"] = "RedirectSent" PROVE FALSE
    <2>1. PICK r \in rhs["target"] : r.kind = "relay"
      BY <1>6 DEF PrInv, RedirectStates
    <2>2. r.cmd \in Redirects
      BY <2>1 DEF PrInv, HandlersOK, HandlersAt, Ends
    <2>3. RelayHeld(r) \in HeldTokens
      BY <2>1, HeldKinds DEF HeldTokens
    <2>4. RelayHeld(r).own = "client" /\ RelayHeld(r).msg.cmd \in Redirects
      BY <2>2, RelayFields
    <2>5. QED BY <1>4, <2>3, <2>4 DEF Fresh, Clash
  <1>7. QED BY <1>5, <1>6

LEMMA RelayRedirectStep ==
    ASSUME PrInv, NEW m, Receives("host", m), m.type = "C", proxied,
           state["host"] = "Connected", m.cmd \in Redirects, RelayRedirect(m)
    PROVE  PrInv'
  <1>0. state["target"] = "Connected"
    BY RelayFree
  <1>1. /\ TokenLeft("target")
        /\ state' = [state EXCEPT !["target"] = "RedirectSent"]
        /\ tokenid' = [tokenid EXCEPT !["target"] = (NewToken("target") + 1) % TokenMod]
        /\ rhs' = [rhs EXCEPT !["target"] = @ \cup {Handler("target", m.cmd, "relay", m.n)}]
        /\ net' = Put(Got("host"), "target", Command("target", m.cmd))
        /\ UNCHANGED <<failed, proxied, connecting, serving, broken, issued, calls, faults>>
    BY <1>0 DEF RelayRedirect
  <1>2. /\ "host" \in Ends /\ net \in Queues /\ Took(net, Got("host"), "host")
        /\ Got("host") \in Queues
        /\ m = Head(net["host"]) /\ m \in Msgs /\ RoutedOne("host", m, proxied)
        /\ TokensOK(net, HeldTokens, rhs, Shut, proxied)
    BY Received
  <1>e. PICK e : e = "target" OBVIOUS
  <1>3. e \in Ends /\ e \in Upper /\ e \notin Lower
    BY <1>e DEF Ends, Upper, Lower
  <1>4. PrTypeOK /\ NetFor(net, state, broken, proxied)
    BY DEF PrInv
  <1>5. m.hops = 0 /\ m.cmd \in Cmds /\ m.n \in Nat
    <2>1. m.hops \in {0, 1} /\ m.n \in Nat BY <1>2, MsgType
    <2>2. QED BY <1>2, <2>1 DEF RoutedOne, Tokens
  <1>h. PICK h : h = Handler(e, m.cmd, "relay", m.n) OBVIOUS
  <1>k. PICK k : k = Command(e, m.cmd) OBVIOUS
  <1>6. /\ h \in Handlers /\ h.n = NewToken(e) /\ h.cmd = m.cmd /\ h.kind = "relay" /\ h.via = m.n
        /\ \A r \in rhs[e] : r.n # h.n
        /\ k \in Msgs /\ k.type = "C"
        /\ (NewToken(e) + 1) % TokenMod \in 0..(TokenMod - 1)
    <2>1. "relay" \in {"app", "relay", "dead"} OBVIOUS
    <2>2. QED BY <1>1, <1>e, <1>3, <1>4, <1>5, <1>h, <1>k, <2>1, Sent
  <1>7. /\ rhs' \in [Ends -> SUBSET Handlers] /\ rhs'[e] = rhs[e] \cup {h}
        /\ \A x \in Ends \ {e} : rhs'[x] = rhs[x]
    BY <1>1, <1>3, <1>4, <1>6, <1>e, <1>h DEF PrTypeOK
  <1>8. state'[e] = "RedirectSent" /\ (\A x \in Ends \ {e} : state'[x] = state[x])
        /\ state' \in [Ends -> UpperStates \cup LowerStates]
    BY <1>1, <1>3, <1>4, <1>e DEF PrTypeOK, UpperStates
  <1>9. e \notin Shut /\ Shut' = Shut
    BY <1>0, <1>8, <1>e DEF Shut
  <1>10. \A r \in rhs[e] : r.cmd \notin Redirects
    BY <1>0, <1>3, <1>e, NoRedirectOut
  <1>g. PICK g : g = RelayHeld(h) OBVIOUS
  <1>11. TokensOK(Got("host"), HeldTokens \cup {g}, rhs, Shut, proxied)
    <2>1. HeldOK({g}, proxied)
      BY <1>g, <1>6, RelayOK
    <2>2. g.own = Owner("host", m)
      BY <1>g, <1>5, RelayFields DEF Owner, Peer
    <2>3. SameToken(m, g.msg)
      BY <1>g, <1>6, RelayFields DEF SameToken
    <2>4. QED BY <1>2, <2>1, <2>2, <2>3, MoveToHeld
  <1>12. TokensOK(Put(Got("host"), e, k), HeldTokens \cup {g}, rhs', Shut, proxied)
    <2>1. Keeps(rhs, rhs') /\ \E s \in rhs'[e] : s.n = NewToken(e) /\ s.cmd = m.cmd
      BY <1>6, <1>7 DEF Keeps
    <2>2. QED BY <1>1, <1>2, <1>3, <1>4, <1>5, <1>e, <1>k, <1>9, <1>10, <1>11, <2>1, SendTokens
  <1>13. HeldOf(serving, connecting, rhs'["target"]) = HeldTokens \cup {g}
    BY <1>e, <1>g, <1>6, <1>7, RelayHolds DEF HeldTokens
  <1>14. NetFor(Put(Got("host"), e, k), state', broken, proxied)
    <2>0. NetFor(Got("host"), state, broken, proxied)
      <3>1. ~Granted(Head(net["host"]))
        BY <1>2 DEF Granted
      <3>2. QED BY <1>2, <1>4, <3>1, NetTake
    <2>q. PICK q : q = Got("host") OBVIOUS
    <2>1. NetFor(q, state', broken, proxied)
      <3>1. \A x \in Ends : state'[x] = "Disconnected" => state[x] = "Disconnected"
        BY <1>8
      <3>2. HelloLink(q["target"], q["agent"], "Connected", state["agent"], {"target", "agent"} \in broken)
        BY <1>0, <2>0, <2>q DEF NetFor
      <3>3. HelloLink(q["target"], q["agent"], state'["target"], state'["agent"], {"target", "agent"} \in broken)
        BY <3>2, <1>8, <1>e, UpperAsks DEF Ends
      <3>4. state'["client"] = state["client"] /\ state'["host"] = state["host"]
        BY <1>8, <1>e DEF Ends
      <3>5. QED BY <2>0, <2>q, <3>1, <3>3, <3>4 DEF NetFor
    <2>p. Peer[e] \in Ends /\ Peer[e] = "agent" /\ Peer[e] # e
      BY <1>e DEF Peer, Ends
    <2>2. /\ Added(q, Put(q, e, k), Peer[e], k)
          /\ Closed(Peer[e]) => Put(q, e, k) = q
      BY <1>2, <1>3, <1>6, <2>q, PutFacts
    <2>3. Put(q, e, k) # q => state'[Peer[e]] # "Disconnected"
      BY <1>8, <2>p, <2>2 DEF Closed
    <2>4. q \in Queues /\ k.type # "Hello"
      BY <1>2, <1>6, <2>q
    <2>5. NetFor(Put(q, e, k), state', broken, proxied)
      BY <1>6, <2>1, <2>p, <2>2, <2>3, <2>4, NetAdd
    <2>6. QED BY <2>q, <2>5
  <1>15. PrTypeOK'
    <2>1. \A x \in Ends : IsFiniteSet(rhs'[x])
      <3>1. IsFiniteSet(rhs[e] \cup {h})
        BY <1>3, <1>4, FS_AddElement DEF PrTypeOK
      <3>2. QED BY <1>4, <1>7, <3>1 DEF PrTypeOK
    <2>2. tokenid' \in [Ends -> 0..(TokenMod - 1)]
      BY <1>1, <1>4, <1>6, <1>e DEF PrTypeOK
    <2>3. (\A x \in Upper : state'[x] \in UpperStates) /\ \A x \in Lower : state'[x] \in LowerStates
      BY <1>3, <1>4, <1>8, EndsFacts DEF PrTypeOK, UpperStates
    <2>4. net' \in [Ends -> Seq(Msgs)]
      BY <1>1, <1>e, <1>k, <1>14 DEF NetFor
    <2>5. QED BY <1>1, <1>4, <1>7, <1>8, <2>1, <2>2, <2>3, <2>4 DEF PrTypeOK
  <1>16. TokenInv'
    BY <1>1, <1>e, <1>k, <1>9, <1>12, <1>13 DEF TokenInv, HeldTokens
  <1>17. HandlersOK(rhs)'
    <2>1. HandlersAt(e, rhs[e]) /\ \A r \in rhs[e] : ~RedirectHandler(r)
      BY <1>3, <1>10 DEF PrInv, HandlersOK, RedirectHandler
    <2>2. HandlersAt(e, rhs'[e])
      BY <1>e, <1>3, <1>6, <1>7, <2>1, HandlersMore
    <2>3. QED BY <1>7, <2>2 DEF PrInv, HandlersOK
  <1>18. RedirectStates(rhs, state)'
    BY <1>3, <1>6, <1>7, <1>8, <1>e DEF PrInv, RedirectStates
  <1>19. NetFor(net, state, broken, proxied)'
    BY <1>1, <1>e, <1>k, <1>14
  <1>20. ProxyInv'
    <2>1. state'["host"] = "Connected" /\ state'["target"] = "RedirectSent"
      BY <1>8, <1>e DEF Ends
    <2>2. \A x \in Ends : state'[x] = "Disconnected" => rhs'[x] = {}
      BY <1>7, <1>8 DEF PrInv, ProxyInv
    <2>3. \A x \in Ends : connecting[x] # NoInfo =>
             x \in Lower /\ state'[x] \in {"RedirectReceived", "Disconnected"}
      BY <1>3, <1>8 DEF PrInv, ProxyInv
    <2>4. QED BY <1>1, <2>1, <2>2, <2>3 DEF PrInv, ProxyInv, ProxyPair
  <1>21. CallsOK(rhs, failed, issued, calls)'
    <2>1. \A x \in Ends : \A r \in rhs'[x] : r.kind = "app" => r \in rhs[x]
      BY <1>6, <1>7
    <2>2. QED BY <1>1, <2>1 DEF PrInv, CallsOK
  <1>22. NoSurprise'
    BY <1>1 DEF PrInv, NoSurprise
  <1>23. QED BY <1>15, <1>16, <1>17, <1>18, <1>19, <1>20, <1>21, <1>22 DEF PrInv

-----------------------------------------------------------------------------
(***************************************************************************)
(* Redirects that the host or the agent carries out                        *)
(***************************************************************************)

LEMMA RedirectStep ==
    ASSUME PrInv, NEW e, NEW m, Receives(e, m), m.type = "C", ~IsProxy(e),
           state[e] = "Connected", m.cmd \in Redirects,
           state' = [state EXCEPT ![e] = "RedirectReceived"],
           connecting' = [connecting EXCEPT ![e] = <<m>>],
           net' = Got(e),
           UNCHANGED <<services, tokenid, rhs, failed, proxied, serving, broken, issued,
                       calls, faults>>
    PROVE  PrInv'
  <1>1. /\ e \in Ends /\ net \in Queues /\ Took(net, Got(e), e) /\ Got(e) \in Queues
        /\ m = Head(net[e]) /\ m \in Msgs /\ RoutedOne(e, m, proxied)
        /\ proxied \/ e \in {"client", "host"}
        /\ TokensOK(net, HeldTokens, rhs, Shut, proxied)
    BY Received
  <1>2. m.hops = 0 /\ m.cmd \in Cmds /\ e \in Lower
    <2>1. m.hops \in {0, 1} BY <1>1, MsgType
    <2>2. QED BY <1>1, <2>1 DEF RoutedOne, Tokens
  <1>3. e \notin Upper /\ Peer[e] \in Upper /\ (proxied => e = "agent")
    BY <1>2, EndsFacts DEF IsProxy, Lower
  <1>4. PrTypeOK /\ NetFor(net, state, broken, proxied)
    BY DEF PrInv
  <1>5. connecting[e] = NoInfo
    BY <1>1 DEF PrInv, ProxyInv
  <1>6. state'[e] = "RedirectReceived" /\ (\A x \in Ends \ {e} : state'[x] = state[x])
        /\ state' \in [Ends -> UpperStates \cup LowerStates]
    BY <1>1, <1>4 DEF PrTypeOK, LowerStates
  <1>7. /\ connecting' \in [Ends -> {NoInfo} \cup {<<x>> : x \in Msgs}]
        /\ connecting'[e] = <<m>> /\ \A x \in Ends \ {e} : connecting'[x] = connecting[x]
    BY <1>1, <1>4 DEF PrTypeOK
  <1>8. Shut' = Shut
    BY <1>6 DEF Shut
  <1>h. PICK h : h = Held("connects", e, Peer[e], m) OBVIOUS
  <1>9. h.kind = "connects" /\ h.at = e /\ h.own = Peer[e] /\ h.msg = m
    BY <1>h, HeldFields
  <1>10. TokensOK(Got(e), HeldTokens \cup {h}, rhs, Shut, proxied)
    <2>1. HeldOK({h}, proxied)
      BY <1>1, <1>2, <1>9, EndsFacts DEF HeldOK
    <2>2. h.own = Owner(e, m) /\ SameToken(m, h.msg)
      BY <1>2, <1>9 DEF Owner, SameToken
    <2>3. QED BY <1>1, <2>1, <2>2, MoveToHeld
  <1>11. HeldOf(serving, connecting', rhs["target"]) = HeldTokens \cup {h}
    <2>1. AlsoConnects(connecting, connecting', e, m)
      BY <1>5, <1>7 DEF AlsoConnects
    <2>2. QED BY <1>1, <1>h, <2>1, ConnectHeld DEF HeldTokens
  <1>12. NetFor(Got(e), state', broken, proxied)
    <2>0. NetFor(Got(e), state, broken, proxied)
      <3>1. ~Granted(Head(net[e]))
        BY <1>1 DEF Granted
      <3>2. QED BY <1>1, <1>4, <3>1, NetTake
    <2>1. \A x \in Ends : state'[x] = "Disconnected" => state[x] = "Disconnected"
      BY <1>6
    <2>q. PICK q : q = Got(e) OBVIOUS
    <2>2. state'["client"] = state["client"] /\ state'["target"] = state["target"]
      BY <1>2, <1>6 DEF Lower, Ends
    <2>3. \A x \in Lower : state'[x] = state[x] \/ (state[x] \in Settled /\ state'[x] \in Settled)
      BY <1>6, EndsFacts DEF Settled
    <2>4. HelloLink(q["client"], q["host"], state["client"], state'["host"], {"client", "host"} \in broken)
      BY <2>0, <2>q, <2>3, LowerSettled DEF NetFor, Lower
    <2>5. HelloLink(q["target"], q["agent"], state["target"], state'["agent"], {"target", "agent"} \in broken)
      BY <2>0, <2>q, <2>3, LowerSettled DEF NetFor, Lower
    <2>6. QED BY <2>0, <2>q, <2>1, <2>2, <2>4, <2>5 DEF NetFor
  <1>13. PrTypeOK'
    <2>1. (\A x \in Upper : state'[x] \in UpperStates) /\ \A x \in Lower : state'[x] \in LowerStates
      BY <1>2, <1>4, <1>6, EndsFacts DEF PrTypeOK, LowerStates
    <2>2. QED BY <1>4, <1>6, <1>7, <1>12, <2>1 DEF PrTypeOK, NetFor
  <1>14. TokenInv'
    BY <1>8, <1>10, <1>11 DEF TokenInv, HeldTokens
  <1>15. HandlersOK(rhs)' /\ NetFor(net, state, broken, proxied)'
    BY <1>12 DEF PrInv
  <1>16. RedirectStates(rhs, state)'
    BY <1>2, <1>6 DEF PrInv, RedirectStates, Lower, Ends
  <1>17. ProxyInv'
    <2>1. \A x \in Ends : connecting'[x] # NoInfo =>
             x \in Lower /\ state'[x] \in {"RedirectReceived", "Disconnected"}
      BY <1>2, <1>6, <1>7 DEF PrInv, ProxyInv
    <2>2. proxied => state'["host"] = state["host"] /\ connecting'["host"] = connecting["host"]
      BY <1>3, <1>6, <1>7 DEF Ends
    <2>3. ~proxied => state'["agent"] = state["agent"] /\ state'["host"] # "HelloReceived"
      BY <1>1, <1>6 DEF PrInv, ProxyInv, Ends
    <2>4. state'["target"] = state["target"]
      BY <1>2, <1>6 DEF Lower, Ends
    <2>5. \A x \in Ends : state'[x] = "Disconnected" => rhs[x] = {}
      BY <1>6 DEF PrInv, ProxyInv
    <2>6. QED BY <2>1, <2>2, <2>3, <2>4, <2>5 DEF PrInv, ProxyInv, ProxyPair
  <1>18. CallsOK(rhs, failed, issued, calls)' /\ NoSurprise'
    BY DEF PrInv, NoSurprise
  <1>19. QED BY <1>13, <1>14, <1>15, <1>16, <1>17, <1>18 DEF PrInv

\* A redirect that waits for its connection, and the reply that it gets.
LEMMA Connects ==
    ASSUME PrInv, NEW e \in Ends, connecting[e] # NoInfo
    PROVE  /\ e \in Lower /\ state[e] \in {"RedirectReceived", "Disconnected"}
           /\ proxied \/ e = "host"
           /\ proxied => e = "agent"
           /\ Held("connects", e, Peer[e], connecting[e][1]) \in HeldTokens
           /\ connecting[e][1] \in Msgs /\ connecting[e][1].type = "C"
           /\ connecting[e][1].cmd \in Redirects /\ connecting[e][1].hops = 0
  <1>m. PICK m : m = connecting[e][1] OBVIOUS
  <1>h. PICK h : h = Held("connects", e, Peer[e], m) OBVIOUS
  <1>1. e \in Lower /\ state[e] \in {"RedirectReceived", "Disconnected"}
    BY DEF PrInv, ProxyInv
  <1>2. (proxied \/ e = "host") /\ (proxied => e = "agent")
    BY <1>1 DEF PrInv, ProxyInv, Lower
  <1>3. h \in HeldTokens
    BY <1>m, <1>h, HeldKinds DEF HeldTokens
  <1>4. h.kind = "connects" /\ h.msg = m
    BY <1>h, HeldFields
  <1>5. HeldOK(HeldTokens, proxied)
    BY DEF PrInv, TokenInv, TokensOK
  <1>6. m \in Msgs /\ m.type = "C" /\ m.cmd \in Redirects /\ m.hops = 0
    BY <1>3, <1>4, <1>5 DEF HeldOK
  <1>7. QED BY <1>m, <1>h, <1>1, <1>2, <1>3, <1>6

LEMMA ConnectsReply ==
    ASSUME NEW e \in Lower, NEW m \in Msgs, m.cmd \in Redirects, m.hops = 0, NEW b \in BOOLEAN
    PROVE  /\ Reply(m, "R", b) \in Msgs /\ Reply(m, "R", b).type = "R" /\ Reply(m, "R", b).hops = 0
           /\ Reply(m, "R", b).cmd = m.cmd /\ Reply(m, "R", b).ok = b
           /\ SameToken(m, Reply(m, "R", b))
           /\ Owner(Peer[e], Reply(m, "R", b)) = Peer[e] /\ Peer[e] \in Ends
           /\ \A prox : RoutedOne(Peer[e], Reply(m, "R", b), prox)
  <1>k. PICK k : k = Reply(m, "R", b) OBVIOUS
  <1>1. k \in Msgs /\ k.type = "R" /\ k.ok = b /\ k.hops = 0 /\ SameToken(m, k)
    BY <1>k, ReplyFacts
  <1>2. Peer[e] \in Upper /\ Peer[e] \in Ends
    BY EndsFacts
  <1>3. Owner(Peer[e], k) = Peer[e]
    BY <1>1 DEF Owner
  <1>4. k.cmd = m.cmd /\ k.cmd \in Cmds
    BY <1>1, ProtocolAssumption DEF SameToken
  <1>5. \A prox : RoutedOne(Peer[e], k, prox)
    BY <1>1, <1>2, <1>4 DEF RoutedOne
  <1>6. QED BY <1>k, <1>1, <1>2, <1>3, <1>4, <1>5

\* The sender of a redirect that is held waits for the answer, or is closed.
LEMMA Waits ==
    ASSUME PrInv, NEW h \in HeldTokens, h.msg.cmd \in Redirects
    PROVE  /\ state[h.own] \in {"RedirectSent", "Disconnected"}
           /\ NoGranted(net[h.own])
  <1>1. net \in Queues /\ TokensOK(net, HeldTokens, rhs, Shut, proxied) /\ HeldOK(HeldTokens, proxied)
    BY DEF PrInv, PrTypeOK, TokenInv, TokensOK, Queues
  <1>u. PICK u : u = h.own OBVIOUS
  <1>2. u \in Ends
    BY <1>u, <1>1 DEF HeldOK
  <1>3. /\ \A y \in Ends : \A j \in 1..Len(net[y]) :
             Fin(net[y][j]) => ~Clash(u, h.msg, Owner(y, net[y][j]), net[y][j])
        /\ u \notin Shut => HasHandler(rhs, u, h.msg)
    <2>1. {} \in SUBSET (HeldTokens \ {h}) OBVIOUS
    <2>2. Fresh(net, {}, h.own, h.msg) /\ (h.own \notin Shut => HasHandler(rhs, h.own, h.msg))
      BY <1>1, <2>1, TakeHeld
    <2>3. QED BY <1>u, <2>2 DEF Fresh
  <1>4. u \notin Shut => state[u] = "RedirectSent"
    <2>1. u \notin Shut => \E r \in rhs[u] : r.cmd \in Redirects
      BY <1>3 DEF HasHandler
    <2>2. QED BY <1>2, <2>1, NoRedirectOut
  <1>5. ASSUME NEW i \in 1..Len(net[u]), Granted(net[u][i]) PROVE FALSE
    <2>1. Fin(net[u][i]) /\ Owner(u, net[u][i]) = u /\ net[u][i].cmd \in Redirects
      BY <1>5 DEF Granted, Fin, Finals, Owner
    <2>2. QED BY <1>2, <1>3, <2>1 DEF Clash
  <1>6. NoGranted(net[u])
    BY <1>5 DEF NoGranted
  <1>7. u \in Shut => state[u] = "Disconnected"
    BY DEF Shut
  <1>8. QED BY <1>u, <1>4, <1>6, <1>7

LEMMA ConnectFailedStep ==
    ASSUME PrInv, NEW e \in Ends, ConnectFailed(e)
    PROVE  PrInv'
  <1>m. PICK m : m = connecting[e][1] OBVIOUS
  <1>h. PICK h : h = Held("connects", e, Peer[e], m) OBVIOUS
  <1>1. /\ connecting[e] # NoInfo
        /\ connecting' = [connecting EXCEPT ![e] = NoInfo]
        /\ UNCHANGED <<services, tokenid, rhs, failed, proxied, serving, broken, issued, calls, faults>>
    BY DEF ConnectFailed
  <1>2. /\ e \in Lower /\ state[e] \in {"RedirectReceived", "Disconnected"}
        /\ proxied \/ e = "host"
        /\ proxied => e = "agent"
        /\ h \in HeldTokens
        /\ m \in Msgs /\ m.type = "C" /\ m.cmd \in Redirects /\ m.hops = 0
    BY <1>1, <1>m, <1>h, Connects
  <1>3. h.kind = "connects" /\ h.own = Peer[e] /\ h.msg = m
    BY <1>h, HeldFields
  <1>k. PICK k : k = Reply(m, "R", FALSE) OBVIOUS
  <1>4. /\ k \in Msgs /\ k.type = "R" /\ k.hops = 0 /\ SameToken(m, k)
        /\ Owner(Peer[e], k) = Peer[e] /\ Peer[e] \in Ends /\ RoutedOne(Peer[e], k, proxied)
    BY <1>2, <1>k, ConnectsReply
  <1>5. /\ net \in Queues /\ TokensOK(net, HeldTokens, rhs, Shut, proxied) /\ PrTypeOK
        /\ NetFor(net, state, broken, proxied) /\ DOMAIN connecting = Ends
    BY DEF PrInv, PrTypeOK, TokenInv, Queues
  <1>6. /\ connecting' \in [Ends -> {NoInfo} \cup {<<x>> : x \in Msgs}]
        /\ connecting'[e] = NoInfo /\ \A x \in Ends \ {e} : connecting'[x] = connecting[x]
    BY <1>1, <1>5 DEF PrTypeOK
  <1>7. PICK K : K = HeldOf(serving, connecting', rhs["target"]) OBVIOUS
  <1>8. K \in SUBSET (HeldTokens \ {h})
    BY <1>1, <1>5, <1>7, <1>h, <1>m, UnconnectHeld DEF HeldTokens
  <1>9. TokensOK(net, K, rhs, Shut, proxied)
    BY <1>2, <1>5, <1>8, TakeHeld
  <1>10. TokensOK(Put(net, e, k), K, rhs, Shut, proxied)
    <2>1. Added(net, Put(net, e, k), Peer[e], k)
      BY <1>4, <1>5, PutFacts
    <2>2. QED BY <1>2, <1>3, <1>4, <1>5, <1>8, <2>1, MoveFromHeld
  <1>11. /\ \/ state'[e] = state[e] /\ state[e] = "Disconnected"
            \/ state'[e] = "Connected" /\ state[e] = "RedirectReceived"
         /\ \A x \in Ends \ {e} : state'[x] = state[x]
         /\ state' \in [Ends -> UpperStates \cup LowerStates]
         /\ Shut' = Shut
         /\ net' \in {net, Put(net, e, k)}
    <2>1. CASE Closed(e)
      BY <1>2, <1>5, <2>1 DEF ConnectFailed, Closed, PrTypeOK, Shut
    <2>2. CASE ~Closed(e)
      <3>1. state' = [state EXCEPT ![e] = "Connected"] /\ net' = Put(net, e, k)
        BY <1>m, <1>k, <2>2 DEF ConnectFailed
      <3>2. state'[e] = "Connected" /\ \A x \in Ends \ {e} : state'[x] = state[x]
        BY <1>5, <3>1 DEF PrTypeOK
      <3>3. state' \in [Ends -> UpperStates \cup LowerStates]
        BY <1>5, <3>1 DEF PrTypeOK, LowerStates
      <3>4. Shut' = Shut
        BY <2>2, <3>2 DEF Shut, Closed
      <3>5. QED BY <1>2, <2>2, <3>1, <3>2, <3>3, <3>4 DEF Closed
    <2>3. QED BY <2>1, <2>2
  <1>12. \A q : NetFor(q, state, broken, proxied) => NetFor(q, state', broken, proxied)
    <2>0. SUFFICES ASSUME NEW q, NetFor(q, state, broken, proxied)
                   PROVE  NetFor(q, state', broken, proxied)
      OBVIOUS
    <2>1. \A x \in Ends : state'[x] = "Disconnected" => state[x] = "Disconnected"
      BY <1>11
    <2>2. state'["client"] = state["client"] /\ state'["target"] = state["target"]
      BY <1>2, <1>11 DEF Lower, Ends
    <2>3. \A x \in Lower : state'[x] = state[x] \/ (state[x] \in Settled /\ state'[x] \in Settled)
      BY <1>2, <1>11, EndsFacts DEF Settled
    <2>4. HelloLink(q["client"], q["host"], state["client"], state'["host"], {"client", "host"} \in broken)
      BY <2>0, <2>3, LowerSettled DEF NetFor, Lower
    <2>5. HelloLink(q["target"], q["agent"], state["target"], state'["agent"], {"target", "agent"} \in broken)
      BY <2>0, <2>3, LowerSettled DEF NetFor, Lower
    <2>6. QED BY <2>0, <2>1, <2>2, <2>4, <2>5 DEF NetFor
  <1>13. NetFor(net', state', broken, proxied)
    <2>1. NetFor(Put(net, e, k), state, broken, proxied)
      BY <1>2, <1>4, <1>5, NetPut
    <2>2. QED BY <1>5, <1>11, <1>12, <2>1
  <1>14. PrTypeOK'
    <2>1. (\A x \in Upper : state'[x] \in UpperStates) /\ \A x \in Lower : state'[x] \in LowerStates
      BY <1>2, <1>5, <1>11, EndsFacts DEF PrTypeOK, LowerStates
    <2>2. QED BY <1>1, <1>5, <1>6, <1>11, <1>13, <2>1 DEF PrTypeOK, NetFor
  <1>15. TokenInv'
    BY <1>1, <1>7, <1>9, <1>10, <1>11 DEF TokenInv, HeldTokens
  <1>16. HandlersOK(rhs)' /\ NetFor(net, state, broken, proxied)'
    BY <1>1, <1>13 DEF PrInv
  <1>17. RedirectStates(rhs, state)'
    BY <1>1, <1>2, <1>11 DEF PrInv, RedirectStates, Lower, Ends
  <1>18. ProxyInv'
    <2>1. \A x \in Ends : connecting'[x] # NoInfo =>
             x \in Lower /\ state'[x] \in {"RedirectReceived", "Disconnected"}
      BY <1>6, <1>11 DEF PrInv, ProxyInv
    <2>2. proxied => state'["host"] = state["host"] /\ connecting'["host"] = connecting["host"]
      BY <1>2, <1>6, <1>11 DEF Ends
    <2>3. ~proxied => state'["agent"] = state["agent"] /\ state'["host"] # "HelloReceived"
      BY <1>2, <1>11 DEF PrInv, ProxyInv, Ends
    <2>4. state'["target"] = state["target"]
      BY <1>2, <1>11 DEF Lower, Ends
    <2>5. \A x \in Ends : state'[x] = "Disconnected" => rhs[x] = {}
      BY <1>11 DEF PrInv, ProxyInv
    <2>6. QED BY <1>1, <2>1, <2>2, <2>3, <2>4, <2>5 DEF PrInv, ProxyInv, ProxyPair
  <1>19. CallsOK(rhs, failed, issued, calls)' /\ NoSurprise'
    BY <1>1 DEF PrInv, NoSurprise
  <1>20. QED BY <1>14, <1>15, <1>16, <1>17, <1>18, <1>19 DEF PrInv

\* The proxy may be created at any time.
LEMMA ProxyCreated ==
    ASSUME NEW q, NEW H, NEW rh, NEW cl, NEW prox, TokensOK(q, H, rh, cl, prox), NEW prox2,
           prox => prox2
    PROVE  TokensOK(q, H, rh, cl, prox2)
  <1>1. Routed(q, prox2)
    BY DEF TokensOK, Routed, RoutedOne
  <1>2. HeldOK(H, prox2)
    BY DEF TokensOK, HeldOK
  <1>3. QED BY <1>1, <1>2 DEF TokensOK

\* proxy_create(): the handlers of the end e are called and detached.
LEMMA EndDetached ==
    ASSUME PrInv, NEW e \in Lower, rhs' = [rhs EXCEPT ![e] = Detach(rhs[e])],
           calls' = Call(LiveApp(e), "closed")
    PROVE  /\ rhs' \in [Ends -> SUBSET Handlers] /\ \A x \in Ends : IsFiniteSet(rhs'[x])
           /\ rhs'[e] = Detach(rhs[e]) /\ \A x \in Ends \ {e} : rhs'[x] = rhs[x]
           /\ \A r \in rhs'[e] : r.kind = "dead"
           /\ Keeps(rhs, rhs') /\ HandlersOK(rhs')
           /\ calls' \in [Cmds -> Seq(AnswerTypes)]
           /\ CallsOK(rhs', failed, issued, calls')
  <1>1. e \in Ends /\ PrTypeOK /\ HandlersOK(rhs) /\ CallsOK(rhs, failed, issued, calls)
    BY EndsFacts DEF PrInv
  <1>2. /\ rhs \in [Ends -> SUBSET Handlers] /\ (\A x \in Ends : IsFiniteSet(rhs[x]))
        /\ failed \in SUBSET Cmds /\ calls \in [Cmds -> Seq(AnswerTypes)] /\ "closed" \in AnswerTypes
    BY <1>1 DEF PrTypeOK, AnswerTypes
  <1>3. rhs[e] \subseteq Handlers
    BY <1>1, <1>2
  <1>4. /\ Detach(rhs[e]) \subseteq Handlers
        /\ \A s \in Detach(rhs[e]) : s.kind = "dead"
        /\ \A r \in rhs[e] : \E s \in Detach(rhs[e]) : s.n = r.n /\ s.cmd = r.cmd
        /\ IsFiniteSet(Detach(rhs[e]))
    BY <1>1, <1>2, <1>3, DetachFacts
  <1>5. rhs'[e] = Detach(rhs[e]) /\ \A x \in Ends \ {e} : rhs'[x] = rhs[x]
    BY <1>1, <1>2
  <1>6. rhs' \in [Ends -> SUBSET Handlers]
    BY <1>1, <1>2, <1>4
  <1>7. \A x \in Ends : IsFiniteSet(rhs'[x])
    BY <1>2, <1>4, <1>5
  <1>8. Keeps(rhs, rhs')
    BY <1>4, <1>5 DEF Keeps
  <1>9. HandlersOK(rhs')
    <2>1. \A r \in rhs[e] : r.cmd \notin Redirects
      BY NoRedirectBelow
    <2>2. HandlersAt(e, Detach(rhs[e]))
      BY <1>1, <1>3, <2>1, HandlersDetach DEF HandlersOK
    <2>3. QED BY <1>1, <1>5, <2>2 DEF HandlersOK
  <1>10. /\ calls' \in [Cmds -> Seq(AnswerTypes)]
         /\ \A c \in Cmds \ LiveApp(e) : calls'[c] = calls[c]
    BY <1>2, CallFacts
  <1>11. CallsOK(rhs', failed, issued, calls')
    <2>1. CalledAt({e}, rhs, calls, calls')
      BY <1>10 DEF LiveApp, CalledAt
    <2>2. GoneAt({e}, rhs, rhs') /\ {e} \in SUBSET Ends
      BY <1>1, <1>4, <1>5 DEF GoneAt
    <2>3. QED BY <1>1, <1>2, <2>1, <2>2, CallsClosed
  <1>12. QED BY <1>4, <1>5, <1>6, <1>7, <1>8, <1>9, <1>10, <1>11

LEMMA ConnectSucceededStep ==
    ASSUME PrInv, NEW e \in Ends, ConnectSucceeded(e)
    PROVE  PrInv'
  <1>m. PICK m : m = connecting[e][1] OBVIOUS
  <1>h. PICK h : h = Held("connects", e, Peer[e], m) OBVIOUS
  <1>1. /\ connecting[e] # NoInfo
        /\ connecting' = [connecting EXCEPT ![e] = NoInfo]
        /\ UNCHANGED <<failed, serving, broken, issued>>
    BY DEF ConnectSucceeded
  <1>2. /\ e \in Lower /\ state[e] \in {"RedirectReceived", "Disconnected"}
        /\ proxied \/ e = "host"
        /\ proxied => e = "agent"
        /\ h \in HeldTokens
        /\ m \in Msgs /\ m.type = "C" /\ m.cmd \in Redirects /\ m.hops = 0
    BY <1>1, <1>m, <1>h, Connects
  <1>3. h.kind = "connects" /\ h.own = Peer[e] /\ h.msg = m
    BY <1>h, HeldFields
  <1>k. PICK k : k = Reply(m, "R", TRUE) OBVIOUS
  <1>4. /\ k \in Msgs /\ k.type = "R" /\ k.hops = 0 /\ k.ok /\ k.cmd = m.cmd /\ SameToken(m, k)
        /\ Owner(Peer[e], k) = Peer[e] /\ Peer[e] \in Ends /\ RoutedOne(Peer[e], k, proxied)
    BY <1>2, <1>k, ConnectsReply
  <1>5. /\ net \in Queues /\ TokensOK(net, HeldTokens, rhs, Shut, proxied) /\ PrTypeOK
        /\ NetFor(net, state, broken, proxied) /\ DOMAIN connecting = Ends
    BY DEF PrInv, PrTypeOK, TokenInv, Queues
  <1>6. /\ connecting' \in [Ends -> {NoInfo} \cup {<<x>> : x \in Msgs}]
        /\ connecting'[e] = NoInfo /\ \A x \in Ends \ {e} : connecting'[x] = connecting[x]
    BY <1>1, <1>5 DEF PrTypeOK
  <1>7. PICK K : K = HeldOf(serving, connecting', rhs["target"]) OBVIOUS
  <1>8. K \in SUBSET (HeldTokens \ {h})
    BY <1>1, <1>5, <1>7, <1>h, <1>m, UnconnectHeld DEF HeldTokens
  <1>9. TokensOK(net, K, rhs, Shut, proxied)
    BY <1>2, <1>5, <1>8, TakeHeld
  <1>10. CASE Closed(e)
    <2>1. UNCHANGED <<state, services, tokenid, rhs, proxied, net, calls, faults>>
      BY <1>10 DEF ConnectSucceeded
    <2>2. PrTypeOK'
      BY <1>1, <1>5, <1>6, <2>1 DEF PrTypeOK
    <2>3. TokenInv'
      BY <1>1, <1>7, <1>9, <2>1 DEF TokenInv, HeldTokens, Shut
    <2>4. HandlersOK(rhs)' /\ NetFor(net, state, broken, proxied)' /\ RedirectStates(rhs, state)'
      BY <1>1, <2>1 DEF PrInv
    <2>5. ProxyInv'
      <3>1. \A x \in Ends : connecting'[x] # NoInfo =>
               x \in Lower /\ state[x] \in {"RedirectReceived", "Disconnected"}
        BY <1>6 DEF PrInv, ProxyInv
      <3>2. proxied => connecting'["host"] = NoInfo
        BY <1>6 DEF PrInv, ProxyInv, Ends
      <3>3. QED BY <1>1, <2>1, <3>1, <3>2 DEF PrInv, ProxyInv, ProxyPair
    <2>6. CallsOK(rhs, failed, issued, calls)' /\ NoSurprise'
      BY <1>1, <2>1 DEF PrInv, NoSurprise
    <2>7. QED BY <2>2, <2>3, <2>4, <2>5, <2>6 DEF PrInv
  <1>11. CASE ~Closed(e)
    <2>0. state[e] = "RedirectReceived"
      BY <1>2, <1>11 DEF Closed
    <2>1. PICK q : q = IF e = "host" THEN Put(net, "target", Plain("Hello")) ELSE net
      OBVIOUS
    <2>2. /\ faults' = faults
          /\ state' = [x \in Ends |-> IF x = e THEN "HelloReceived"
                                      ELSE IF e = "host" /\ x = "target" THEN "HelloSent"
                                      ELSE state[x]]
          /\ proxied' = (proxied \/ e = "host")
          /\ rhs' = [rhs EXCEPT ![e] = Detach(rhs[e])]
          /\ calls' = Call(LiveApp(e), "closed")
          /\ tokenid' = [tokenid EXCEPT ![e] = 1 % TokenMod]
          /\ net' = Put(q, e, k)
      BY <1>11, <1>m, <1>k, <2>0, <2>1 DEF ConnectSucceeded
    <2>3. /\ rhs' \in [Ends -> SUBSET Handlers] /\ (\A x \in Ends : IsFiniteSet(rhs'[x]))
          /\ (\A x \in Ends \ {e} : rhs'[x] = rhs[x])
          /\ (\A r \in rhs'[e] : r.kind = "dead")
          /\ Keeps(rhs, rhs') /\ HandlersOK(rhs')
          /\ calls' \in [Cmds -> Seq(AnswerTypes)]
          /\ CallsOK(rhs', failed, issued, calls')
      BY <1>2, <2>2, EndDetached
    <2>4. proxied' = TRUE
      BY <1>2, <2>2
    <2>c. /\ ("client" \in Ends /\ "host" \in Ends /\ "target" \in Ends /\ "agent" \in Ends)
          /\ e \in {"host", "agent"} /\ Peer["host"] = "client" /\ Peer["agent"] = "target"
          /\ Peer["target"] = "agent"
      BY <1>2 DEF Ends, Lower, Peer
    <2>5. /\ state'[e] = "HelloReceived" /\ state'["client"] = state["client"]
          /\ state' \in [Ends -> UpperStates \cup LowerStates]
          /\ e = "host" => state'["target"] = "HelloSent" /\ state'["agent"] = state["agent"]
          /\ e = "agent" => state'["target"] = state["target"] /\ state'["host"] = state["host"]
      BY <1>5, <2>2, <2>c DEF PrTypeOK, UpperStates, LowerStates
    <2>6. ~proxied => /\ state["target"] = "StartWait" /\ state["agent"] = "StartWait"
                      /\ rhs["target"] = {} /\ net["target"] = <<>> /\ net["agent"] = <<>>
      BY <1>5 DEF PrInv, ProxyInv, NetFor
    <2>e. (e = "host" <=> ~proxied) /\ (e = "agent" <=> proxied)
      BY <1>2, <2>c
    <2>7. Shut' = Shut
      <3>1. \A x \in Ends : state'[x] = "Disconnected" <=> state[x] = "Disconnected"
        BY <2>0, <2>2, <2>6, <2>e
      <3>2. QED BY <3>1 DEF Shut
    <2>8. /\ q \in Queues /\ TokensOK(q, HeldTokens, rhs, Shut, proxied)
          /\ \A x \in Ends : q[x] = net[x] \/ (e = "host" /\ x = "agent")
      <3>1. CASE e # "host" BY <1>5, <2>1, <3>1
      <3>2. CASE e = "host"
        <4>1. Plain("Hello") \in Msgs /\ Plain("Hello").type \notin Tokens /\ Plain("Hello").hops = 0
          BY PlainFacts
        <4>2. q = Put(net, "target", Plain("Hello"))
          BY <2>1, <3>2
        <4>p. PICK k2 : k2 = Plain("Hello") OBVIOUS
        <4>3. /\ q \in Queues /\ Added(net, q, "agent", Plain("Hello"))
              /\ \A x \in Ends \ {"agent"} : q[x] = net[x]
          <5>1. /\ Put(net, "target", k2) \in Queues
                /\ Added(net, Put(net, "target", k2), Peer["target"], k2)
                /\ \A x \in Ends \ {Peer["target"]} : Put(net, "target", k2)[x] = net[x]
            BY <1>5, <2>c, <4>1, <4>p, PutFacts, ZenonT(40)
          <5>2. QED BY <2>c, <4>2, <4>p, <5>1
        <4>4. TokensOK(q, HeldTokens, rhs, Shut, proxied)
          BY <1>5, <2>c, <4>1, <4>3, AddPlain
        <4>5. QED BY <3>2, <4>3, <4>4
      <3>3. QED BY <3>1, <3>2
    <2>9. /\ Put(q, e, k) \in Queues /\ Added(q, Put(q, e, k), Peer[e], k)
          /\ Grown(q[Peer[e]], Put(q, e, k)[Peer[e]], k)
          /\ ~Closed(Peer[e]) /\ {e, Peer[e]} \notin broken =>
                Put(q, e, k)[Peer[e]] = Append(q[Peer[e]], k)
          /\ Closed(Peer[e]) \/ {e, Peer[e]} \in broken => Put(q, e, k) = q
          /\ \A x \in Ends \ {Peer[e]} : Put(q, e, k)[x] = q[x]
      <3>1. q \in Queues /\ k \in Msgs
        BY <1>4, <2>8
      <3>2. QED BY <3>1, PutFacts
    <2>10. TokensOK(net', K, rhs', Shut, proxied')
      <3>1. TokensOK(Put(q, e, k), K, rhs, Shut, proxied)
        BY <1>2, <1>3, <1>4, <1>8, <2>8, <2>9, MoveFromHeld
      <3>2. TokensOK(Put(q, e, k), K, rhs', Shut, proxied)
        BY <2>3, <2>9, <3>1, OtherHandlers DEF Keeps
      <3>3. QED BY <2>2, <2>4, <3>2, ProxyCreated
    <2>p. PICK p : p = net' OBVIOUS
    <2>11. /\ state[Peer[e]] \in {"RedirectSent", "Disconnected"} /\ NoGranted(net[Peer[e]])
           /\ state[Peer[e]] = "Disconnected" => net[Peer[e]] = <<>>
           /\ net[Peer[e]] \in Seq(Msgs)
      <3>1. state[h.own] \in {"RedirectSent", "Disconnected"} /\ NoGranted(net[h.own])
        BY <1>2, <1>3, Waits
      <3>2. QED BY <1>3, <1>4, <1>5, <3>1 DEF NetFor, Queues
    <2>12. ASSUME NEW cut, cut <=> {e, Peer[e]} \in broken,
                  HelloLink(net[Peer[e]], net[e], state[Peer[e]], state[e], cut)
           PROVE  HelloLink(p[Peer[e]], net[e], state[Peer[e]], "HelloReceived", cut)
      <3>1. Granted(k) /\ state[e] \in Settled
        BY <1>2, <1>4, <2>0 DEF Granted, Settled
      <3>2. q[Peer[e]] = net[Peer[e]]
        BY <2>8, <2>c
      <3>3. Grown(net[Peer[e]], p[Peer[e]], k)
        BY <2>2, <2>9, <2>p, <3>2
      <3>4. ~cut /\ state[Peer[e]] # "Disconnected" => p[Peer[e]] = Append(net[Peer[e]], k)
        BY <2>2, <2>9, <2>p, <2>12, <3>2 DEF Closed
      <3>5. QED BY <1>4, <2>11, <2>12, <3>1, <3>3, <3>4, LowerGrants
    <2>13. NetFor(p, state', broken, TRUE)
      <3>0. /\ HelloLink(net["client"], net["host"], state["client"], state["host"], {"client", "host"} \in broken)
            /\ HelloLink(net["target"], net["agent"], state["target"], state["agent"], {"target", "agent"} \in broken)
        BY <1>5 DEF NetFor
      <3>1. CASE e = "host"
        <4>1. p["host"] = net["host"] /\ p["target"] = net["target"] /\ p["agent"] = q["agent"]
          BY <2>2, <2>p, <2>8, <2>9, <2>c, <3>1
        <4>2. HelloLink(p["client"], p["host"], state'["client"], state'["host"], {"client", "host"} \in broken)
          <5>1. {e, Peer[e]} = {"client", "host"}
            BY <2>c, <3>1
          <5>2. QED BY <2>5, <2>12, <2>c, <3>0, <3>1, <4>1, <5>1
        <4>3. HelloLink(p["target"], p["agent"], state'["target"], state'["agent"], {"target", "agent"} \in broken)
          <5>1. ~proxied
            BY <2>e, <3>1
          <5>2. Plain("Hello") \in Msgs /\ Plain("Hello").type = "Hello"
            BY PlainFacts
          <5>3. q = Put(net, "target", Plain("Hello"))
            BY <2>1, <3>1
          <5>4. Grown(net["agent"], q["agent"], Plain("Hello"))
            BY <1>5, <2>c, <5>2, <5>3, PutFacts
          <5>5. net["agent"] \in Seq(Msgs) /\ state["agent"] # "Disconnected"
            BY <1>5, <2>c, <2>6, <5>1 DEF Queues
          <5>6. HelloLink(net["target"], net["agent"], "StartWait", state["agent"], {"target", "agent"} \in broken)
            BY <2>6, <3>0, <5>1
          <5>7. HelloLink(net["target"], q["agent"], "HelloSent", state["agent"], {"target", "agent"} \in broken)
            BY <5>2, <5>4, <5>5, <5>6, UpperStarts
          <5>8. QED BY <2>5, <3>1, <4>1, <5>7
        <4>4. \A x \in Ends : state'[x] = "Disconnected" => p[x] = <<>>
          <5>1. \A x \in Ends : state'[x] = "Disconnected" =>
                   state[x] = "Disconnected" /\ net[x] = <<>> /\ x # "agent" /\ x # "host" /\ x # "target"
            BY <1>5, <2>5, <2>6, <2>e, <2>2, <3>1 DEF NetFor
          <5>2. state["client"] = "Disconnected" => p["client"] = net["client"]
            BY <2>2, <2>p, <2>8, <2>9, <2>c, <3>1 DEF Closed
          <5>3. QED BY <5>1, <5>2, <2>5 DEF Ends
        <4>5. QED BY <2>2, <2>p, <2>9, <4>2, <4>3, <4>4 DEF NetFor, Queues
      <3>2. CASE e = "agent"
        <4>0. q = net
          BY <2>1, <3>2
        <4>1. p["host"] = net["host"] /\ p["client"] = net["client"] /\ p["agent"] = net["agent"]
          BY <2>2, <2>p, <2>9, <2>c, <3>2, <4>0
        <4>2. HelloLink(p["client"], p["host"], state'["client"], state'["host"], {"client", "host"} \in broken)
          BY <2>5, <3>0, <3>2, <4>1
        <4>3. HelloLink(p["target"], p["agent"], state'["target"], state'["agent"], {"target", "agent"} \in broken)
          <5>1. {e, Peer[e]} = {"target", "agent"}
            BY <2>c, <3>2
          <5>2. QED BY <2>5, <2>12, <2>c, <3>0, <3>2, <4>1, <5>1
        <4>4. \A x \in Ends : state'[x] = "Disconnected" => p[x] = <<>>
          <5>1. \A x \in Ends : state'[x] = "Disconnected" =>
                   state[x] = "Disconnected" /\ net[x] = <<>>
            BY <1>5, <2>5, <2>2, <3>2 DEF NetFor
          <5>2. state["target"] = "Disconnected" => p["target"] = net["target"]
            BY <2>2, <2>p, <2>9, <2>c, <3>2, <4>0 DEF Closed
          <5>3. QED BY <4>1, <5>1, <5>2 DEF Ends
        <4>5. QED BY <2>2, <2>p, <2>9, <4>2, <4>3, <4>4 DEF NetFor, Queues
      <3>3. QED BY <2>c, <3>1, <3>2
    <2>14. PrTypeOK'
      <3>1. (\A x \in Upper : state'[x] \in UpperStates) /\ \A x \in Lower : state'[x] \in LowerStates
        BY <1>2, <1>5, <2>2, <2>e, EndsFacts DEF PrTypeOK, UpperStates, LowerStates, Upper, Lower
      <3>2. tokenid' \in [Ends -> 0..(TokenMod - 1)]
        <4>1. 1 % TokenMod \in 0..(TokenMod - 1)
          BY ProtocolAssumption
        <4>2. QED BY <1>5, <2>2, <4>1 DEF PrTypeOK
      <3>3. net' \in [Ends -> Seq(Msgs)]
        BY <2>2, <2>9 DEF Queues
      <3>4. QED BY <1>1, <1>5, <1>6, <2>3, <2>5, <3>1, <3>2, <3>3 DEF PrTypeOK, AnswerTypes
    <2>15. TokenInv'
      <3>1. rhs'["target"] = rhs["target"]
        BY <2>3, <2>c
      <3>2. QED BY <1>1, <1>7, <2>7, <2>10, <3>1 DEF TokenInv, HeldTokens
    <2>16. HandlersOK(rhs)' /\ CallsOK(rhs, failed, issued, calls)'
      BY <1>1, <2>3
    <2>17. RedirectStates(rhs, state)'
      <3>1. ASSUME NEW x \in Ends, NEW r \in rhs'[x], RedirectHandler(r)
            PROVE  state'[x] = "RedirectSent"
        <4>1. x # e /\ r \in rhs[x]
          BY <2>3, <3>1 DEF RedirectHandler
        <4>2. state[x] = "RedirectSent"
          BY <3>1, <4>1 DEF PrInv, RedirectStates
        <4>3. QED BY <2>2, <2>6, <2>e, <4>1, <4>2
      <3>2. state'["target"] = "RedirectSent" => state["target"] = "RedirectSent"
        BY <2>5, <2>c
      <3>3. rhs'["target"] = rhs["target"]
        BY <2>3, <2>c
      <3>4. QED BY <3>1, <3>2, <3>3 DEF PrInv, RedirectStates
    <2>18. NetFor(net, state, broken, proxied)'
      BY <1>1, <2>4, <2>p, <2>13
    <2>19. ProxyInv'
      <3>1. <<state'["host"], state'["target"]>> \in
              {<<"HelloReceived", "HelloSent">>, <<"Connected", "Connected">>,
               <<"Connected", "RedirectSent">>, <<"Disconnected", "Disconnected">>}
        <4>1. CASE e = "host" BY <2>5, <4>1
        <4>2. CASE e = "agent" BY <2>5, <2>e, <4>2 DEF PrInv, ProxyInv, ProxyPair
        <4>3. QED BY <2>c, <4>1, <4>2
      <3>2. connecting'["host"] = NoInfo
        BY <1>6, <2>c, <2>e DEF PrInv, ProxyInv
      <3>3. ASSUME NEW x \in Ends, connecting'[x] # NoInfo
            PROVE  x \in Lower /\ state'[x] \in {"RedirectReceived", "Disconnected"}
        <4>1. x # e /\ connecting[x] # NoInfo
          BY <1>6, <3>3
        <4>2. x \in Lower /\ state[x] \in {"RedirectReceived", "Disconnected"}
          BY <4>1 DEF PrInv, ProxyInv
        <4>3. QED BY <2>2, <4>1, <4>2 DEF Lower
      <3>4. \A x \in Ends : state'[x] = "Disconnected" => rhs'[x] = {}
        BY <2>2, <2>3 DEF PrInv, ProxyInv
      <3>5. QED BY <2>4, <3>1, <3>2, <3>3, <3>4 DEF ProxyInv, ProxyPair
    <2>20. NoSurprise'
      BY <2>2 DEF PrInv, NoSurprise
    <2>21. QED BY <2>14, <2>15, <2>16, <2>17, <2>18, <2>19, <2>20 DEF PrInv
  <1>12. QED BY <1>10, <1>11

-----------------------------------------------------------------------------
(***************************************************************************)
(* Replies that call a handler                                             *)
(***************************************************************************)

\* Only the handler of the command d is called, and it is not among the structures rh2.
CalledOnly(d, rh, rh2, ca, ca2) ==
    /\ \A x \in Ends : rh2[x] \subseteq rh[x] /\ rh[x] \subseteq Handlers
    /\ \A x \in Ends : \A r \in rh2[x] : r.kind = "app" => r.cmd # d
    /\ \A c \in Cmds \ {d} : ca2[c] = ca[c]

LEMMA CallsOne ==
    ASSUME NEW rh, NEW fl \in SUBSET Cmds, NEW iss, NEW ca, CallsOK(rh, fl, iss, ca),
           NEW d \in iss \ fl, NEW rh2, NEW ca2, CalledOnly(d, rh, rh2, ca, ca2)
    PROVE  CallsOK(rh2, fl, iss, ca2)
  <1>1. ASSUME NEW x \in Ends, NEW r \in rh2[x], r.kind = "app"
        PROVE  /\ r.cmd \in iss \ fl /\ ca2[r.cmd] = <<>>
               /\ \A s \in rh2[x] : s.kind = "app" /\ s.cmd = r.cmd => s = r
    <2>1. r \in rh[x] /\ r.cmd \in Cmds \ {d} /\ rh2[x] \subseteq rh[x]
      BY <1>1 DEF Handlers, CalledOnly
    <2>2. QED BY <1>1, <2>1 DEF CallsOK, CalledOnly
  <1>2. QED BY <1>1 DEF CallsOK, CalledOnly

\* A command is issued by a handler, and its own handler is called or not.
OneMore(e, h, rh, rh2) ==
    /\ rh2[e] = rh[e] \cup {h} /\ \A x \in Ends \ {e} : rh2[x] = rh[x]
    /\ \A x \in Ends : rh[x] \subseteq Handlers

SameCalls(c, ca, ca2) == \A d \in Cmds \ {c} : ca2[d] = ca[d]

LEMMA CallsIssuedMore ==
    ASSUME NEW rh, NEW fl \in SUBSET Cmds, NEW iss, NEW ca, CallsOK(rh, fl, iss, ca),
           NEW c \in Cmds, c \notin iss, NEW rh2, NEW e \in Ends, NEW h, h.cmd = c,
           OneMore(e, h, rh, rh2), NEW ca2, SameCalls(c, ca, ca2), h.kind = "app" => ca2[c] = <<>>
    PROVE  CallsOK(rh2, fl, iss \cup {c}, ca2)
  <1>0. \A x \in Ends : \A r \in rh[x] : r.cmd \in Cmds
    BY DEF Handlers, OneMore
  <1>1. ASSUME NEW x \in Ends, NEW r \in rh2[x], r.kind = "app"
        PROVE  /\ r.cmd \in (iss \cup {c}) \ fl /\ ca2[r.cmd] = <<>>
               /\ \A s \in rh2[x] : s.kind = "app" /\ s.cmd = r.cmd => s = r
    <2>1. CASE x # e
      BY <1>0, <1>1, <2>1 DEF CallsOK, OneMore, SameCalls
    <2>2. CASE x = e
      BY <1>0, <1>1, <2>2 DEF CallsOK, OneMore, SameCalls
    <2>3. QED BY <2>1, <2>2
  <1>2. QED BY <1>1 DEF CallsOK, SameCalls

LEMMA DeliverStep ==
    ASSUME PrInv, NEW e, NEW m, Receives(e, m), m.type \in {"R", "N"}, m.hops = 0,
           NEW r \in rhs[e], r.n = m.n,
           r.kind = "dead" \/ (r.kind = "app" /\ r.cmd \notin Redirects),
           rhs' = [rhs EXCEPT ![e] = @ \ {r}],
           calls' = IF r.kind = "dead" THEN calls
                    ELSE Call({r.cmd}, IF m.cmd # r.cmd THEN "wrong"
                                       ELSE IF m.type = "N" THEN "rejected" ELSE "reply"),
           net' = Got(e),
           UNCHANGED <<state, services, tokenid, issued>>, ReplyKeeps
    PROVE  PrInv'
  <1>0. UNCHANGED <<failed, proxied, connecting, serving, broken, faults>>
    BY DEF ReplyKeeps
  <1>1. /\ e \in Ends /\ net \in Queues /\ Took(net, Got(e), e) /\ Got(e) \in Queues
        /\ m = Head(net[e]) /\ TokensOK(Got(e), HeldTokens, rhs, Shut, proxied)
    BY Received
  <1>2. r.cmd = m.cmd /\ Fresh(Got(e), HeldTokens, e, r) /\ NoProgress(Got(e), e, r)
    BY ReplyFound
  <1>3. r.cmd \notin Redirects
    BY <1>1 DEF PrInv, HandlersOK, HandlersAt
  <1>4. PrTypeOK /\ HandlersOK(rhs) /\ CallsOK(rhs, failed, issued, calls)
        /\ NetFor(net, state, broken, proxied)
    BY DEF PrInv
  <1>5. /\ rhs' \in [Ends -> SUBSET Handlers] /\ rhs'[e] = rhs[e] \ {r}
        /\ \A x \in Ends \ {e} : rhs'[x] = rhs[x]
        /\ \A x \in Ends : rhs'[x] \subseteq rhs[x] /\ rhs[x] \subseteq Handlers
    BY <1>1, <1>4 DEF PrTypeOK
  <1>6. \A x \in Ends : IsFiniteSet(rhs'[x])
    BY <1>4, <1>5, FS_Subset DEF PrTypeOK
  <1>7. TokensOK(Got(e), HeldTokens, rhs', Shut, proxied)
    BY <1>1, <1>2, <1>5, DropHandler
  <1>8. HeldOf(serving, connecting, rhs'["target"]) = HeldTokens
    <2>1. {s \in rhs["target"] : s.kind = "relay"} = {s \in rhs'["target"] : s.kind = "relay"}
      BY <1>1, <1>5 DEF Ends
    <2>2. QED BY <2>1, SameRelays DEF HeldTokens
  <1>9. NetFor(Got(e), state, broken, proxied)
    <2>1. ~Granted(Head(net[e]))
      BY <1>1, <1>2, <1>3 DEF Granted
    <2>2. QED BY <1>1, <1>4, <2>1, NetTake
  <1>10. /\ calls' \in [Cmds -> Seq(AnswerTypes)] /\ \A c \in Cmds \ {r.cmd} : calls'[c] = calls[c]
         /\ r.kind = "dead" => calls' = calls
    <2>1. calls \in [Cmds -> Seq(AnswerTypes)]
      BY <1>4 DEF PrTypeOK, AnswerTypes
    <2>2. CASE r.kind = "dead" BY <2>1, <2>2
    <2>3. CASE r.kind # "dead"
      <3>1. PICK a \in AnswerTypes : calls' = Call({r.cmd}, a)
        BY <1>2, <2>3 DEF AnswerTypes
      <3>2. /\ Call({r.cmd}, a) \in [Cmds -> Seq(AnswerTypes)]
            /\ \A c \in Cmds \ {r.cmd} : Call({r.cmd}, a)[c] = calls[c]
        BY <2>1, CallFacts
      <3>3. QED BY <2>3, <3>1, <3>2
    <2>4. QED BY <2>2, <2>3
  <1>11. CallsOK(rhs', failed, issued, calls')
    <2>1. CASE r.kind = "dead"
      BY <1>4, <1>5, <1>10, <2>1 DEF CallsOK
    <2>2. CASE r.kind = "app"
      <3>1. r.cmd \in issued \ failed /\ failed \in SUBSET Cmds
        BY <1>1, <1>4, <2>2 DEF CallsOK, PrTypeOK
      <3>2. ASSUME NEW x \in Ends, NEW s \in rhs'[x], s.kind = "app", s.cmd = r.cmd PROVE FALSE
        <4>1. s \in rhs[x] /\ Origin[s.cmd] = x /\ Origin[r.cmd] = e
          BY <1>1, <1>4, <1>5, <2>2, <3>2 DEF HandlersOK, HandlersAt
        <4>2. x = e /\ s # r
          BY <1>5, <3>2, <4>1
        <4>3. QED BY <1>1, <1>4, <2>2, <3>2, <4>1, <4>2 DEF CallsOK
      <3>3. \A x \in Ends : \A s \in rhs'[x] : s.kind = "app" => s.cmd # r.cmd
        BY <3>2
      <3>4. CalledOnly(r.cmd, rhs, rhs', calls, calls')
        BY <1>5, <1>10, <3>3 DEF CalledOnly
      <3>5. QED BY <1>4, <3>1, <3>4, CallsOne
    <2>3. QED BY <2>1, <2>2
  <1>12. PrTypeOK'
    BY <1>0, <1>4, <1>5, <1>6, <1>9, <1>10 DEF PrTypeOK, NetFor, AnswerTypes
  <1>13. TokenInv'
    BY <1>0, <1>7, <1>8 DEF TokenInv, HeldTokens, Shut
  <1>14. HandlersOK(rhs)'
    BY <1>4, <1>5, HandlersFewer DEF HandlersOK
  <1>15. RedirectStates(rhs, state)'
    BY <1>0, <1>1, <1>5 DEF PrInv, RedirectStates, Ends
  <1>16. NetFor(net, state, broken, proxied)' /\ CallsOK(rhs, failed, issued, calls)'
    BY <1>0, <1>9, <1>11
  <1>17. ProxyInv' /\ NoSurprise'
    BY <1>0, <1>5 DEF PrInv, ProxyInv, ProxyPair, NoSurprise, Ends
  <1>18. QED BY <1>12, <1>13, <1>14, <1>15, <1>16, <1>17 DEF PrInv

\* A redirect that is refused was the only one.
LEMMA OnlyGrant ==
    ASSUME PrInv, NEW e, NEW m, Receives(e, m), m.type \in {"R", "N"}, m.hops = 0,
           m.cmd \in Redirects, ~Granted(m)
    PROVE  NoGranted(net[e])
  <1>1. /\ e \in Ends /\ net \in Queues /\ Took(net, Got(e), e)
        /\ m = Head(net[e]) /\ TokensOK(net, HeldTokens, rhs, Shut, proxied)
    BY Received
  <1>2. m = net[e][1] /\ 1 \in 1..Len(net[e])
    BY <1>1, HeadFacts
  <1>3. ASSUME NEW i \in 1..Len(net[e]), Granted(net[e][i]) PROVE FALSE
    <2>1. /\ Fin(net[e][i]) /\ Owner(e, net[e][i]) = e /\ net[e][i].cmd \in Redirects
          /\ Fin(m) /\ Owner(e, m) = e
      BY <1>3 DEF Granted, Fin, Finals, Owner
    <2>2. i = 1
      BY <1>1, <1>2, <2>1 DEF TokensOK, OnePlace, Clash
    <2>3. QED BY <1>2, <1>3, <2>2
  <1>4. QED BY <1>3 DEF NoGranted

\* The handler of a redirect, and the others of its end.
LEMMA RedirectFound ==
    ASSUME PrInv, NEW e \in Ends, NEW r \in rhs[e], RedirectHandler(r)
    PROVE  /\ state[e] = "RedirectSent"
           /\ \A s \in rhs[e] \ {r} : s.cmd \notin Redirects /\ s.kind # "relay"
  <1>1. state[e] = "RedirectSent"
    BY DEF PrInv, RedirectStates
  <1>2. ASSUME NEW s \in rhs[e] \ {r} PROVE s.cmd \notin Redirects /\ s.kind # "relay"
    <2>1. HandlersAt(e, rhs[e])
      BY DEF PrInv, HandlersOK
    <2>2. QED BY <2>1 DEF HandlersAt, RedirectHandler
  <1>3. QED BY <1>1, <1>2

-----------------------------------------------------------------------------
(***************************************************************************)
(* The answers to redirects                                                *)
(***************************************************************************)

\* The client goes on after the answer m to its redirect.
LEMMA ClientMoves ==
    ASSUME PrInv, NEW m, Receives("client", m),
           NEW s \in {"Connected", "HelloSent"}, state' = [state EXCEPT !["client"] = s],
           ReplyKeeps,
           rhs' \in [Ends -> SUBSET Handlers], \A x \in Ends \ {"client"} : rhs'[x] = rhs[x],
           IsFiniteSet(rhs'["client"]), HandlersAt("client", rhs'["client"]),
           \A r \in rhs'["client"] : r.cmd \notin Redirects,
           tokenid' \in [Ends -> 0..(TokenMod - 1)], issued' \in SUBSET Cmds,
           calls' \in [Cmds -> Seq(AnswerTypes)], CallsOK(rhs', failed, issued', calls'),
           TokensOK(net', HeldTokens, rhs', Shut, proxied),
           NetFor(net', state', broken, proxied)
    PROVE  PrInv'
  <1>0. UNCHANGED <<failed, proxied, connecting, serving, broken, faults>>
    BY DEF ReplyKeeps
  <1>1. PrTypeOK
    BY DEF PrInv
  <1>2. state'["client"] = s /\ (\A x \in Ends \ {"client"} : state'[x] = state[x])
        /\ state' \in [Ends -> UpperStates \cup LowerStates] /\ s \in UpperStates
    BY <1>1 DEF PrTypeOK, Ends, UpperStates
  <1>3. Shut' = Shut
    <2>1. state["client"] # "Disconnected"
      BY DEF Receives, Closed
    <2>2. QED BY <1>2, <2>1 DEF Shut
  <1>4. /\ rhs'["target"] = rhs["target"] /\ state'["host"] = state["host"]
        /\ state'["target"] = state["target"] /\ state'["agent"] = state["agent"]
    BY <1>2 DEF Ends
  <1>5. PrTypeOK'
    <2>1. (\A x \in Upper : state'[x] \in UpperStates) /\ \A x \in Lower : state'[x] \in LowerStates
      BY <1>1, <1>2, EndsFacts DEF PrTypeOK, Lower
    <2>2. \A x \in Ends : IsFiniteSet(rhs'[x])
      BY <1>1 DEF PrTypeOK
    <2>3. QED BY <1>0, <1>1, <1>2, <2>1, <2>2 DEF PrTypeOK, NetFor, AnswerTypes
  <1>6. TokenInv'
    BY <1>0, <1>3, <1>4 DEF TokenInv, HeldTokens
  <1>7. HandlersOK(rhs)'
    BY DEF PrInv, HandlersOK
  <1>8. RedirectStates(rhs, state)'
    <2>1. \A x \in Ends : \A r \in rhs'[x] : RedirectHandler(r) => state'[x] = "RedirectSent"
      BY <1>2 DEF PrInv, RedirectStates, RedirectHandler
    <2>2. QED BY <1>4, <2>1 DEF PrInv, RedirectStates
  <1>9. NetFor(net, state, broken, proxied)' /\ CallsOK(rhs, failed, issued, calls)'
    BY <1>0
  <1>10. ProxyInv' /\ NoSurprise'
    <2>1. \A x \in Ends : state'[x] = "Disconnected" => rhs'[x] = {}
      BY <1>2 DEF PrInv, ProxyInv
    <2>2. \A x \in Ends : connecting[x] # NoInfo =>
             x \in Lower /\ state'[x] \in {"RedirectReceived", "Disconnected"}
      BY <1>2 DEF PrInv, ProxyInv, Lower
    <2>3. QED BY <1>0, <1>4, <2>1, <2>2 DEF PrInv, ProxyInv, ProxyPair, NoSurprise
  <1>11. QED BY <1>5, <1>6, <1>7, <1>8, <1>9, <1>10 DEF PrInv

LEMMA ClientRedirectDoneStep ==
    ASSUME PrInv, NEW m, Receives("client", m), m.type \in {"R", "N"}, m.hops = 0,
           NEW r \in rhs["client"], r.n = m.n, r.kind = "app", r.cmd \in Redirects,
           ClientRedirectDone(r, m)
    PROVE  PrInv'
  <1>e. PICK e : e = "client" OBVIOUS
  <1>1. /\ e \in Ends /\ net \in Queues /\ Took(net, Got(e), e) /\ Got(e) \in Queues
        /\ m = Head(net[e]) /\ TokensOK(Got(e), HeldTokens, rhs, Shut, proxied)
        /\ e \notin Shut
    BY <1>e, Received
  <1>2. r.cmd = m.cmd /\ Fresh(Got(e), HeldTokens, e, r) /\ NoProgress(Got(e), e, r)
    BY <1>e, ReplyFound
  <1>3. /\ state[e] = "RedirectSent" /\ RedirectHandler(r)
        /\ \A s \in rhs[e] \ {r} : s.cmd \notin Redirects
    BY <1>1, <1>e, RedirectFound DEF RedirectHandler
  <1>4. PrTypeOK /\ HandlersOK(rhs) /\ CallsOK(rhs, failed, issued, calls)
        /\ NetFor(net, state, broken, proxied)
    BY DEF PrInv
  <1>5. PICK rh : rh = [rhs EXCEPT ![e] = @ \ {r}] OBVIOUS
  <1>6. /\ rh \in [Ends -> SUBSET Handlers] /\ rh[e] = rhs[e] \ {r}
        /\ \A x \in Ends \ {e} : rh[x] = rhs[x]
        /\ IsFiniteSet(rh[e]) /\ HandlersAt(e, rh[e])
    <2>1. IsFiniteSet(rhs[e] \ {r}) /\ HandlersAt(e, rhs[e] \ {r})
      BY <1>1, <1>4, FS_Subset, HandlersFewer DEF PrTypeOK, HandlersOK
    <2>2. QED BY <1>1, <1>4, <1>5, <2>1 DEF PrTypeOK
  <1>7. TokensOK(Got(e), HeldTokens, rh, Shut, proxied)
    BY <1>1, <1>2, <1>6, DropHandler
  <1>8. net["client"] \in Seq(Msgs) /\ net["client"] # <<>> /\ Got(e)["client"] = Tail(net["client"])
        /\ \A x \in Ends \ {"client"} : Got(e)[x] = net[x]
    BY <1>1, <1>e, TailFacts DEF Queues, Took
  <1>9. /\ calls \in [Cmds -> Seq(AnswerTypes)] /\ tokenid \in [Ends -> 0..(TokenMod - 1)]
        /\ issued \in SUBSET Cmds /\ failed \in SUBSET Cmds /\ r.cmd \in Cmds
        /\ rhs \in [Ends -> SUBSET Handlers]
    BY <1>1, <1>4, ProtocolAssumption DEF PrTypeOK, AnswerTypes
  <1>10. ASSUME NEW s \in {"Connected", "HelloSent"}, state' = [state EXCEPT !["client"] = s],
                HelloLink(Tail(net["client"]), net["host"], s, state["host"], {"client", "host"} \in broken)
         PROVE  NetFor(Got(e), state', broken, proxied)
    <2>1. state'["client"] = s /\ \A x \in Ends \ {"client"} : state'[x] = state[x]
      BY <1>4, <1>10 DEF PrTypeOK, Ends
    <2>2. /\ state'["host"] = state["host"] /\ state'["target"] = state["target"]
          /\ state'["agent"] = state["agent"]
          /\ Got(e)["host"] = net["host"] /\ Got(e)["target"] = net["target"]
          /\ Got(e)["agent"] = net["agent"]
      BY <1>8, <2>1 DEF Ends
    <2>3. \A x \in Ends : state'[x] = "Disconnected" => Got(e)[x] = <<>>
      BY <1>4, <1>8, <2>1 DEF NetFor
    <2>4. QED BY <1>1, <1>4, <1>8, <1>10, <2>1, <2>2, <2>3 DEF NetFor, Queues
  <1>11. HelloLink(net["client"], net["host"], "RedirectSent", state["host"], {"client", "host"} \in broken)
    BY <1>3, <1>4, <1>e DEF NetFor
  <1>12. CASE ~(m.type = "R" /\ m.ok)
    <2>1. /\ state' = [state EXCEPT !["client"] = "Connected"]
          /\ rhs' = rh
          /\ calls' = Call({r.cmd}, IF m.type = "N" THEN "rejected" ELSE "reply")
          /\ net' = Got(e) /\ UNCHANGED <<tokenid, issued>> /\ ReplyKeeps
      BY <1>3, <1>5, <1>12, <1>e DEF ClientRedirectDone
    <2>2. NetFor(net', state', broken, proxied)
      <3>1. NoGranted(net["client"])
        BY <1>2, <1>12, OnlyGrant DEF Granted
      <3>2. HelloLink(Tail(net["client"]), net["host"], "Connected", state["host"], {"client", "host"} \in broken)
        BY <1>8, <1>11, <3>1, UpperRefused
      <3>3. QED BY <1>10, <2>1, <3>2
    <2>3. /\ calls' \in [Cmds -> Seq(AnswerTypes)] /\ \A c \in Cmds \ {r.cmd} : calls'[c] = calls[c]
      <3>1. PICK a \in AnswerTypes : calls' = Call({r.cmd}, a)
        BY <2>1 DEF AnswerTypes
      <3>2. /\ Call({r.cmd}, a) \in [Cmds -> Seq(AnswerTypes)]
            /\ \A c \in Cmds \ {r.cmd} : Call({r.cmd}, a)[c] = calls[c]
        BY <1>9, CallFacts
      <3>3. QED BY <3>1, <3>2
    <2>4. CallsOK(rhs', failed, issued', calls')
      <3>1. r.cmd \in issued \ failed
        BY <1>1, <1>4, <1>e DEF CallsOK
      <3>2. \A x \in Ends : \A s \in rh[x] : s.kind = "app" => s.cmd # r.cmd
        <4>1. ASSUME NEW x \in Ends, NEW s \in rh[x], s.kind = "app", s.cmd = r.cmd PROVE FALSE
          <5>1. s \in rhs[x]
            BY <1>6
          <5>2. Origin[s.cmd] = x /\ Origin[r.cmd] = e
            BY <1>1, <1>4, <1>e, <4>1, <5>1 DEF HandlersOK, HandlersAt
          <5>3. QED BY <1>3, <1>6, <4>1, <5>2
        <4>2. QED BY <4>1
      <3>3. CalledOnly(r.cmd, rhs, rhs', calls, calls')
        BY <1>6, <1>9, <2>1, <2>3, <3>2 DEF CalledOnly
      <3>4. QED BY <1>4, <1>9, <2>1, <3>1, <3>3, CallsOne
    <2>5. QED BY <1>3, <1>6, <1>7, <1>9, <1>e, <2>1, <2>2, <2>3, <2>4, ClientMoves
  <1>13. CASE m.type = "R" /\ m.ok
    <2>o. PICK others : others = LiveApp(e) \ {r.cmd} OBVIOUS
    <2>0. /\ state' = [state EXCEPT !["client"] = "HelloSent"] /\ ReplyKeeps
          /\ \E more \in {{}} \cup {{c} : c \in {x \in Resent \ issued :
                                                   Origin[x] = "client" /\ LiveApp("client") \ {r.cmd} # {}}},
                visited \in BOOLEAN :
               /\ more # {} => TokenLeft("client")
               /\ more = {} => ~visited
               /\ issued' = issued \cup more
               /\ rhs' = [rhs EXCEPT !["client"] =
                            Detach(rhs["client"] \ {r}) \cup
                            {Handler("client", c, IF visited THEN "dead" ELSE "app", 0) : c \in more}]
               /\ tokenid' = [tokenid EXCEPT !["client"] = IF more = {} THEN @
                                                    ELSE (NewToken("client") + 1) % TokenMod]
               /\ calls' = [c \in Cmds |->
                              IF c = r.cmd THEN Append(calls[c], "reply")
                              ELSE IF c \in LiveApp("client") \ {r.cmd} \/ (visited /\ c \in more)
                                     THEN Append(calls[c], "closed") ELSE calls[c]]
               /\ net' = IF more = {} THEN Got("client")
                         ELSE Put(Got("client"), "client", Command("client", CHOOSE c \in more : TRUE))
      <3>1. state["client"] = "RedirectSent" BY <1>3, <1>e
      <3>2. QED BY <1>13, <3>1, Zenon DEF ClientRedirectDone
    <2>1. state' = [state EXCEPT !["client"] = "HelloSent"] /\ ReplyKeeps
      BY <2>0
    <2>2. NetFor(Got(e), state', broken, proxied)
      <3>1. HelloLink(Tail(net["client"]), net["host"], "HelloSent", state["host"], {"client", "host"} \in broken)
        BY <1>8, <1>11, UpperGranted
      <3>2. QED BY <1>10, <2>1, <3>1
    <2>3. PICK L : L = Detach(rh[e]) OBVIOUS
    <2>4. /\ L \subseteq Handlers /\ IsFiniteSet(L) /\ HandlersAt(e, L)
          /\ \A s \in L : s.kind = "dead" /\ s.cmd \notin Redirects /\ \E t \in rhs[e] : s.n = t.n
          /\ \A t \in rh[e] : \E s \in L : s.n = t.n /\ s.cmd = t.cmd
      <3>1. rh[e] \subseteq Handlers /\ \A s \in rh[e] : s.cmd \notin Redirects
        BY <1>1, <1>3, <1>6
      <3>2. HandlersAt(e, L)
        BY <1>6, <2>3, <3>1, HandlersDetach
      <3>3. /\ L \subseteq Handlers /\ IsFiniteSet(L)
            /\ \A s \in L : s.kind = "dead" /\ \E t \in rh[e] : s.n = t.n /\ s.cmd = t.cmd
            /\ \A t \in rh[e] : \E s \in L : s.n = t.n /\ s.cmd = t.cmd
        BY <1>6, <2>3, <3>1, DetachFacts
      <3>4. \A s \in L : s.cmd \notin Redirects /\ \E t \in rhs[e] : s.n = t.n
        BY <1>6, <3>1, <3>3
      <3>5. QED BY <3>2, <3>3, <3>4
    <2>5. PICK rl : rl = [rhs EXCEPT ![e] = L] OBVIOUS
    <2>6. rl \in [Ends -> SUBSET Handlers] /\ rl[e] = L /\ \A x \in Ends \ {e} : rl[x] = rhs[x]
      BY <1>1, <1>9, <2>4, <2>5
    <2>7. Keeps(rh, rl)
      BY <1>6, <2>4, <2>6 DEF Keeps
    <2>8. PICK ca : ca = [c \in Cmds |-> IF c = r.cmd THEN Append(calls[c], "reply")
                                         ELSE IF c \in others THEN Append(calls[c], "closed")
                                         ELSE calls[c]]
      OBVIOUS
    <2>9. ca \in [Cmds -> Seq(AnswerTypes)]
      BY <1>9, <2>8 DEF AnswerTypes
    <2>10. CallsOK(rl, failed, issued, ca)
      <3>1. CalledAt({e}, rhs, calls, ca)
        BY <1>1, <1>e, <2>8, <2>o DEF LiveApp, CalledAt
      <3>2. GoneAt({e}, rhs, rl) /\ {e} \in SUBSET Ends
        BY <1>1, <2>4, <2>6 DEF GoneAt
      <3>3. QED BY <1>4, <1>9, <3>1, <3>2, CallsClosed
    <2>a. PICK more \in {{}} \cup {{c} : c \in {x \in Resent \ issued :
                                                   Origin[x] = "client" /\ LiveApp("client") \ {r.cmd} # {}}},
                visited \in BOOLEAN :
               /\ more # {} => TokenLeft("client")
               /\ more = {} => ~visited
               /\ issued' = issued \cup more
               /\ rhs' = [rhs EXCEPT !["client"] =
                            Detach(rhs["client"] \ {r}) \cup
                            {Handler("client", c, IF visited THEN "dead" ELSE "app", 0) : c \in more}]
               /\ tokenid' = [tokenid EXCEPT !["client"] = IF more = {} THEN @
                                                    ELSE (NewToken("client") + 1) % TokenMod]
               /\ calls' = [c \in Cmds |->
                              IF c = r.cmd THEN Append(calls[c], "reply")
                              ELSE IF c \in LiveApp("client") \ {r.cmd} \/ (visited /\ c \in more)
                                     THEN Append(calls[c], "closed") ELSE calls[c]]
               /\ net' = IF more = {} THEN Got("client")
                         ELSE Put(Got("client"), "client", Command("client", CHOOSE c \in more : TRUE))
      BY <2>0
    <2>11. /\ more \in {{}} \cup {{c} : c \in {x \in Resent \ issued : Origin[x] = e /\ others # {}}}
           /\ visited \in BOOLEAN
           /\ more # {} => TokenLeft(e)
           /\ more = {} => ~visited
           /\ issued' = issued \cup more
           /\ rhs' = [rhs EXCEPT ![e] =
                            Detach(rhs[e] \ {r}) \cup
                            {Handler(e, c, IF visited THEN "dead" ELSE "app", 0) : c \in more}]
           /\ tokenid' = [tokenid EXCEPT ![e] = IF more = {} THEN @
                                                    ELSE (NewToken(e) + 1) % TokenMod]
           /\ calls' = [c \in Cmds |->
                              IF c = r.cmd THEN Append(calls[c], "reply")
                              ELSE IF c \in others \/ (visited /\ c \in more)
                                     THEN Append(calls[c], "closed") ELSE calls[c]]
           /\ net' = IF more = {} THEN Got(e)
                         ELSE Put(Got(e), e, Command(e, CHOOSE c \in more : TRUE))
      <3>1. more \in {{}} \cup {{c} : c \in {x \in Resent \ issued : Origin[x] = e /\ others # {}}}
        BY <1>e, <2>a, <2>o
      <3>2. /\ visited \in BOOLEAN /\ more # {} => TokenLeft(e)
            /\ more = {} => ~visited
            /\ issued' = issued \cup more
        BY <1>e, <2>a
      <3>3. rhs' = [rhs EXCEPT ![e] =
                            Detach(rhs[e] \ {r}) \cup
                            {Handler(e, c, IF visited THEN "dead" ELSE "app", 0) : c \in more}]
        BY <1>e, <2>a
      <3>4. tokenid' = [tokenid EXCEPT ![e] = IF more = {} THEN @
                                                    ELSE (NewToken(e) + 1) % TokenMod]
        BY <1>e, <2>a
      <3>5. calls' = [c \in Cmds |->
                              IF c = r.cmd THEN Append(calls[c], "reply")
                              ELSE IF c \in others \/ (visited /\ c \in more)
                                     THEN Append(calls[c], "closed") ELSE calls[c]]
        BY <1>e, <2>a, <2>o
      <3>6. net' = IF more = {} THEN Got(e)
                         ELSE Put(Got(e), e, Command(e, CHOOSE c \in more : TRUE))
        BY <1>e, <2>a
      <3>7. QED BY <3>1, <3>2, <3>3, <3>4, <3>5, <3>6
    <2>12. CASE more = {}
      <3>1. rhs' = rl
        BY <1>6, <2>3, <2>5, <2>11, <2>12
      <3>2. net' = Got(e) /\ issued' = issued
        BY <2>11, <2>12
      <3>3. tokenid' = tokenid
        BY <1>1, <1>9, <2>11, <2>12
      <3>4. calls' = ca
        BY <2>8, <2>11, <2>12
      <3>5. TokensOK(net', HeldTokens, rhs', Shut, proxied)
        BY <1>1, <1>7, <2>7, <3>1, <3>2, OtherHandlers DEF Keeps
      <3>6. QED BY <1>9, <1>e, <2>1, <2>2, <2>4, <2>6, <2>9, <2>10, <3>1, <3>2, <3>3, <3>4, <3>5, ClientMoves
    <2>13. CASE more # {}
      <3>1. PICK c \in Resent \ issued : more = {c} /\ Origin[c] = e
        BY <2>11, <2>13
      <3>2. c \in Cmds /\ c \notin Redirects /\ TokenLeft(e) /\ (CHOOSE x \in more : TRUE) = c
        BY <2>11, <2>13, <3>1, ProtocolAssumption
      <3>v. PICK kind \in {"app", "dead"} : kind = IF visited THEN "dead" ELSE "app"
        OBVIOUS
      <3>h. PICK h : h = Handler(e, c, kind, 0) OBVIOUS
      <3>k. PICK k : k = Command(e, c) OBVIOUS
      <3>3. /\ h \in Handlers /\ h.n = NewToken(e) /\ h.cmd = c /\ h.kind = kind
            /\ \A s \in rhs[e] : s.n # h.n
            /\ k \in Msgs /\ k.type = "C"
            /\ (NewToken(e) + 1) % TokenMod \in 0..(TokenMod - 1)
        <4>1. 0 \in Nat /\ kind \in {"app", "relay", "dead"} BY <3>v
        <4>2. QED BY <1>1, <1>4, <3>2, <3>h, <3>k, <4>1, Sent
      <3>4. {Handler(e, x, IF visited THEN "dead" ELSE "app", 0) : x \in more} = {h}
        BY <3>1, <3>h, <3>v
      <3>5. /\ rhs' \in [Ends -> SUBSET Handlers] /\ rhs'[e] = L \cup {h}
            /\ \A x \in Ends \ {e} : rhs'[x] = rhs[x]
        BY <1>1, <1>6, <1>9, <2>3, <2>4, <2>11, <3>3, <3>4
      <3>6. OneMore(e, h, rl, rhs') /\ Keeps(rh, rhs')
        BY <2>6, <2>7, <3>5 DEF OneMore, Keeps
      <3>7. /\ tokenid' \in [Ends -> 0..(TokenMod - 1)] /\ issued' = issued \cup {c}
            /\ net' = Put(Got(e), e, k)
        BY <1>1, <1>9, <2>11, <2>13, <3>1, <3>2, <3>3, <3>k
      <3>8. IsFiniteSet(rhs'[e]) /\ HandlersAt(e, rhs'[e]) /\ \A s \in rhs'[e] : s.cmd \notin Redirects
        <4>1. IsFiniteSet(L \cup {h})
          BY <2>4, FS_AddElement
        <4>2. (\A s \in L : s.n # h.n) /\ ~RedirectHandler(h)
          BY <2>4, <3>2, <3>3 DEF RedirectHandler
        <4>3. HandlersAt(e, L \cup {h})
          BY <2>4, <3>1, <3>2, <3>3, <3>v, <4>2, HandlersMore
        <4>4. QED BY <2>4, <3>2, <3>3, <3>5, <4>1, <4>3
      <3>9. c \notin others /\ c # r.cmd
        <4>1. \A s \in rhs[e] : s.kind = "app" => s.cmd \in issued
          BY <1>1, <1>4 DEF CallsOK
        <4>2. QED BY <1>e, <2>o, <3>1, <4>1 DEF LiveApp
      <3>10. /\ calls' \in [Cmds -> Seq(AnswerTypes)] /\ SameCalls(c, ca, calls')
             /\ h.kind = "app" => calls'[c] = <<>>
        <4>1. calls' \in [Cmds -> Seq(AnswerTypes)]
          BY <1>9, <2>11 DEF AnswerTypes
        <4>2. SameCalls(c, ca, calls')
          BY <2>8, <2>11, <3>1 DEF SameCalls
        <4>3. calls[c] = <<>>
          BY <1>4, <3>1, <3>2 DEF CallsOK
        <4>4. h.kind = "app" => ~visited
          BY <3>3, <3>v
        <4>5. QED BY <2>11, <3>2, <3>9, <4>1, <4>2, <4>3, <4>4
      <3>11. CallsOK(rhs', failed, issued', calls')
        BY <1>1, <1>9, <2>10, <3>1, <3>2, <3>3, <3>6, <3>7, <3>10, CallsIssuedMore
      <3>12. TokensOK(net', HeldTokens, rhs', Shut, proxied)
        <4>1. \E s \in rhs'[e] : s.n = NewToken(e) /\ s.cmd = c
          BY <3>3, <3>5
        <4>2. rh[e] \subseteq rhs[e]
          BY <1>6
        <4>3. QED BY <1>1, <1>4, <1>7, <3>2, <3>6, <3>7, <3>k, <4>1, <4>2, SendTokens
      <3>13. NetFor(net', state', broken, proxied)
        <4>p. Peer[e] \in Ends /\ Peer[e] = "host" /\ Peer[e] # e
          BY <1>e DEF Peer, Ends
        <4>q. PICK q : q = Got(e) OBVIOUS
        <4>1. /\ Added(q, Put(q, e, k), Peer[e], k)
              /\ Closed(Peer[e]) => Put(q, e, k) = q
          BY <1>1, <3>3, <4>q, PutFacts
        <4>2. Put(q, e, k) # q => state'[Peer[e]] # "Disconnected"
          BY <1>4, <1>e, <2>1, <4>p, <4>1 DEF Closed, PrTypeOK
        <4>3. q \in Queues /\ k.type # "Hello"
          BY <1>1, <3>3, <4>q
        <4>4. NetFor(Put(q, e, k), state', broken, proxied)
          BY <2>2, <3>3, <4>p, <4>q, <4>1, <4>2, <4>3, NetAdd
        <4>5. QED BY <3>7, <4>q, <4>4
      <3>14. issued' \in SUBSET Cmds
        BY <1>9, <3>2, <3>7
      <3>15. QED BY <1>e, <2>1, <3>5, <3>7, <3>8, <3>10, <3>11, <3>12, <3>13, <3>14, ClientMoves
    <2>14. QED BY <2>12, <2>13
  <1>14. QED BY <1>12, <1>13

\* The two ends of the proxy go on after the answer to the redirect that was relayed.
LEMMA RelayMoves ==
    ASSUME PrInv, proxied, state["host"] = "Connected", state["target"] = "RedirectSent",
           state' \in [Ends -> UpperStates \cup LowerStates],
           <<state'["host"], state'["target"]>> \in
              {<<"Connected", "Connected">>, <<"HelloReceived", "HelloSent">>},
           state'["client"] = state["client"], state'["agent"] = state["agent"],
           ReplyKeeps, UNCHANGED issued,
           rhs' \in [Ends -> SUBSET Handlers], \A x \in Ends : IsFiniteSet(rhs'[x]),
           HandlersOK(rhs'), rhs'["client"] = rhs["client"], rhs'["agent"] = rhs["agent"],
           \A r \in rhs'["host"] \cup rhs'["target"] : r.cmd \notin Redirects,
           tokenid' \in [Ends -> 0..(TokenMod - 1)],
           calls' \in [Cmds -> Seq(AnswerTypes)], CallsOK(rhs', failed, issued, calls'),
           TokensOK(net', HeldOf(serving, connecting, rhs'["target"]), rhs', Shut, proxied),
           NetFor(net', state', broken, proxied)
    PROVE  PrInv'
  <1>0. UNCHANGED <<failed, proxied, connecting, serving, broken, faults>>
    BY DEF ReplyKeeps
  <1>1. PrTypeOK
    BY DEF PrInv
  <1>2. /\ state'["host"] \in {"Connected", "HelloReceived"}
        /\ state'["target"] \in {"Connected", "HelloSent"}
    OBVIOUS
  <1>3. Shut' = Shut
    BY <1>2 DEF Shut, Ends
  <1>5. PrTypeOK'
    <2>1. (\A x \in Upper : state'[x] \in UpperStates) /\ \A x \in Lower : state'[x] \in LowerStates
      BY <1>1, <1>2 DEF PrTypeOK, Lower, Upper, UpperStates, LowerStates
    <2>3. QED BY <1>0, <1>1, <1>2, <2>1 DEF PrTypeOK, NetFor, AnswerTypes
  <1>6. TokenInv'
    BY <1>0, <1>3 DEF TokenInv, HeldTokens
  <1>7. HandlersOK(rhs)'
    BY DEF PrInv, HandlersOK
  <1>8. RedirectStates(rhs, state)'
    <2>1. \A x \in Ends : \A r \in rhs'[x] : RedirectHandler(r) => state'[x] = "RedirectSent"
      BY <1>2 DEF PrInv, RedirectStates, RedirectHandler, Ends
    <2>2. QED BY <1>2, <2>1 DEF PrInv, RedirectStates
  <1>9. NetFor(net, state, broken, proxied)' /\ CallsOK(rhs, failed, issued, calls)'
    BY <1>0
  <1>10. ProxyInv' /\ NoSurprise'
    <2>1. \A x \in Ends : state'[x] = "Disconnected" => rhs'[x] = {}
      BY <1>2 DEF PrInv, ProxyInv, Ends
    <2>2. \A x \in Ends : connecting[x] # NoInfo =>
             x \in Lower /\ state'[x] \in {"RedirectReceived", "Disconnected"}
      BY <1>2 DEF PrInv, ProxyInv, Lower
    <2>3. QED BY <1>0, <2>1, <2>2 DEF PrInv, ProxyInv, ProxyPair, NoSurprise
  <1>11. QED BY <1>5, <1>6, <1>7, <1>8, <1>9, <1>10 DEF PrInv

LEMMA RelayDoneStep ==
    ASSUME PrInv, NEW m, Receives("target", m), m.type \in {"R", "N"}, m.hops = 0,
           NEW r \in rhs["target"], r.n = m.n, r.kind = "relay", RelayDone(r, m)
    PROVE  PrInv'
  <1>e. PICK e : e = "target" OBVIOUS
  <1>1. /\ e \in Ends /\ net \in Queues /\ Took(net, Got(e), e) /\ Got(e) \in Queues
        /\ m = Head(net[e]) /\ TokensOK(Got(e), HeldTokens, rhs, Shut, proxied)
        /\ e \notin Shut
    BY <1>e, Received
  <1>2. r.cmd = m.cmd /\ Fresh(Got(e), HeldTokens, e, r) /\ NoProgress(Got(e), e, r)
    BY <1>e, ReplyFound
  <1>4. PrTypeOK /\ HandlersOK(rhs) /\ CallsOK(rhs, failed, issued, calls)
        /\ NetFor(net, state, broken, proxied)
    BY DEF PrInv
  <1>c. r.cmd \in Redirects /\ r.cmd \in Cmds /\ r.via \in Nat /\ r \in Handlers
    <2>1. r \in Handlers BY <1>4, <1>1, <1>e DEF PrTypeOK
    <2>2. QED BY <1>1, <1>4, <1>e, <2>1 DEF HandlersOK, HandlersAt, Handlers
  <1>3. /\ state[e] = "RedirectSent" /\ RedirectHandler(r)
        /\ \A s \in rhs[e] \ {r} : s.cmd \notin Redirects /\ s.kind # "relay"
    <2>1. RedirectHandler(r) BY <1>c DEF RedirectHandler
    <2>2. QED BY <1>1, <1>e, <2>1, RedirectFound
  <1>p. proxied /\ state["host"] = "Connected"
    <2>1. proxied BY Received
    <2>2. QED BY <1>3, <1>e, <2>1 DEF PrInv, ProxyInv, ProxyPair
  <1>5. PICK rh : rh = [rhs EXCEPT ![e] = @ \ {r}] OBVIOUS
  <1>6. /\ rh \in [Ends -> SUBSET Handlers] /\ rh[e] = rhs[e] \ {r}
        /\ \A x \in Ends \ {e} : rh[x] = rhs[x]
        /\ IsFiniteSet(rh[e]) /\ HandlersAt(e, rh[e])
        /\ \A s \in rh[e] : s.kind # "relay" /\ s.cmd \notin Redirects
    <2>1. IsFiniteSet(rhs[e] \ {r}) /\ HandlersAt(e, rhs[e] \ {r})
      BY <1>1, <1>4, FS_Subset, HandlersFewer DEF PrTypeOK, HandlersOK
    <2>2. QED BY <1>1, <1>3, <1>4, <1>5, <2>1 DEF PrTypeOK
  <1>7. TokensOK(Got(e), HeldTokens, rh, Shut, proxied)
    BY <1>1, <1>2, <1>6, DropHandler
  <1>8. net["target"] \in Seq(Msgs) /\ net["target"] # <<>> /\ Got(e)["target"] = Tail(net["target"])
        /\ \A x \in Ends \ {"target"} : Got(e)[x] = net[x]
    BY <1>1, <1>e, TailFacts DEF Queues, Took
  <1>9. /\ calls \in [Cmds -> Seq(AnswerTypes)] /\ tokenid \in [Ends -> 0..(TokenMod - 1)]
        /\ issued \in SUBSET Cmds /\ failed \in SUBSET Cmds
        /\ rhs \in [Ends -> SUBSET Handlers]
        /\ state \in [Ends -> UpperStates \cup LowerStates]
    BY <1>1, <1>4, ProtocolAssumption DEF PrTypeOK, AnswerTypes
  <1>d. PICK done \in BOOLEAN : done <=> (m.type = "R" /\ m.ok)
    OBVIOUS
  <1>a. PICK a : a = Message("R", 0, r.via, r.cmd, done) OBVIOUS
  <1>10. /\ a \in Msgs /\ a.type = "R" /\ a.hops = 0 /\ a.n = r.via /\ a.cmd = r.cmd /\ a.ok = done
    BY <1>a, <1>c DEF Message, Msgs, MsgTypes, Tokens
  <1>11. RoutedOne("client", a, proxied) /\ Owner("client", a) = "client" /\ "client" \in Ends
    BY <1>10, <1>c DEF RoutedOne, Owner, Tokens, Upper, Ends
  <1>q. PICK q : q = Got(e) OBVIOUS
  <1>12. PICK p : p = Put(q, "host", a) OBVIOUS
  <1>13. /\ p \in Queues /\ Added(q, p, "client", a) /\ Grown(q["client"], p["client"], a)
         /\ Closed("client") => p = q
         /\ ~Closed("client") /\ {"client", "host"} \notin broken => p["client"] = Append(q["client"], a)
         /\ \A x \in Ends \ {"client"} : p[x] = q[x]
    <2>1. Peer["host"] = "client" /\ "host" \in Ends /\ {"host", "client"} = {"client", "host"}
      BY DEF Peer, Ends
    <2>2. /\ Put(q, "host", a) \in Queues
          /\ Added(q, Put(q, "host", a), Peer["host"], a)
          /\ Closed(Peer["host"]) \/ {"host", Peer["host"]} \in broken => Put(q, "host", a) = q
          /\ Grown(q[Peer["host"]], Put(q, "host", a)[Peer["host"]], a)
          /\ ~Closed(Peer["host"]) /\ {"host", Peer["host"]} \notin broken =>
                 Put(q, "host", a)[Peer["host"]] = Append(q[Peer["host"]], a)
          /\ \A x \in Ends \ {Peer["host"]} : Put(q, "host", a)[x] = q[x]
      <3>1. q \in Queues /\ a \in Msgs BY <1>1, <1>10, <1>q
      <3>2. QED BY <2>1, <3>1, PutFacts, ZenonT(40)
    <2>3. QED BY <1>12, <2>1, <2>2
  <1>h. PICK h : h = RelayHeld(r) OBVIOUS
  <1>14. /\ h.own = "client" /\ h.msg.n = r.via /\ h.msg.cmd = r.cmd
         /\ h.msg.hops = 0 /\ h \in HeldTokens
    <2>1. RelayHeld(r) \in HeldTokens
      <3>1. RelayHeld(r) \in RelayTokens(rhs["target"]) BY DEF RelayTokens
      <3>2. QED BY <3>1 DEF HeldTokens, HeldOf
    <2>2. QED BY <1>h, <2>1, RelayFields
  <1>15. ASSUME NEW T, \A s \in T : s.kind # "relay"
         PROVE  TokensOK(p, HeldOf(serving, connecting, T), rh, Shut, proxied)
    <2>1. HeldOf(serving, connecting, T) \in SUBSET (HeldTokens \ {h})
      BY <1>15, <1>h, NoRelays DEF HeldTokens
    <2>2. SameToken(h.msg, a) /\ a.hops = h.msg.hops
      BY <1>10, <1>14 DEF SameToken
    <2>3. q \in Queues /\ TokensOK(q, HeldTokens, rh, Shut, proxied)
      BY <1>1, <1>7, <1>q
    <2>4. QED BY <1>10, <1>11, <1>13, <1>14, <2>1, <2>2, <2>3, MoveFromHeld
  <1>16. HelloLink(net["target"], net["agent"], "RedirectSent", state["agent"], {"target", "agent"} \in broken)
    BY <1>3, <1>4, <1>e DEF NetFor
  <1>17. net' = p /\ UNCHANGED issued /\ ReplyKeeps
    <2>1. /\ net' = Put(Got("target"), "host", Message("R", 0, r.via, r.cmd, m.type = "R" /\ m.ok))
          /\ UNCHANGED issued /\ ReplyKeeps
      BY <1>3, <1>e, <1>p DEF RelayDone
    <2>2. done = (m.type = "R" /\ m.ok)
      BY <1>d
    <2>3. QED BY <1>12, <1>a, <1>e, <1>q, <2>1, <2>2
  <1>18. CASE ~done
    <2>1. /\ state' = [state EXCEPT !["target"] = "Connected"]
          /\ rhs' = rh /\ UNCHANGED <<tokenid, calls>>
      BY <1>3, <1>5, <1>18, <1>d, <1>e, <1>p DEF RelayDone
    <2>2. /\ state' \in [Ends -> UpperStates \cup LowerStates] /\ state'["target"] = "Connected"
          /\ \A x \in Ends \ {"target"} : state'[x] = state[x]
      BY <1>9, <2>1 DEF Ends, UpperStates
    <2>3. NetFor(q, state', broken, proxied)
      <3>1. NoGranted(net["target"])
        BY <1>2, <1>18, <1>c, <1>d, OnlyGrant DEF Granted
      <3>2. HelloLink(Tail(net["target"]), net["agent"], "Connected", state["agent"], {"target", "agent"} \in broken)
        BY <1>8, <1>16, <3>1, UpperRefused
      <3>3. \A x \in Ends : state'[x] = "Disconnected" => q[x] = <<>>
        BY <1>4, <1>8, <1>q, <2>2 DEF NetFor
      <3>4. /\ q["client"] = net["client"] /\ q["host"] = net["host"] /\ q["agent"] = net["agent"]
            /\ state'["client"] = state["client"] /\ state'["host"] = state["host"]
            /\ state'["agent"] = state["agent"]
        BY <1>8, <1>q, <2>2 DEF Ends
      <3>5. QED BY <1>1, <1>4, <1>8, <1>p, <1>q, <2>2, <3>2, <3>3, <3>4 DEF NetFor, Queues
    <2>4. NetFor(net', state', broken, proxied)
      <3>1. p # q => state'["client"] # "Disconnected"
        BY <1>13, <2>2 DEF Closed, Ends
      <3>2. q \in Queues /\ a.type # "Hello"
        BY <1>1, <1>10, <1>q
      <3>3. NetFor(p, state', broken, proxied)
        BY <1>10, <1>11, <1>13, <2>3, <3>1, <3>2, NetAdd
      <3>4. QED BY <1>17, <3>3
    <2>5. TokensOK(net', HeldOf(serving, connecting, rhs'["target"]), rhs', Shut, proxied)
      BY <1>6, <1>15, <1>17, <1>e, <2>1
    <2>6. /\ rhs'["client"] = rhs["client"] /\ rhs'["agent"] = rhs["agent"] /\ rhs'["host"] = rhs["host"]
          /\ rhs'["target"] = rh[e]
          /\ \A x \in Ends : IsFiniteSet(rhs'[x]) /\ HandlersAt(x, rhs'[x])
      BY <1>4, <1>6, <1>e, <2>1 DEF PrTypeOK, HandlersOK, Ends
    <2>7. \A s \in rhs'["host"] \cup rhs'["target"] : s.cmd \notin Redirects
      BY <1>6, <2>6, NoRedirectBelow DEF Lower
    <2>8. CallsOK(rhs', failed, issued, calls')
      <3>1. CalledAt({}, rhs, calls, calls') /\ GoneAt({}, rhs, rhs')
        BY <1>6, <2>1 DEF CalledAt, GoneAt
      <3>2. QED BY <1>4, <1>9, <3>1, CallsClosed
    <2>9. QED BY <1>3, <1>6, <1>9, <1>17, <1>e, <1>p, <2>1, <2>2, <2>4, <2>5, <2>6, <2>7, <2>8, RelayMoves
                 DEF HandlersOK, Ends
  <1>19. CASE done
    <2>1. /\ state' = [state EXCEPT !["target"] = "HelloSent", !["host"] = "HelloReceived"]
          /\ rhs' = [rhs EXCEPT !["target"] = Detach(rhs["target"] \ {r}),
                                !["host"] = Detach(rhs["host"])]
          /\ calls' = Call(LiveApp("target") \cup LiveApp("host"), "closed")
          /\ tokenid' = [tokenid EXCEPT !["host"] = 1 % TokenMod]
      <3>1. m.type = "R" /\ m.ok BY <1>19, <1>d
      <3>2. state["target"] = "RedirectSent" BY <1>3, <1>e
      <3>3. QED BY <1>p, <3>1, <3>2 DEF RelayDone
    <2>2. /\ state' \in [Ends -> UpperStates \cup LowerStates] /\ state'["target"] = "HelloSent"
          /\ state'["host"] = "HelloReceived"
          /\ state'["client"] = state["client"] /\ state'["agent"] = state["agent"]
      BY <1>9, <2>1 DEF Ends, UpperStates, LowerStates
    <2>3. PICK T : T = Detach(rh[e]) OBVIOUS
    <2>4. PICK U : U = Detach(rhs["host"]) OBVIOUS
    <2>5. /\ T \subseteq Handlers /\ IsFiniteSet(T) /\ HandlersAt(e, T)
          /\ \A s \in T : s.kind = "dead" /\ s.cmd \notin Redirects
          /\ \A t \in rh[e] : \E s \in T : s.n = t.n /\ s.cmd = t.cmd
      <3>1. rh[e] \subseteq Handlers /\ \A s \in rh[e] : s.cmd \notin Redirects
        BY <1>1, <1>6
      <3>2. HandlersAt(e, T)
        BY <1>6, <2>3, <3>1, HandlersDetach
      <3>3. /\ T \subseteq Handlers /\ IsFiniteSet(T)
            /\ \A s \in T : s.kind = "dead" /\ \E t \in rh[e] : s.n = t.n /\ s.cmd = t.cmd
            /\ \A t \in rh[e] : \E s \in T : s.n = t.n /\ s.cmd = t.cmd
        BY <1>6, <2>3, <3>1, DetachFacts
      <3>4. \A s \in T : s.cmd \notin Redirects
        BY <3>1, <3>3
      <3>5. QED BY <3>2, <3>3, <3>4
    <2>6. /\ U \subseteq Handlers /\ IsFiniteSet(U) /\ HandlersAt("host", U)
          /\ \A s \in U : s.kind = "dead" /\ s.cmd \notin Redirects
          /\ \A t \in rhs["host"] : \E s \in U : s.n = t.n /\ s.cmd = t.cmd
      <3>1. /\ rhs["host"] \subseteq Handlers /\ IsFiniteSet(rhs["host"]) /\ HandlersAt("host", rhs["host"])
            /\ \A s \in rhs["host"] : s.cmd \notin Redirects
        BY <1>4, <1>9, NoRedirectBelow DEF Ends, Lower, PrTypeOK, HandlersOK
      <3>2. HandlersAt("host", U)
        BY <2>4, <3>1, HandlersDetach
      <3>3. QED BY <2>4, <3>1, <3>2, DetachFacts
    <2>7. /\ rhs' \in [Ends -> SUBSET Handlers] /\ rhs'["target"] = T /\ rhs'["host"] = U
          /\ rhs'["client"] = rhs["client"] /\ rhs'["agent"] = rhs["agent"]
      BY <1>6, <1>9, <1>e, <2>1, <2>3, <2>4, <2>5, <2>6 DEF Ends
    <2>8. \A x \in Ends : IsFiniteSet(rhs'[x]) /\ HandlersAt(x, rhs'[x])
      BY <1>4, <1>e, <2>5, <2>6, <2>7 DEF PrTypeOK, HandlersOK, Ends
    <2>9. TokensOK(net', HeldOf(serving, connecting, rhs'["target"]), rhs', Shut, proxied)
      <3>1. TokensOK(p, HeldOf(serving, connecting, T), rh, Shut, proxied)
        BY <1>15, <2>5
      <3>2. \A x \in Ends \ Shut : \A t \in rh[x] : \E s \in rhs'[x] : s.n = t.n /\ s.cmd = t.cmd
        <4>1. \A t \in rh["host"] : \E s \in rhs'["host"] : s.n = t.n /\ s.cmd = t.cmd
          BY <1>6, <1>e, <2>6, <2>7 DEF Ends
        <4>2. \A t \in rh["target"] : \E s \in rhs'["target"] : s.n = t.n /\ s.cmd = t.cmd
          BY <1>e, <2>5, <2>7
        <4>3. rh["client"] = rhs'["client"] /\ rh["agent"] = rhs'["agent"]
          BY <1>6, <1>e, <2>7 DEF Ends
        <4>4. QED BY <4>1, <4>2, <4>3 DEF Ends
      <3>3. TokensOK(p, HeldOf(serving, connecting, T), rhs', Shut, proxied)
        BY <1>13, <3>1, <3>2, OtherHandlers
      <3>4. QED BY <1>17, <2>7, <3>3
    <2>10. NetFor(net', state', broken, proxied)
      <3>1. HelloLink(Tail(net["target"]), net["agent"], "HelloSent", state["agent"], {"target", "agent"} \in broken)
        BY <1>8, <1>16, UpperGranted
      <3>2. HelloLink(p["client"], net["host"], state["client"], "HelloReceived", {"client", "host"} \in broken)
        <4>1. state["client"] \in {"RedirectSent", "Disconnected"} /\ NoGranted(net["client"])
          BY <1>14, <1>c, Waits
        <4>2. Granted(a)
          BY <1>10, <1>19, <1>c DEF Granted
        <4>3. q["client"] = net["client"] /\ net["client"] \in Seq(Msgs)
          BY <1>1, <1>8, <1>q DEF Ends, Queues
        <4>4. state["client"] = "Disconnected" => net["client"] = <<>>
          BY <1>4 DEF NetFor, Ends
        <4>5. HelloLink(net["client"], net["host"], state["client"], "Connected", {"client", "host"} \in broken)
          BY <1>4, <1>p DEF NetFor
        <4>6. QED BY <1>10, <1>13, <4>1, <4>2, <4>3, <4>4, <4>5, LowerGrants DEF Closed, Settled
      <3>3. p["target"] = Tail(net["target"]) /\ p["agent"] = net["agent"] /\ p["host"] = net["host"]
        BY <1>8, <1>13, <1>q DEF Ends
      <3>4. \A x \in Ends : state'[x] = "Disconnected" => p[x] = <<>>
        <4>1. state["client"] = "Disconnected" => p["client"] = <<>>
          BY <1>4, <1>8, <1>13, <1>q DEF Closed, NetFor, Ends
        <4>2. state["agent"] = "Disconnected" => p["agent"] = <<>>
          BY <1>4, <3>3 DEF NetFor, Ends
        <4>3. QED BY <2>2, <4>1, <4>2 DEF Ends
      <3>5. QED BY <1>13, <1>17, <1>p, <2>2, <3>1, <3>2, <3>3, <3>4 DEF NetFor, Queues
    <2>11. \A s \in rhs'["host"] \cup rhs'["target"] : s.cmd \notin Redirects
      BY <2>5, <2>6, <2>7
    <2>12. tokenid' \in [Ends -> 0..(TokenMod - 1)]
      <3>1. 1 % TokenMod \in 0..(TokenMod - 1)
        BY ProtocolAssumption
      <3>2. QED BY <1>9, <2>1, <3>1
    <2>13. PICK S : S = LiveApp("target") \cup LiveApp("host") OBVIOUS
    <2>14. /\ calls' \in [Cmds -> Seq(AnswerTypes)]
           /\ \A c \in Cmds \ S : calls'[c] = calls[c]
      <3>1. "closed" \in AnswerTypes BY DEF AnswerTypes
      <3>2. /\ Call(S, "closed") \in [Cmds -> Seq(AnswerTypes)]
            /\ \A c \in Cmds \ S : Call(S, "closed")[c] = calls[c]
        BY <1>9, <3>1, CallFacts
      <3>3. QED BY <2>1, <2>13, <3>2
    <2>15. CallsOK(rhs', failed, issued, calls')
      <3>1. CalledAt({"host", "target"}, rhs, calls, calls')
        BY <2>13, <2>14 DEF CalledAt, LiveApp
      <3>2. GoneAt({"host", "target"}, rhs, rhs') /\ {"host", "target"} \in SUBSET Ends
        BY <2>5, <2>6, <2>7 DEF GoneAt, Ends
      <3>3. QED BY <1>4, <1>9, <3>1, <3>2, CallsClosed
    <2>16. QED BY <1>3, <1>9, <1>17, <1>e, <1>p, <2>2, <2>7, <2>8, <2>9, <2>10, <2>11, <2>12, <2>14, <2>15, RelayMoves
                 DEF HandlersOK
  <1>20. QED BY <1>18, <1>19

-----------------------------------------------------------------------------
(***************************************************************************)
(* Hello                                                                   *)
(***************************************************************************)

\* q and p, and st and st2, are the same except at u and its peer.
SameBut(u, q, p, st, st2) == \A x \in Ends \ {u, Peer[u]} : p[x] = q[x] /\ st2[x] = st[x]

\* The messages and states of one link.
LinkAt(u, q, st, cut) == HelloLink(q[u], q[Peer[u]], st[u], st[Peer[u]], cut)

LEMMA NetLinks ==
    ASSUME NEW q, NEW st, NEW br, NEW prox, NetFor(q, st, br, prox), NEW u \in Upper
    PROVE  LinkAt(u, q, st, {u, Peer[u]} \in br)
  <1>1. CASE u = "client"
    <2>1. Peer[u] = "host" BY <1>1 DEF Peer
    <2>2. QED BY <1>1, <2>1 DEF NetFor, LinkAt
  <1>2. CASE u = "target"
    <2>1. Peer[u] = "agent" BY <1>2 DEF Peer
    <2>2. QED BY <1>2, <2>1 DEF NetFor, LinkAt
  <1>3. QED BY <1>1, <1>2 DEF Upper

LEMMA SameCut ==
    ASSUME NEW qu, NEW qd, NEW su, NEW sd, NEW cut, NEW cut2, cut2 <=> cut,
           HelloLink(qu, qd, su, sd, cut)
    PROVE  HelloLink(qu, qd, su, sd, cut2)
  BY DEF HelloLink, HelloUp

LEMMA NetLink ==
    ASSUME NEW q, NEW st, NEW br, NEW prox, NetFor(q, st, br, prox),
           NEW p \in Queues, NEW st2, NEW u \in Upper, SameBut(u, q, p, st, st2),
           st2[u] = "Disconnected" => p[u] = <<>>,
           st2[Peer[u]] = "Disconnected" => p[Peer[u]] = <<>>,
           prox \/ u = "client", NEW br2,
           \A l \in Links : l # {u, Peer[u]} => (l \in br2 <=> l \in br),
           LinkAt(u, p, st2, {u, Peer[u]} \in br2)
    PROVE  NetFor(p, st2, br2, prox)
  <1>1. \A x \in Ends : st2[x] = "Disconnected" => p[x] = <<>>
    BY DEF NetFor, SameBut
  <1>2. CASE u = "client"
    <2>1. Peer[u] = "host" BY <1>2 DEF Peer
    <2>2. /\ p["target"] = q["target"] /\ p["agent"] = q["agent"]
          /\ st2["target"] = st["target"] /\ st2["agent"] = st["agent"]
      BY <1>2, <2>1 DEF SameBut, Ends
    <2>3. {"target", "agent"} \in br2 <=> {"target", "agent"} \in br
      <3>1. {"target", "agent"} # {"client", "host"} OBVIOUS
      <3>2. QED BY <1>2, <2>1, <3>1 DEF Links
    <2>4. HelloLink(p["target"], p["agent"], st2["target"], st2["agent"], {"target", "agent"} \in br2)
      BY <2>2, <2>3, SameCut DEF NetFor
    <2>5. LinkAt("client", p, st2, {"client", "host"} \in br2)
      BY <1>2, <2>1
    <2>6. QED BY <1>1, <1>2, <2>1, <2>2, <2>4, <2>5 DEF NetFor, Queues, LinkAt, Peer
  <1>3. CASE u = "target"
    <2>1. Peer[u] = "agent" BY <1>3 DEF Peer
    <2>2. /\ p["client"] = q["client"] /\ p["host"] = q["host"]
          /\ st2["client"] = st["client"] /\ st2["host"] = st["host"]
      BY <1>3, <2>1 DEF SameBut, Ends
    <2>3. {"client", "host"} \in br2 <=> {"client", "host"} \in br
      <3>1. {"target", "agent"} # {"client", "host"} OBVIOUS
      <3>2. QED BY <1>3, <2>1, <3>1 DEF Links
    <2>4. HelloLink(p["client"], p["host"], st2["client"], st2["host"], {"client", "host"} \in br2)
      BY <2>2, <2>3, SameCut DEF NetFor
    <2>5. LinkAt("target", p, st2, {"target", "agent"} \in br2)
      BY <1>3, <2>1
    <2>6. QED BY <1>1, <1>3, <2>1, <2>2, <2>4, <2>5 DEF NetFor, Queues, LinkAt, Peer
  <1>4. QED BY <1>2, <1>3 DEF Upper

\* An end goes on in the handshake.
GoesOn(s, t) == t = s \/ (s \in {"StartWait", "HelloSent", "HelloReceived"} /\ t \in {"HelloSent", "Connected"})

\* A step of the handshake.
LEMMA HelloStep ==
    ASSUME PrInv, state' \in [Ends -> UpperStates \cup LowerStates],
           \A x \in Ends : GoesOn(state[x], state'[x]),
           UNCHANGED <<tokenid, rhs, failed, proxied, connecting, serving, broken, issued,
                       calls, faults>>,
           ProxyPair', ~proxied => state'["target"] = "StartWait" /\ state'["agent"] = "StartWait",
           TokensOK(net', HeldTokens, rhs, Shut, proxied), NetFor(net', state', broken, proxied)
    PROVE  PrInv'
  <1>1. PrTypeOK
    BY DEF PrInv
  <1>2. Shut' = Shut
    BY DEF Shut, GoesOn
  <1>3. PrTypeOK'
    <2>1. (\A x \in Upper : state'[x] \in UpperStates) /\ \A x \in Lower : state'[x] \in LowerStates
      BY <1>1, EndsFacts DEF PrTypeOK, UpperStates, LowerStates, GoesOn
    <2>2. QED BY <1>1, <2>1 DEF PrTypeOK, NetFor
  <1>4. TokenInv'
    BY <1>2 DEF TokenInv, HeldTokens
  <1>5. HandlersOK(rhs)' /\ NoSurprise' /\ CallsOK(rhs, failed, issued, calls)'
        /\ NetFor(net, state, broken, proxied)'
    BY DEF PrInv, HandlersOK, NoSurprise
  <1>6. RedirectStates(rhs, state)'
    <2>1. \A x \in Ends : state[x] = "RedirectSent" => state'[x] = "RedirectSent"
      BY DEF GoesOn
    <2>2. state'["target"] = "RedirectSent" => state["target"] = "RedirectSent"
      BY DEF GoesOn, Ends
    <2>3. QED BY <2>1, <2>2 DEF PrInv, RedirectStates
  <1>7. ProxyInv'
    <2>1. \A x \in Ends : connecting'[x] # NoInfo =>
             x \in Lower /\ state'[x] \in {"RedirectReceived", "Disconnected"}
      BY DEF PrInv, ProxyInv, GoesOn
    <2>2. \A x \in Ends : state'[x] = "Disconnected" => rhs'[x] = {}
      BY DEF PrInv, ProxyInv, GoesOn
    <2>3. ~proxied => state'["host"] # "HelloReceived"
      BY DEF PrInv, ProxyInv, GoesOn, Ends
    <2>4. QED BY <2>1, <2>2, <2>3 DEF PrInv, ProxyInv
  <1>8. QED BY <1>3, <1>4, <1>5, <1>6, <1>7 DEF PrInv

\* Only the end that waits for a Hello gets one.
LEMMA HelloExpected ==
    ASSUME PrInv, NEW e, NEW m, Receives(e, m), m.type = "Hello"
    PROVE  state[e] = "HelloSent"
  <1>1. e \in Ends /\ net \in Queues /\ net[e] \in Seq(Msgs) /\ net[e] # <<>> /\ m = Head(net[e])
    BY Received DEF Receives, Queues
  <1>2. 1 \in 1..Len(net[e]) /\ net[e][1].type = "Hello"
    BY <1>1, ShiftFacts
  <1>3. CASE e \in Upper
    <2>1. LinkAt(e, net, state, {e, Peer[e]} \in broken)
      BY <1>3, NetLinks DEF PrInv
    <2>2. HelloUp(net[e], state[e], state[Peer[e]], {e, Peer[e]} \in broken)
      BY <2>1 DEF LinkAt, HelloLink
    <2>3. state[e] \in {"StartWait", "HelloSent"}
      BY <1>2, <2>2 DEF HelloUp
    <2>4. QED BY <2>3 DEF Receives
  <1>4. CASE e \in Lower
    <2>0. Peer[e] \in Upper /\ Peer[Peer[e]] = e
      BY <1>4, EndsFacts
    <2>1. LinkAt(Peer[e], net, state, {Peer[e], e} \in broken)
      BY <2>0, NetLinks DEF PrInv
    <2>2. HelloDown(net[e], state[Peer[e]], state[e])
      BY <2>0, <2>1 DEF LinkAt, HelloLink
    <2>3. QED BY <1>2, <2>2 DEF HelloDown, Receives
  <1>5. QED BY <1>1, <1>3, <1>4, EndsFacts

LEMMA TakeHelloStep ==
    ASSUME PrInv, NEW e, NEW m, Receives(e, m), m.type = "Hello", TakeHello(e)
    PROVE  PrInv'
  <1>1. /\ e \in Ends /\ net \in Queues /\ Took(net, Got(e), e) /\ Got(e) \in Queues
        /\ m = Head(net[e]) /\ TokensOK(Got(e), HeldTokens, rhs, Shut, proxied)
        /\ proxied \/ e \in {"client", "host"}
    BY Received
  <1>2. state[e] = "HelloSent"
    BY HelloExpected
  <1>3. PrTypeOK /\ NetFor(net, state, broken, proxied) /\ ProxyPair
    BY DEF PrInv, ProxyInv
  <1>4. e = "target" => proxied /\ state["host"] = "HelloReceived"
    BY <1>1, <1>2, <1>3 DEF ProxyPair
  <1>q. PICK q : q = Got(e) OBVIOUS
  <1>5. q \in Queues /\ q[e] = Tail(net[e]) /\ \A x \in Ends \ {e} : q[x] = net[x]
    BY <1>1, <1>q, TailFacts
  <1>6. /\ net[e] \in Seq(Msgs) /\ net[e] # <<>> /\ Head(net[e]).type = "Hello"
    BY <1>1 DEF Queues, Receives
  <1>7. PICK st : st = [state EXCEPT ![e] = "Connected"] OBVIOUS
  <1>8. st[e] = "Connected" /\ (\A x \in Ends \ {e} : st[x] = state[x])
        /\ st \in [Ends -> UpperStates \cup LowerStates]
    BY <1>1, <1>3, <1>7 DEF PrTypeOK, UpperStates
  <1>9. NetFor(q, st, broken, proxied)
    <2>0. \A l \in Links : l \in broken <=> l \in broken
      OBVIOUS
    <2>1. CASE e \in Upper
      <3>0. Peer[e] \in Ends /\ Peer[e] # e
        BY <2>1, EndsFacts
      <3>1. LinkAt(e, net, state, {e, Peer[e]} \in broken)
        BY <1>3, <2>1, NetLinks
      <3>2. LinkAt(e, q, st, {e, Peer[e]} \in broken)
        <4>1. q[Peer[e]] = net[Peer[e]] /\ st[Peer[e]] = state[Peer[e]]
          BY <1>5, <1>8, <3>0
        <4>2. HelloLink(Tail(net[e]), net[Peer[e]], "Connected", state[Peer[e]], {e, Peer[e]} \in broken)
          BY <1>6, <3>1, UpperConnects DEF LinkAt
        <4>3. QED BY <1>5, <1>8, <4>1, <4>2 DEF LinkAt
      <3>3. SameBut(e, net, q, state, st)
        BY <1>5, <1>8 DEF SameBut
      <3>4. /\ st[e] = "Disconnected" => q[e] = <<>>
            /\ st[Peer[e]] = "Disconnected" => q[Peer[e]] = <<>>
        BY <1>3, <1>5, <1>8, <3>0 DEF NetFor
      <3>5. proxied \/ e = "client"
        BY <1>1, <2>1 DEF Upper
      <3>6. QED BY <1>3, <1>5, <2>0, <2>1, <3>2, <3>3, <3>4, <3>5, NetLink
    <2>2. CASE e \in Lower
      <3>u. PICK u : u = Peer[e] OBVIOUS
      <3>0. u \in Upper /\ u \in Ends /\ u # e /\ Peer[u] = e
        BY <2>2, <3>u, EndsFacts
      <3>1. LinkAt(u, net, state, {u, Peer[u]} \in broken)
        BY <1>3, <3>0, NetLinks
      <3>2. LinkAt(u, q, st, {u, Peer[u]} \in broken)
        <4>1. q[u] = net[u] /\ st[u] = state[u]
          BY <1>5, <1>8, <3>0
        <4>2. HelloLink(net[u], net[e], state[u], "HelloSent", {u, Peer[u]} \in broken)
          BY <1>2, <3>0, <3>1 DEF LinkAt
        <4>3. HelloLink(net[u], Tail(net[e]), state[u], "Connected", {u, Peer[u]} \in broken)
          BY <1>6, <4>2, LowerConnects
        <4>4. QED BY <1>5, <1>8, <3>0, <4>1, <4>3 DEF LinkAt
      <3>3. SameBut(u, net, q, state, st)
        BY <1>5, <1>8, <3>0 DEF SameBut
      <3>4. /\ st[u] = "Disconnected" => q[u] = <<>>
            /\ st[Peer[u]] = "Disconnected" => q[Peer[u]] = <<>>
        BY <1>3, <1>5, <1>8, <3>0 DEF NetFor
      <3>5. proxied \/ u = "client"
        BY <1>1, <2>2, <3>u DEF Lower, Peer
      <3>6. QED BY <1>3, <1>5, <2>0, <3>0, <3>2, <3>3, <3>4, <3>5, NetLink
    <2>3. QED BY <1>1, <2>1, <2>2, EndsFacts
  <1>10. CASE e # "target"
    <2>1. state' = st /\ net' = q
          /\ UNCHANGED <<tokenid, rhs, failed, proxied, connecting, serving, broken, issued, calls, faults>>
      <3>1. state' = [x \in Ends |-> IF x = e THEN "Connected" ELSE state[x]]
        BY <1>10 DEF TakeHello
      <3>2. state' = st
        BY <1>3, <1>7, <3>1 DEF PrTypeOK
      <3>3. QED BY <1>10, <1>q, <3>2 DEF TakeHello
    <2>2. \A x \in Ends : GoesOn(state[x], state'[x])
      BY <1>2, <1>8, <2>1 DEF GoesOn
    <2>3. ProxyPair'
      <3>1. proxied => e # "host"
        BY <1>2, <1>3 DEF ProxyPair
      <3>2. proxied => state'["host"] = state["host"] /\ state'["target"] = state["target"]
        BY <1>8, <1>10, <2>1, <3>1 DEF Ends
      <3>3. QED BY <1>3, <2>1, <3>2 DEF ProxyPair
    <2>4. ~proxied => state'["target"] = "StartWait" /\ state'["agent"] = "StartWait"
      <3>1. ~proxied => state'["target"] = state["target"] /\ state'["agent"] = state["agent"]
        BY <1>1, <1>8, <2>1 DEF Ends
      <3>2. QED BY <3>1 DEF PrInv, ProxyInv
    <2>5. QED BY <1>1, <1>8, <1>9, <1>q, <2>1, <2>2, <2>3, <2>4, HelloStep
  <1>11. CASE e = "target"
    <2>h. PICK hello : hello = Plain("Hello") OBVIOUS
    <2>1. hello \in Msgs /\ hello.type = "Hello" /\ hello.hops = 0 /\ hello.type \notin Tokens
      BY <2>h, PlainFacts
    <2>2. PICK p : p = Put(q, "host", hello) OBVIOUS
    <2>3. PICK st2 : st2 = [st EXCEPT !["host"] = "Connected"] OBVIOUS
    <2>4. /\ st2["host"] = "Connected" /\ st2["target"] = "Connected"
          /\ st2["client"] = state["client"] /\ st2["agent"] = state["agent"]
          /\ st2 \in [Ends -> UpperStates \cup LowerStates]
          /\ \A x \in Ends \ {"host"} : st2[x] = st[x]
      BY <1>8, <1>11, <2>3 DEF Ends, UpperStates
    <2>5. /\ p \in Queues /\ Added(q, p, "client", hello) /\ Grown(q["client"], p["client"], hello)
          /\ Closed("client") \/ {"client", "host"} \in broken => p = q
          /\ \A x \in Ends \ {"client"} : p[x] = q[x]
      <3>1. Peer["host"] = "client" /\ "host" \in Ends /\ {"host", "client"} = {"client", "host"}
        BY DEF Peer, Ends
      <3>2. /\ Put(q, "host", hello) \in Queues
            /\ Added(q, Put(q, "host", hello), Peer["host"], hello)
            /\ Closed(Peer["host"]) \/ {"host", Peer["host"]} \in broken => Put(q, "host", hello) = q
            /\ Grown(q[Peer["host"]], Put(q, "host", hello)[Peer["host"]], hello)
            /\ \A x \in Ends \ {Peer["host"]} : Put(q, "host", hello)[x] = q[x]
        BY <1>5, <2>1, <3>1, PutFacts, Zenon
      <3>3. QED BY <2>2, <3>1, <3>2
    <2>6. NetFor(p, st2, broken, proxied)
      <3>0. "client" \in Upper /\ Peer["client"] = "host" /\ "client" \in Ends /\ "host" \in Ends
        BY DEF Upper, Peer, Ends
      <3>1. HelloLink(q["client"], q["host"], state["client"], "HelloReceived", {"client", "host"} \in broken)
        <4>1. st["client"] = state["client"] /\ st["host"] = "HelloReceived"
          BY <1>4, <1>8, <1>11, <3>0
        <4>2. QED BY <1>9, <4>1 DEF NetFor
      <3>2. HelloLink(p["client"], q["host"], state["client"], "Connected", {"client", "host"} \in broken)
        <4>1. p["client"] # q["client"] => ~({"client", "host"} \in broken) /\ state["client"] # "Disconnected"
          BY <2>5 DEF Closed
        <4>2. q["client"] \in Seq(Msgs)
          BY <1>5, <3>0 DEF Queues
        <4>3. QED BY <2>1, <2>5, <3>1, <4>1, <4>2, LowerCompletes
      <3>3. LinkAt("client", p, st2, {"client", Peer["client"]} \in broken)
        BY <2>4, <2>5, <3>0, <3>2 DEF LinkAt
      <3>4. SameBut("client", q, p, st, st2)
        BY <2>4, <2>5, <3>0 DEF SameBut
      <3>5. /\ st2["client"] = "Disconnected" => p["client"] = <<>>
            /\ st2[Peer["client"]] = "Disconnected" => p[Peer["client"]] = <<>>
        <4>1. state["client"] = "Disconnected" => p = q
          BY <2>5 DEF Closed
        <4>2. st["client"] = state["client"]
          BY <1>8, <1>11, <3>0
        <4>3. QED BY <1>9, <2>4, <3>0, <4>1, <4>2 DEF NetFor
      <3>6. \A l \in Links : l \in broken <=> l \in broken
        OBVIOUS
      <3>7. QED BY <1>4, <1>9, <1>11, <2>5, <3>0, <3>3, <3>4, <3>5, <3>6, NetLink
    <2>7. TokensOK(p, HeldTokens, rhs, Shut, proxied)
      BY <1>1, <1>5, <1>q, <2>1, <2>5, AddPlain DEF Ends
    <2>8. /\ state' = st2 /\ net' = p
          /\ UNCHANGED <<tokenid, rhs, failed, proxied, connecting, serving, broken, issued, calls, faults>>
      <3>1. /\ state' = [x \in Ends |-> IF x = e \/ (e = "target" /\ x = "host") THEN "Connected" ELSE state[x]]
            /\ net' = Put(Got(e), "host", Plain("Hello"))
            /\ UNCHANGED <<tokenid, rhs, failed, proxied, connecting, serving, broken, issued, calls, faults>>
        BY <1>4, <1>11 DEF TakeHello
      <3>2. state' = st2
        BY <1>3, <1>7, <1>11, <2>3, <3>1 DEF PrTypeOK, Ends
      <3>3. QED BY <1>q, <2>2, <2>h, <3>1, <3>2
    <2>9. \A x \in Ends : GoesOn(state[x], state'[x])
      BY <1>2, <1>4, <1>11, <2>4, <2>8 DEF GoesOn, Ends
    <2>10. ProxyPair'
      BY <2>4, <2>8 DEF ProxyPair
    <2>11. QED BY <1>4, <1>11, <2>4, <2>6, <2>7, <2>8, <2>9, <2>10, HelloStep
  <1>12. QED BY <1>10, <1>11

\* An end sends its Hello and goes on.
LEMMA SendHelloStep ==
    ASSUME PrInv, NEW e \in Ends, NEW s \in {"HelloSent", "Connected"},
           state[e] \in {"StartWait", "HelloReceived"},
           state' = [state EXCEPT ![e] = s], net' = Put(net, e, Plain("Hello")),
           UNCHANGED <<services, tokenid, rhs, failed, proxied, connecting, serving, broken,
                       issued, calls, faults>>,
           e \in {"client", "agent"} \/ ~proxied, proxied \/ e \in {"client", "host"},
           state[e] = "StartWait" => s = "HelloSent",
           state[e] = "HelloReceived" => s = "Connected" /\ e = "agent"
    PROVE  PrInv'
  <1>1. PrTypeOK /\ NetFor(net, state, broken, proxied) /\ ProxyPair
        /\ TokensOK(net, HeldTokens, rhs, Shut, proxied) /\ net \in Queues
    BY DEF PrInv, ProxyInv, TokenInv, NetFor, Queues
  <1>h. PICK hello : hello = Plain("Hello") OBVIOUS
  <1>2. hello \in Msgs /\ hello.type = "Hello" /\ hello.hops = 0 /\ hello.type \notin Tokens
    BY <1>h, PlainFacts
  <1>3. PICK p : p = Put(net, e, hello) OBVIOUS
  <1>4. /\ p \in Queues /\ Added(net, p, Peer[e], hello) /\ Grown(net[Peer[e]], p[Peer[e]], hello)
        /\ Closed(Peer[e]) \/ {e, Peer[e]} \in broken => p = net
        /\ \A x \in Ends \ {Peer[e]} : p[x] = net[x]
    BY <1>1, <1>2, <1>3, PutFacts
  <1>5. /\ Peer[e] \in Ends /\ Peer[e] # e /\ Peer[Peer[e]] = e
        /\ net[e] \in Seq(Msgs) /\ net[Peer[e]] \in Seq(Msgs)
    BY <1>1, EndsFacts DEF Queues
  <1>6. PICK st : st = [state EXCEPT ![e] = s] OBVIOUS
  <1>7. /\ st[e] = s /\ (\A x \in Ends \ {e} : st[x] = state[x])
        /\ st \in [Ends -> UpperStates \cup LowerStates]
    BY <1>1, <1>6 DEF PrTypeOK, UpperStates
  <1>8. \A l \in Links : l \in broken <=> l \in broken
    OBVIOUS
  <1>9. p # net => state[Peer[e]] # "Disconnected" /\ ~({e, Peer[e]} \in broken)
    BY <1>4 DEF Closed
  <1>10. /\ st[e] # "Disconnected"
         /\ st[Peer[e]] = "Disconnected" => p[Peer[e]] = <<>>
    BY <1>1, <1>5, <1>7, <1>9 DEF NetFor
  <1>11. NetFor(p, st, broken, proxied)
    <2>1. CASE e \in Upper
      <3>1. LinkAt(e, net, state, {e, Peer[e]} \in broken)
        BY <1>1, <2>1, NetLinks
      <3>2. e = "client" /\ state[e] = "StartWait" /\ s = "HelloSent"
        BY <1>1, <2>1, EndsFacts DEF Upper, Lower, PrTypeOK, UpperStates
      <3>3. HelloLink(p[e], p[Peer[e]], "HelloSent", state[Peer[e]], {e, Peer[e]} \in broken)
        BY <1>2, <1>4, <1>5, <1>9, <3>1, <3>2, UpperStarts DEF LinkAt
      <3>4. LinkAt(e, p, st, {e, Peer[e]} \in broken)
        BY <1>5, <1>7, <3>2, <3>3 DEF LinkAt
      <3>5. SameBut(e, net, p, state, st)
        BY <1>4, <1>7 DEF SameBut
      <3>6. QED BY <1>1, <1>4, <1>8, <1>10, <2>1, <3>2, <3>4, <3>5, NetLink
    <2>2. CASE e \in Lower
      <3>u. PICK u : u = Peer[e] OBVIOUS
      <3>0. u \in Upper /\ u \in Ends /\ u # e /\ Peer[u] = e /\ {u, Peer[u]} = {e, Peer[e]}
        BY <2>2, <3>u, EndsFacts
      <3>1. LinkAt(u, net, state, {u, Peer[u]} \in broken)
        BY <1>1, <3>0, NetLinks
      <3>2. HelloLink(net[u], net[e], state[u], state[e], {u, Peer[u]} \in broken)
        BY <3>0, <3>1 DEF LinkAt
      <3>9. /\ net[u] \in Seq(Msgs) /\ Grown(net[u], p[u], hello) /\ p[e] = net[e]
            /\ p[u] # net[u] => state[u] # "Disconnected" /\ ~({u, Peer[u]} \in broken)
        BY <1>4, <1>5, <1>9, <3>0, <3>u
      <3>3. CASE state[e] = "StartWait"
        <4>1. HelloLink(p[u], net[e], state[u], "HelloSent", {u, Peer[u]} \in broken)
          BY <1>2, <3>2, <3>3, <3>9, LowerStarts
        <4>2. LinkAt(u, p, st, {u, Peer[u]} \in broken)
          BY <1>7, <3>0, <3>3, <3>9, <4>1 DEF LinkAt
        <4>3. SameBut(u, net, p, state, st)
          BY <1>4, <1>7, <3>0, <3>u DEF SameBut
        <4>4. st[u] = "Disconnected" => p[u] = <<>>
          BY <1>10, <3>u
        <4>5. st[Peer[u]] = "Disconnected" => p[Peer[u]] = <<>>
          BY <1>10, <3>0
        <4>6. proxied \/ u = "client"
          BY <2>2, <3>u DEF Lower, Peer
        <4>7. QED BY <1>1, <1>4, <1>8, <3>0, <4>2, <4>3, <4>4, <4>5, <4>6, NetLink
      <3>4. CASE state[e] = "HelloReceived"
        <4>1. HelloLink(p[u], net[e], state[u], "Connected", {u, Peer[u]} \in broken)
          BY <1>2, <3>2, <3>4, <3>9, LowerCompletes
        <4>2. LinkAt(u, p, st, {u, Peer[u]} \in broken)
          BY <1>7, <3>0, <3>4, <3>9, <4>1 DEF LinkAt
        <4>3. SameBut(u, net, p, state, st)
          BY <1>4, <1>7, <3>0, <3>u DEF SameBut
        <4>4. st[u] = "Disconnected" => p[u] = <<>>
          BY <1>10, <3>u
        <4>5. st[Peer[u]] = "Disconnected" => p[Peer[u]] = <<>>
          BY <1>10, <3>0
        <4>6. proxied \/ u = "client"
          BY <2>2, <3>u DEF Lower, Peer
        <4>7. QED BY <1>1, <1>4, <1>8, <3>0, <4>2, <4>3, <4>4, <4>5, <4>6, NetLink
      <3>5. QED BY <3>3, <3>4
    <2>3. QED BY <2>1, <2>2, EndsFacts
  <1>12. TokensOK(p, HeldTokens, rhs, Shut, proxied)
    BY <1>1, <1>2, <1>4, <1>5, AddPlain
  <1>13. state' = st /\ net' = p
    BY <1>3, <1>6, <1>h
  <1>14. \A x \in Ends : GoesOn(state[x], state'[x])
    BY <1>7, <1>13 DEF GoesOn
  <1>15. ProxyPair'
    <2>1. proxied => state'["host"] = state["host"] /\ state'["target"] = state["target"]
      BY <1>7, <1>13 DEF Ends
    <2>2. QED BY <1>1, <2>1 DEF ProxyPair
  <1>16. ~proxied => state'["target"] = "StartWait" /\ state'["agent"] = "StartWait"
    <2>1. ~proxied => state'["target"] = state["target"] /\ state'["agent"] = state["agent"]
      BY <1>7, <1>13 DEF Ends
    <2>2. QED BY <2>1 DEF PrInv, ProxyInv
  <1>17. QED BY <1>7, <1>11, <1>12, <1>13, <1>14, <1>15, <1>16, HelloStep

LEMMA StartStep ==
    ASSUME PrInv, NEW e \in Ends, Start(e)
    PROVE  PrInv'
  <1>1. /\ e # "target" /\ (e = "agent" => proxied) /\ state[e] = "StartWait"
        /\ state' = [state EXCEPT ![e] = "HelloSent"] /\ net' = Put(net, e, Plain("Hello"))
        /\ UNCHANGED <<services, tokenid, rhs, failed, proxied, connecting, serving, broken,
                       issued, calls, faults>>
    BY DEF Start
  <1>2. e = "host" => ~proxied
    BY <1>1 DEF PrInv, ProxyInv, ProxyPair
  <1>3. QED BY <1>1, <1>2, SendHelloStep DEF Ends

LEMMA HopConnectedStep ==
    ASSUME PrInv, HopConnected
    PROVE  PrInv'
  <1>1. /\ state["agent"] = "HelloReceived"
        /\ state' = [state EXCEPT !["agent"] = "Connected"]
        /\ net' = Put(net, "agent", Plain("Hello"))
        /\ UNCHANGED <<services, tokenid, rhs, failed, proxied, connecting, serving, broken,
                       issued, calls, faults>>
    BY DEF HopConnected
  <1>2. proxied
    BY <1>1 DEF PrInv, ProxyInv
  <1>3. QED BY <1>1, <1>2, SendHelloStep DEF Ends

-----------------------------------------------------------------------------
(***************************************************************************)
(* Closing                                                                 *)
(***************************************************************************)

\* The message m is added to some of the queues.
AddedEach(q, p, m) == \A x \in Ends : Grown(q[x], p[x], m)

Replaced(q, p, x, r) == p = [q EXCEPT ![x] = r[x]]

\* m has no token.
Tokenless(m) == m \in Msgs /\ m.type \notin Tokens /\ m.hops = 0

LEMMA ReplacedFacts ==
    ASSUME NEW p \in Queues, NEW a \in Queues, NEW x \in Ends, NEW b, Replaced(a, b, x, p)
    PROVE  b \in Queues /\ b[x] = p[x] /\ \A y \in Ends \ {x} : b[y] = a[y]
  BY DEF Replaced, Queues

LEMMA ReplacedTokens ==
    ASSUME NEW p \in Queues, NEW a \in Queues, NEW x \in Ends, NEW b, Replaced(a, b, x, p),
           NEW m, Tokenless(m), Grown(a[x], p[x], m),
           NEW H, NEW rh, NEW cl, NEW prox, TokensOK(a, H, rh, cl, prox)
    PROVE  TokensOK(b, H, rh, cl, prox)
  <1>1. b = [a EXCEPT ![x] = p[x]]
    BY DEF Replaced
  <1>2. Added(a, b, x, m)
    <2>1. CASE p[x] = a[x]
      <3>1. b = a BY <1>1, <2>1 DEF Queues
      <3>2. QED BY <3>1 DEF Added
    <2>2. CASE p[x] = Append(a[x], m)
      BY <1>1, <2>2 DEF Added
    <2>3. QED BY <2>1, <2>2 DEF Grown
  <1>3. m \in Msgs /\ m.type \notin Tokens /\ m.hops = 0
    BY DEF Tokenless
  <1>4. QED BY <1>2, <1>3, AddPlain

LEMMA EachTokens ==
    ASSUME NEW q \in Queues, NEW p \in Queues, NEW H, NEW rh, NEW cl, NEW prox,
           NEW m, Tokenless(m), TokensOK(q, H, rh, cl, prox), AddedEach(q, p, m)
    PROVE  TokensOK(p, H, rh, cl, prox)
  <1>0. /\ Grown(q["client"], p["client"], m) /\ Grown(q["host"], p["host"], m)
        /\ Grown(q["target"], p["target"], m) /\ Grown(q["agent"], p["agent"], m)
        /\ "client" \in Ends /\ "host" \in Ends /\ "target" \in Ends /\ "agent" \in Ends
    BY DEF AddedEach, Ends
  <1>1. PICK b1 : Replaced(q, b1, "client", p) BY DEF Replaced
  <1>2. PICK b2 : Replaced(b1, b2, "host", p) BY DEF Replaced
  <1>3. PICK b3 : Replaced(b2, b3, "target", p) BY DEF Replaced
  <1>4. PICK b4 : Replaced(b3, b4, "agent", p) BY DEF Replaced
  <1>5. b1 \in Queues /\ b1["client"] = p["client"] /\ \A y \in Ends \ {"client"} : b1[y] = q[y]
    BY <1>0, <1>1, ReplacedFacts
  <1>6. b2 \in Queues /\ b2["host"] = p["host"] /\ \A y \in Ends \ {"host"} : b2[y] = b1[y]
    BY <1>0, <1>2, <1>5, ReplacedFacts
  <1>7. b3 \in Queues /\ b3["target"] = p["target"] /\ \A y \in Ends \ {"target"} : b3[y] = b2[y]
    BY <1>0, <1>3, <1>6, ReplacedFacts
  <1>8. b4 \in Queues /\ b4["agent"] = p["agent"] /\ \A y \in Ends \ {"agent"} : b4[y] = b3[y]
    BY <1>0, <1>4, <1>7, ReplacedFacts
  <1>9. /\ b1["host"] = q["host"] /\ b2["target"] = q["target"] /\ b3["agent"] = q["agent"]
        /\ \A y \in Ends : b4[y] = p[y]
    BY <1>5, <1>6, <1>7, <1>8 DEF Ends
  <1>10. b4 = p
    BY <1>8, <1>9 DEF Queues
  <1>11. TokensOK(b1, H, rh, cl, prox)
    BY <1>0, <1>1, ReplacedTokens
  <1>12. TokensOK(b2, H, rh, cl, prox)
    BY <1>0, <1>2, <1>5, <1>9, <1>11, ReplacedTokens
  <1>13. TokensOK(b3, H, rh, cl, prox)
    BY <1>0, <1>3, <1>6, <1>9, <1>12, ReplacedTokens
  <1>14. TokensOK(b4, H, rh, cl, prox)
    BY <1>0, <1>4, <1>7, <1>9, <1>13, ReplacedTokens
  <1>15. QED BY <1>10, <1>14

LEMMA EachNet ==
    ASSUME NEW q \in Queues, NEW p \in Queues, NEW m \in Msgs, m.type # "Hello", AddedEach(q, p, m),
           NEW st, NEW br, NEW prox, NetFor(q, st, br, prox),
           \A x \in Ends : p[x] # q[x] => st[x] # "Disconnected" /\ (prox \/ x \in {"client", "host"})
    PROVE  NetFor(p, st, br, prox)
  <1>0. /\ Grown(q["client"], p["client"], m) /\ Grown(q["host"], p["host"], m)
        /\ Grown(q["target"], p["target"], m) /\ Grown(q["agent"], p["agent"], m)
        /\ q["client"] \in Seq(Msgs) /\ q["host"] \in Seq(Msgs)
        /\ q["target"] \in Seq(Msgs) /\ q["agent"] \in Seq(Msgs)
    BY DEF AddedEach, Ends, Queues
  <1>1. HelloLink(p["client"], p["host"], st["client"], st["host"], {"client", "host"} \in br)
    BY <1>0, GrowUp, GrowDown DEF NetFor, HelloLink
  <1>2. HelloLink(p["target"], p["agent"], st["target"], st["agent"], {"target", "agent"} \in br)
    BY <1>0, GrowUp, GrowDown DEF NetFor, HelloLink
  <1>3. \A x \in Ends : st[x] = "Disconnected" => p[x] = <<>>
    BY DEF NetFor
  <1>4. ~prox => p["target"] = <<>> /\ p["agent"] = <<>>
    BY DEF NetFor, Ends
  <1>5. QED BY <1>1, <1>2, <1>3, <1>4 DEF NetFor, Queues

\* The queues of the ends D are dropped, and these ends are closed.
Dropped(D, q, p, st, st2) ==
    \A x \in Ends : IF x \in D THEN p[x] = <<>> /\ st2[x] = "Disconnected"
                                ELSE p[x] = q[x] /\ st2[x] = st[x]

LEMMA ClosedNet ==
    ASSUME NEW q \in Queues, NEW p \in Queues, NEW D, NEW st, NEW st2, NEW br, NEW prox,
           NetFor(q, st, br, prox), Dropped(D, q, p, st, st2)
    PROVE  NetFor(p, st2, br, prox)
  <1>0. \A x \in Ends : IF x \in D THEN p[x] = <<>> /\ st2[x] = "Disconnected"
                                    ELSE p[x] = q[x] /\ st2[x] = st[x]
    BY DEF Dropped
  <1>1. ASSUME NEW u \in Ends, NEW d \in Ends, NEW cut, HelloLink(q[u], q[d], st[u], st[d], cut)
        PROVE  HelloLink(p[u], p[d], st2[u], st2[d], cut)
    <2>1. HelloLink(p[u], q[d], st2[u], st[d], cut)
      <3>1. HelloLink(<<>>, q[d], "Disconnected", st[d], cut)
        BY <1>1, LinkCloses
      <3>2. QED BY <1>0, <1>1, <3>1
    <2>2. HelloLink(p[u], <<>>, st2[u], "Disconnected", cut)
      BY <2>1, LinkCloses
    <2>3. QED BY <1>0, <2>1, <2>2
  <1>2. HelloLink(p["client"], p["host"], st2["client"], st2["host"], {"client", "host"} \in br)
    BY <1>1 DEF NetFor, Ends
  <1>3. HelloLink(p["target"], p["agent"], st2["target"], st2["agent"], {"target", "agent"} \in br)
    BY <1>1 DEF NetFor, Ends
  <1>4. \A x \in Ends : st2[x] = "Disconnected" => p[x] = <<>>
    BY <1>0 DEF NetFor
  <1>5. ~prox => p["target"] = <<>> /\ p["agent"] = <<>>
    BY <1>0 DEF NetFor, Ends
  <1>6. QED BY <1>2, <1>3, <1>4, <1>5 DEF NetFor, Queues

LEMMA ClosedTokens ==
    ASSUME NEW q \in Queues, NEW p \in Queues, NEW D \in SUBSET Ends, NEW H, NEW K \in SUBSET H,
           NEW rh, NEW rh2, NEW cl, NEW prox, TokensOK(q, H, rh, cl, prox),
           \A x \in Ends : IF x \in D THEN p[x] = <<>> ELSE p[x] = q[x] /\ rh2[x] = rh[x]
    PROVE  TokensOK(p, K, rh2, cl \cup D, prox)
  <1>1. Fewer(q, p)
    <2>1. ASSUME NEW x \in Ends
          PROVE  Len(p[x]) + 0 <= Len(q[x]) /\ \A i \in 1..Len(p[x]) : p[x][i] = q[x][i + 0]
      <3>1. Len(q[x]) \in Nat /\ Len(p[x]) \in Nat
        BY DEF Queues
      <3>2. CASE x \in D
        BY <3>1, <3>2
      <3>3. CASE x \notin D
        BY <3>1, <3>3
      <3>4. QED BY <3>2, <3>3
    <2>2. QED BY <2>1 DEF Fewer
  <1>2. TokensOK(p, K, rh, cl, prox)
    BY <1>1, FewerTokens
  <1>3. \A e \in Ends \ (cl \cup D) : \A r \in rh[e] : \E s \in rh2[e] : s.n = r.n /\ s.cmd = r.cmd
    OBVIOUS
  <1>4. QED BY <1>2, <1>3, OtherHandlers

\* The ends that close together.
LEMMA ClosedFacts ==
    ASSUME PrInv, NEW e \in Ends, ~Closed(e), state[e] # "StartWait"
    PROVE  /\ ClosedWith(e) \in SUBSET Ends /\ e \in ClosedWith(e)
           /\ proxied => ("host" \in ClosedWith(e) <=> "target" \in ClosedWith(e))
           /\ ~proxied => ClosedWith(e) \subseteq {"client", "host"}
           /\ e = "target" => "target" \in ClosedWith(e) /\ proxied
  <1>1. proxied \/ e \in {"client", "host"}
    BY Exists
  <1>2. QED BY <1>1 DEF ClosedWith, IsProxy, Ends

\* The redirect that was relayed is answered before the target closes.
LEMMA RelayFailedFacts ==
    ASSUME PrInv, proxied, NEW q \in Queues, TokensOK(q, HeldTokens, rhs, Shut, proxied),
           NetFor(q, state, broken, proxied)
    PROVE  LET q1 == RelayFailed(q, rhs["target"]) IN
           /\ q1 \in Queues /\ NetFor(q1, state, broken, proxied)
           /\ TokensOK(q1, HeldOf(serving, connecting, {}), rhs, Shut, proxied)
  <1>q. PICK q1 : q1 = RelayFailed(q, rhs["target"]) OBVIOUS
  <1>rt. PICK rt : rt = rhs["target"] OBVIOUS
  <1>f. PICK F : F = {r \in rt : r.kind = "relay"} OBVIOUS
  <1>k. PICK K : K = HeldOf(serving, connecting, {}) OBVIOUS
  <1>h. HeldTokens = HeldOf(serving, connecting, rt)
    BY <1>rt DEF HeldTokens
  <1>1. CASE F = {}
    <2>1. q1 = q
      BY <1>1, <1>f, <1>q, <1>rt DEF RelayFailed
    <2>2. K \subseteq HeldTokens
      <3>1. \A s \in {} : s.kind = "relay" => s \in rt OBVIOUS
      <3>2. QED BY <1>h, <1>k, <3>1, FewerRelays
    <2>3. TokensOK(q, K, rhs, Shut, proxied)
      BY <2>2, SameFewer, FewerTokens
    <2>4. QED BY <1>k, <1>q, <2>1, <2>3
  <1>2. CASE F # {}
    <2>1. PICK r \in F : r = CHOOSE x \in F : TRUE
      BY <1>2
    <2>a. PICK a : a = Message("R", 0, r.via, r.cmd, FALSE) OBVIOUS
    <2>2. q1 = Put(q, "host", a)
      BY <1>2, <1>f, <1>q, <1>rt, <2>1, <2>a DEF RelayFailed
    <2>3. r \in rt /\ r.kind = "relay" /\ r \in Handlers /\ r.cmd \in Redirects /\ r.cmd \in Cmds /\ r.via \in Nat
      <3>1. r \in rt /\ r.kind = "relay"
        BY <1>f, <2>1
      <3>2. r \in Handlers
        BY <1>rt, <3>1 DEF PrInv, PrTypeOK, Ends
      <3>3. r.cmd \in Redirects
        BY <1>rt, <3>1 DEF PrInv, HandlersOK, HandlersAt, Ends
      <3>4. QED BY <3>1, <3>2, <3>3 DEF Handlers
    <2>4. a \in Msgs /\ a.type = "R" /\ a.hops = 0 /\ a.n = r.via /\ a.cmd = r.cmd
      BY <2>3, <2>a DEF Message, Msgs, MsgTypes, Tokens
    <2>5. RoutedOne("client", a, proxied) /\ Owner("client", a) = "client" /\ "client" \in Ends
      BY <2>3, <2>4 DEF RoutedOne, Owner, Tokens, Upper, Ends
    <2>6. Peer["host"] = "client" /\ "host" \in Ends
      BY DEF Peer, Ends
    <2>7. Put(q, "host", a) \in Queues /\ Added(q, Put(q, "host", a), Peer["host"], a)
      BY <2>4, <2>6, PutFacts
    <2>8. q1 \in Queues /\ Added(q, q1, "client", a)
      BY <2>2, <2>6, <2>7
    <2>9. NetFor(q1, state, broken, proxied)
      <3>1. a.type # "Hello" BY <2>4
      <3>2. QED BY <2>2, <2>4, <2>6, <3>1, NetPut
    <2>h. PICK h : h = RelayHeld(r) OBVIOUS
    <2>10. /\ h.own = "client" /\ h.msg.n = r.via /\ h.msg.cmd = r.cmd /\ h.msg.hops = 0
      BY <2>h, RelayFields
    <2>11. h \in HeldTokens /\ K \in SUBSET (HeldTokens \ {h})
      <3>1. \A s \in {} : s.kind # "relay" OBVIOUS
      <3>2. /\ RelayHeld(r) \in HeldOf(serving, connecting, rt)
            /\ HeldOf(serving, connecting, {}) \subseteq HeldOf(serving, connecting, rt) \ {RelayHeld(r)}
        BY <2>3, <3>1, NoRelays
      <3>3. QED BY <1>h, <1>k, <2>h, <3>2
    <2>12. SameToken(h.msg, a) /\ a.hops = h.msg.hops
      BY <2>4, <2>10 DEF SameToken
    <2>13. TokensOK(q1, K, rhs, Shut, proxied)
      BY <2>4, <2>5, <2>8, <2>10, <2>11, <2>12, MoveFromHeld
    <2>14. QED BY <1>k, <1>q, <2>8, <2>9, <2>13
  <1>3. QED BY <1>1, <1>2

\* The commands of S are sent, and their failure is in the event queue.
LEMMA CallsFailing ==
    ASSUME NEW rh, NEW fl, NEW iss, NEW ca, CallsOK(rh, fl, iss, ca),
           NEW S \in SUBSET (Cmds \ iss), \A c \in S : ca[c] = <<>>
    PROVE  CallsOK(rh, fl \cup S, iss \cup S, ca)
  <1>1. \A c \in Cmds : c \notin iss \cup S => ca[c] = <<>>
    BY DEF CallsOK
  <1>2. \A c \in fl \cup S : c \in iss \cup S /\ ca[c] = <<>>
    BY DEF CallsOK
  <1>3. ASSUME NEW e \in Ends, NEW r \in rh[e], r.kind = "app"
        PROVE  /\ r.cmd \in (iss \cup S) \ (fl \cup S) /\ ca[r.cmd] = <<>>
               /\ \A s \in rh[e] : s.kind = "app" /\ s.cmd = r.cmd => s = r
    BY <1>3 DEF CallsOK
  <1>4. QED BY <1>1, <1>2, <1>3 DEF CallsOK

\* What the closing of e sends is new.
LEMMA SentAgainFacts ==
    ASSUME NEW D, NEW more \in SentAgain(D)
    PROVE  more \in SUBSET (Cmds \ issued)
  <1>1. more = {} \/ \E c \in Resent \ issued : more = {c}
    BY DEF SentAgain
  <1>2. QED BY <1>1, ProtocolAssumption

LEMMA CloseEndStep ==
    ASSUME PrInv, NEW e \in Ends, ~Closed(e), state[e] # "StartWait", NEW q \in Queues,
           TokensOK(q, HeldTokens, rhs, Shut, proxied), NetFor(q, state, broken, proxied),
           CloseEnd(e, q), NoSurprise',
           UNCHANGED <<tokenid, proxied, connecting, serving, broken>>
    PROVE  PrInv'
  <1>d. PICK D : D = ClosedWith(e) OBVIOUS
  <1>1. /\ D \in SUBSET Ends /\ e \in D
        /\ proxied => ("host" \in D <=> "target" \in D)
        /\ ~proxied => D \subseteq {"client", "host"}
        /\ e = "target" => "target" \in D /\ proxied
    BY <1>d, ClosedFacts
  <1>q. PICK q1 : q1 = IF e = "target" THEN RelayFailed(q, rhs["target"]) ELSE q
    OBVIOUS
  <1>e. PICK G : G = {x \in Ends : \E y \in D : Peer[y] = x /\ {x, y} \notin broken /\ ~Closed(x)}
    OBVIOUS
  <1>2. /\ state' = [x \in Ends |-> IF x \in D THEN "Disconnected" ELSE state[x]]
        /\ rhs' = [x \in Ends |-> IF x \in D THEN {} ELSE rhs[x]]
        /\ calls' = CloseCalls(D)
        /\ net' = [x \in Ends |-> IF x \in D THEN <<>>
                                  ELSE IF x \in G THEN Append(q1[x], Plain("eos")) ELSE q1[x]]
    <2>1. /\ state' = [x \in Ends |-> IF x \in ClosedWith(e) THEN "Disconnected" ELSE state[x]]
          /\ rhs' = [x \in Ends |-> IF x \in ClosedWith(e) THEN {} ELSE rhs[x]]
          /\ calls' = CloseCalls(ClosedWith(e))
          /\ net' = [x \in Ends |-> IF x \in ClosedWith(e) THEN <<>>
                        ELSE IF \E y \in ClosedWith(e) : Peer[y] = x /\ {x, y} \notin broken /\ ~Closed(x)
                               THEN Append((IF e = "target" THEN RelayFailed(q, rhs["target"]) ELSE q)[x], Plain("eos"))
                               ELSE (IF e = "target" THEN RelayFailed(q, rhs["target"]) ELSE q)[x]]
      BY DEF CloseEnd
    <2>2. \A x \in Ends : x \in G <=> \E y \in D : Peer[y] = x /\ {x, y} \notin broken /\ ~Closed(x)
      BY <1>e
    <2>3. net' = [x \in Ends |-> IF x \in D THEN <<>>
                                  ELSE IF x \in G THEN Append(q1[x], Plain("eos")) ELSE q1[x]]
      BY <1>d, <1>q, <2>1, <2>2
    <2>4. QED BY <1>d, <2>1, <2>3
  <1>m. PICK more \in SUBSET (Cmds \ issued) : issued' = issued \cup more /\ failed' = failed \cup more
    <2>1. PICK more \in SentAgain(ClosedWith(e)) : issued' = issued \cup more /\ failed' = failed \cup more
      BY DEF CloseEnd
    <2>2. more \in SUBSET (Cmds \ issued)
      BY SentAgainFacts
    <2>3. QED BY <2>1, <2>2
  <1>3. /\ PrTypeOK /\ HandlersOK(rhs) /\ CallsOK(rhs, failed, issued, calls)
        /\ RedirectStates(rhs, state) /\ ProxyInv
    BY DEF PrInv
  <1>4. /\ \A x \in D : state'[x] = "Disconnected" /\ rhs'[x] = {}
        /\ \A x \in Ends \ D : state'[x] = state[x] /\ rhs'[x] = rhs[x]
        /\ state' \in [Ends -> UpperStates \cup LowerStates]
        /\ rhs' \in [Ends -> SUBSET Handlers]
    BY <1>1, <1>2, <1>3 DEF PrTypeOK, UpperStates
  <1>k. PICK K : K = HeldOf(serving, connecting, rhs'["target"]) OBVIOUS
  <1>5. q1 \in Queues /\ NetFor(q1, state, broken, proxied) /\ TokensOK(q1, K, rhs, Shut, proxied)
    <2>1. CASE e = "target"
      <3>1. rhs'["target"] = {} /\ proxied
        BY <1>1, <1>4, <2>1
      <3>2. /\ RelayFailed(q, rhs["target"]) \in Queues
            /\ NetFor(RelayFailed(q, rhs["target"]), state, broken, proxied)
            /\ TokensOK(RelayFailed(q, rhs["target"]), HeldOf(serving, connecting, {}), rhs, Shut, proxied)
        BY <3>1, RelayFailedFacts
      <3>3. QED BY <1>k, <1>q, <2>1, <3>1, <3>2
    <2>2. CASE e # "target"
      <3>1. rhs'["target"] \subseteq rhs["target"]
        BY <1>4 DEF Ends
      <3>2. K \subseteq HeldTokens
        BY <1>k, <3>1, FewerRelays DEF HeldTokens
      <3>3. TokensOK(q, K, rhs, Shut, proxied)
        BY <3>2, SameFewer, FewerTokens
      <3>4. QED BY <1>q, <2>2, <3>3
    <2>3. QED BY <2>1, <2>2
  <1>6. PICK q2 : q2 = [x \in Ends |-> IF x \in D THEN <<>> ELSE q1[x]] OBVIOUS
  <1>7. /\ q2 \in Queues
        /\ \A x \in D : q2[x] = <<>>
        /\ \A x \in Ends \ D : q2[x] = q1[x]
    BY <1>1, <1>5, <1>6 DEF Queues
  <1>8. Shut' = Shut \cup D
    BY <1>1, <1>4 DEF Shut
  <1>9. TokensOK(q2, K, rhs', Shut', proxied)
    <2>1. \A x \in Ends : IF x \in D THEN q2[x] = <<>> ELSE q2[x] = q1[x] /\ rhs'[x] = rhs[x]
      BY <1>4, <1>7
    <2>2. TokensOK(q2, K, rhs', Shut \cup D, proxied)
      BY <1>1, <1>5, <1>7, <2>1, ClosedTokens
    <2>3. QED BY <1>8, <2>2
  <1>10. NetFor(q2, state', broken, proxied)
    <2>1. \A x \in Ends : IF x \in D THEN q2[x] = <<>> /\ state'[x] = "Disconnected"
                                     ELSE q2[x] = q1[x] /\ state'[x] = state[x]
      BY <1>4, <1>7
    <2>2. q1 \in Queues /\ q2 \in Queues /\ NetFor(q1, state, broken, proxied)
      BY <1>5, <1>7
    <2>3. Dropped(D, q1, q2, state, state')
      BY <2>1 DEF Dropped
    <2>4. QED BY ONLY <2>2, <2>3, ClosedNet
  <1>s. PICK eos : eos = Plain("eos") OBVIOUS
  <1>11. Tokenless(eos) /\ eos \in Msgs /\ eos.type # "Hello"
    BY <1>s, PlainFacts DEF Tokenless
  <1>12. /\ \A x \in D : net'[x] = <<>>
         /\ \A x \in Ends \ D : net'[x] = IF x \in G THEN Append(q1[x], eos) ELSE q1[x]
         /\ DOMAIN net' = Ends /\ net' = [x \in Ends |-> net'[x]]
    BY <1>1, <1>2, <1>s
  <1>13. net' \in Queues /\ AddedEach(q2, net', eos)
    <2>1. AddedEach(q2, net', eos)
      BY <1>7, <1>12 DEF AddedEach, Grown
    <2>2. \A x \in Ends : net'[x] \in Seq(Msgs)
      <3>1. ASSUME NEW x \in Ends PROVE net'[x] \in Seq(Msgs)
        <4>1. q2[x] \in Seq(Msgs) /\ (net'[x] = q2[x] \/ net'[x] = Append(q2[x], eos))
          BY <1>7, <2>1 DEF AddedEach, Grown, Queues
        <4>2. Append(q2[x], eos) \in Seq(Msgs)
          BY <1>11, <4>1, AppendFacts
        <4>3. QED BY <4>1, <4>2
      <3>2. QED BY <3>1
    <2>3. QED BY <1>12, <2>1, <2>2 DEF Queues
  <1>14. TokensOK(net', K, rhs', Shut', proxied)
    BY <1>7, <1>9, <1>11, <1>13, EachTokens
  <1>15. NetFor(net', state', broken, proxied)
    <2>1. \A x \in Ends : net'[x] # q2[x] => state'[x] # "Disconnected" /\ (proxied \/ x \in {"client", "host"})
      <3>1. ASSUME NEW x \in Ends, net'[x] # q2[x]
            PROVE  state'[x] # "Disconnected" /\ (proxied \/ x \in {"client", "host"})
        <4>1. x \notin D /\ x \in G
          BY <1>7, <1>12, <3>1
        <4>2. PICK y \in D : Peer[y] = x /\ ~Closed(x)
          BY <1>e, <4>1
        <4>3. proxied \/ x \in {"client", "host"}
          BY <1>1, <4>2 DEF Peer
        <4>4. QED BY <1>4, <4>1, <4>2, <4>3 DEF Closed
      <3>2. QED BY <3>1
    <2>2. QED BY <1>7, <1>10, <1>11, <1>13, <2>1, EachNet
  <1>16. calls' \in [Cmds -> Seq(AnswerTypes)] /\ CallsOK(rhs', failed', issued', calls')
    <2>1. PICK S : S = UNION {LiveApp(x) : x \in D} OBVIOUS
    <2>2. calls' = Call(S, "closed")
      BY <1>2, <2>1 DEF CloseCalls
    <2>3. calls \in [Cmds -> Seq(AnswerTypes)] /\ "closed" \in AnswerTypes
          /\ rhs \in [Ends -> SUBSET Handlers] /\ failed \in SUBSET Cmds
      BY <1>3 DEF PrTypeOK, AnswerTypes
    <2>4. /\ Call(S, "closed") \in [Cmds -> Seq(AnswerTypes)]
          /\ \A c \in Cmds \ S : Call(S, "closed")[c] = calls[c]
      BY <2>3, CallFacts
    <2>5. CalledAt(D, rhs, calls, calls')
      <3>1. ASSUME NEW c \in S PROVE \E x \in D : \E r \in rhs[x] : r.kind = "app" /\ r.cmd = c
        BY <2>1, <3>1 DEF LiveApp
      <3>2. QED BY <2>2, <2>4, <3>1 DEF CalledAt
    <2>6. GoneAt(D, rhs, rhs')
      BY <1>4 DEF GoneAt
    <2>7. CallsOK(rhs', failed, issued, calls')
      BY <1>1, <1>3, <2>3, <2>5, <2>6, CallsClosed
    <2>8. \A c \in more : calls'[c] = <<>>
      BY <1>m, <2>7 DEF CallsOK
    <2>9. CallsOK(rhs', failed \cup more, issued \cup more, calls')
      BY <2>7, <2>8, CallsFailing
    <2>10. QED BY <1>m, <2>2, <2>4, <2>9
  <1>17. PrTypeOK'
    <2>0. issued' \subseteq Cmds /\ failed' \subseteq Cmds
      BY <1>m, <1>3 DEF PrTypeOK
    <2>1. (\A x \in Upper : state'[x] \in UpperStates) /\ \A x \in Lower : state'[x] \in LowerStates
      BY <1>3, <1>4, EndsFacts DEF PrTypeOK, UpperStates, LowerStates
    <2>2. \A x \in Ends : IsFiniteSet(rhs'[x])
      BY <1>3, <1>4, FS_EmptySet DEF PrTypeOK
    <2>3. net' \in [Ends -> Seq(Msgs)]
      BY <1>13 DEF Queues
    <2>4. calls' \in [Cmds -> Seq({"reply", "rejected", "closed"})]
      BY <1>16 DEF AnswerTypes
    <2>5. QED BY <1>3, <1>4, <2>0, <2>1, <2>2, <2>3, <2>4 DEF PrTypeOK
  <1>18. TokenInv'
    BY <1>14, <1>k DEF TokenInv, HeldTokens
  <1>19. HandlersOK(rhs)'
    BY <1>3, <1>4 DEF HandlersOK, HandlersAt
  <1>20. RedirectStates(rhs, state)'
    <2>1. \A x \in Ends : \A r \in rhs'[x] : RedirectHandler(r) => state'[x] = "RedirectSent"
      BY <1>3, <1>4 DEF RedirectStates
    <2>2. state'["target"] = "RedirectSent" => "target" \notin D
      BY <1>4
    <2>3. QED BY <1>3, <1>4, <2>1, <2>2 DEF RedirectStates, Ends
  <1>21. ProxyInv'
    <2>1. ProxyPair'
      <3>1. CASE ~proxied
        BY <3>1 DEF ProxyPair
      <3>2. CASE proxied /\ "host" \in D
        BY <1>1, <1>4, <3>2 DEF ProxyPair
      <3>3. CASE proxied /\ "host" \notin D
        <4>1. state'["host"] = state["host"] /\ state'["target"] = state["target"]
          BY <1>1, <1>4, <3>3 DEF Ends
        <4>2. QED BY <1>3, <4>1 DEF ProxyPair, ProxyInv
      <3>4. QED BY <3>1, <3>2, <3>3
    <2>2. ~proxied => /\ state'["target"] = "StartWait" /\ state'["agent"] = "StartWait"
                      /\ rhs'["target"] = {} /\ state'["host"] # "HelloReceived"
      <3>1. ~proxied => "target" \notin D /\ "agent" \notin D
        BY <1>1
      <3>2. state'["host"] \in {"Disconnected", state["host"]}
        BY <1>4 DEF Ends
      <3>3. QED BY <1>3, <1>4, <3>1, <3>2 DEF ProxyInv, Ends
    <2>3. \A x \in Ends : connecting'[x] # NoInfo =>
             x \in Lower /\ state'[x] \in {"RedirectReceived", "Disconnected"}
      BY <1>3, <1>4 DEF ProxyInv
    <2>4. \A x \in Ends : state'[x] = "Disconnected" => rhs'[x] = {}
      BY <1>3, <1>4 DEF ProxyInv
    <2>5. QED BY <1>3, <2>1, <2>2, <2>3, <2>4 DEF ProxyInv
  <1>22. NetFor(net, state, broken, proxied)' /\ CallsOK(rhs, failed, issued, calls)'
    BY <1>15, <1>16
  <1>23. QED BY <1>17, <1>18, <1>19, <1>20, <1>21, <1>22 DEF PrInv

LEMMA KeepAllOrNone ==
    ASSUME NEW s \in Seq(Msgs), NEW k \in {0, 1}
    PROVE  SubSeq(s, 1, k * Len(s)) \in {s, <<>>}
  <1>1. CASE k = 0
    <2>1. k * Len(s) = 0 BY <1>1
    <2>2. QED BY <2>1
  <1>2. CASE k = 1
    <2>1. k * Len(s) = Len(s) BY <1>2
    <2>2. SubSeq(s, 1, Len(s)) = s OBVIOUS
    <2>3. QED BY <2>1, <2>2
  <1>3. QED BY <1>1, <1>2

LEMMA LoseLinkStep ==
    ASSUME PrInv, NEW l \in Links, LoseLink(l)
    PROVE  PrInv'
  <1>1. PICK u \in Upper : l = {u, Peer[u]}
    BY DEF Links, Upper, Peer
  <1>2. /\ u \in Ends /\ Peer[u] \in Ends /\ Peer[u] # u
    BY EndsFacts
  <1>3. /\ state[u] # "StartWait" /\ state[Peer[u]] # "StartWait"
        /\ broken' = broken \cup {l}
        /\ UNCHANGED <<state, services, tokenid, rhs, failed, proxied, connecting, serving,
                       issued, calls, faults>>
    BY <1>1 DEF LoseLink
  <1>4. proxied \/ u = "client"
    BY <1>2, <1>3, Exists DEF Upper
  <1>5. /\ PrTypeOK /\ NetFor(net, state, broken, proxied) /\ net \in Queues
        /\ TokensOK(net, HeldTokens, rhs, Shut, proxied)
    BY DEF PrInv, TokenInv, NetFor, Queues
  <1>6. PICK keep \in [l -> {0, 1}] :
          net' = [e \in Ends |-> IF e \notin l \/ Closed(e) THEN net[e]
                                 ELSE Append(SubSeq(net[e], 1, keep[e] * Len(net[e])), Plain("eos"))]
    BY DEF LoseLink
  <1>7. PICK p : p = [e \in Ends |-> IF e \notin l \/ Closed(e) THEN net[e]
                                     ELSE SubSeq(net[e], 1, keep[e] * Len(net[e]))]
    OBVIOUS
  <1>8. \A x \in Ends : net[x] \in Seq(Msgs)
    BY <1>5 DEF Queues
  <1>9. ASSUME NEW x \in Ends
        PROVE  p[x] \in {net[x], <<>>} /\ (x \notin l \/ Closed(x) => p[x] = net[x])
    <2>1. CASE x \notin l \/ Closed(x)
      BY <1>7, <2>1
    <2>2. CASE ~(x \notin l \/ Closed(x))
      <3>1. keep[x] \in {0, 1} BY <1>6, <2>2
      <3>2. SubSeq(net[x], 1, keep[x] * Len(net[x])) \in {net[x], <<>>}
        BY <1>8, <3>1, KeepAllOrNone
      <3>3. QED BY <1>7, <2>2, <3>2
    <2>3. QED BY <2>1, <2>2
  <1>10. p \in Queues
    <2>1. \A x \in Ends : p[x] \in Seq(Msgs)
      <3>1. <<>> \in Seq(Msgs) OBVIOUS
      <3>2. QED BY <1>8, <1>9, <3>1, Zenon
    <2>2. DOMAIN p = Ends /\ p = [x \in Ends |-> p[x]]
      BY <1>7
    <2>3. QED BY <2>1, <2>2 DEF Queues
  <1>s. PICK eos : eos = Plain("eos") OBVIOUS
  <1>11. Tokenless(eos) /\ eos \in Msgs /\ eos.type # "Hello"
    BY <1>s, PlainFacts DEF Tokenless
  <1>12. \A x \in Ends : IF x \notin l \/ Closed(x) THEN net'[x] = p[x] ELSE net'[x] = Append(p[x], eos)
    BY <1>6, <1>7, <1>s
  <1>13. net' \in Queues /\ AddedEach(p, net', eos)
    <2>1. AddedEach(p, net', eos)
      BY <1>12 DEF AddedEach, Grown
    <2>2. ASSUME NEW x \in Ends PROVE net'[x] \in Seq(Msgs)
      <3>1. p[x] \in Seq(Msgs)
        BY <1>10 DEF Queues
      <3>2. Append(p[x], eos) \in Seq(Msgs)
        BY <1>11, <3>1, AppendFacts
      <3>3. QED BY <1>12, <3>1, <3>2
    <2>3. DOMAIN net' = Ends /\ net' = [x \in Ends |-> net'[x]]
      BY <1>6
    <2>4. QED BY <2>1, <2>2, <2>3 DEF Queues
  <1>14. Fewer(net, p)
    <2>1. ASSUME NEW x \in Ends
          PROVE  Len(p[x]) + 0 <= Len(net[x]) /\ \A i \in 1..Len(p[x]) : p[x][i] = net[x][i + 0]
      <3>1. Len(net[x]) \in Nat
        BY <1>8
      <3>2. CASE p[x] = <<>>
        BY <3>1, <3>2
      <3>3. CASE p[x] = net[x]
        BY <3>1, <3>3
      <3>4. QED BY <1>9, <3>2, <3>3
    <2>2. QED BY <2>1 DEF Fewer
  <1>15. TokensOK(net', HeldTokens, rhs, Shut, proxied)
    <2>1. TokensOK(p, HeldTokens, rhs, Shut, proxied)
      BY <1>5, <1>10, <1>14, FewerTokens
    <2>2. QED BY <1>10, <1>11, <1>13, <2>1, EachTokens
  <1>16. NetFor(net', state, broken', proxied)
    <2>0. PICK br2 : br2 = broken' OBVIOUS
    <2>1. LinkAt(u, net, state, {u, Peer[u]} \in broken)
      BY <1>5, NetLinks
    <2>2. HelloLink(p[u], p[Peer[u]], state[u], state[Peer[u]], TRUE)
      <3>1. p[u] \in {net[u], <<>>} /\ p[Peer[u]] \in {net[Peer[u]], <<>>}
        BY <1>2, <1>9
      <3>2. HelloLink(net[u], net[Peer[u]], state[u], state[Peer[u]], {u, Peer[u]} \in broken)
        BY <2>1 DEF LinkAt
      <3>3. PICK qu, qd, su, sd, pu, pd, cut :
               /\ qu = net[u] /\ qd = net[Peer[u]] /\ su = state[u] /\ sd = state[Peer[u]]
               /\ pu = p[u] /\ pd = p[Peer[u]] /\ cut = ({u, Peer[u]} \in broken)
        OBVIOUS
      <3>4. HelloLink(qu, qd, su, sd, cut)
        BY <3>2, <3>3
      <3>5. pu \in {qu, <<>>} /\ pd \in {qd, <<>>} /\ su # "StartWait" /\ sd # "StartWait"
        BY <1>3, <3>1, <3>3
      <3>6. HelloLink(pu, pd, su, sd, TRUE)
        BY <3>4, <3>5, LinkLost
      <3>7. QED BY <3>3, <3>6
    <2>3. {u, Peer[u]} \in br2
      BY <1>1, <1>3, <2>0
    <2>4. HelloLink(p[u], p[Peer[u]], state[u], state[Peer[u]], {u, Peer[u]} \in br2)
      BY <2>2, <2>3, SameCut
    <2>5. LinkAt(u, p, state, {u, Peer[u]} \in br2)
      BY <2>4 DEF LinkAt
    <2>6. SameBut(u, net, p, state, state)
      BY <1>1, <1>9 DEF SameBut
    <2>7. \A k \in Links : k # {u, Peer[u]} => (k \in br2 <=> k \in broken)
      BY <1>1, <1>3, <2>0
    <2>8. /\ state[u] = "Disconnected" => p[u] = <<>>
          /\ state[Peer[u]] = "Disconnected" => p[Peer[u]] = <<>>
      BY <1>2, <1>5, <1>9 DEF NetFor
    <2>9. NetFor(p, state, br2, proxied)
      BY <1>4, <1>5, <1>10, <2>5, <2>6, <2>7, <2>8, NetLink
    <2>10. \A x \in Ends : net'[x] # p[x] => state[x] # "Disconnected" /\ (proxied \/ x \in {"client", "host"})
      <3>1. \A x \in Ends : net'[x] # p[x] => x \in l /\ ~Closed(x)
        BY <1>12
      <3>2. proxied \/ l = {"client", "host"}
        BY <1>1, <1>4 DEF Peer
      <3>3. QED BY <3>1, <3>2 DEF Closed
    <2>11. NetFor(net', state, br2, proxied)
      BY <1>10, <1>11, <1>13, <2>9, <2>10, EachNet
    <2>12. QED BY <2>0, <2>11
  <1>17. PrTypeOK'
    BY <1>3, <1>5, <1>13 DEF PrTypeOK, Queues
  <1>18. Shut' = Shut
    BY <1>3 DEF Shut
  <1>19. TokenInv'
    BY <1>3, <1>15, <1>18 DEF TokenInv, HeldTokens
  <1>20. /\ HandlersOK(rhs)' /\ RedirectStates(rhs, state)' /\ ProxyInv'
         /\ CallsOK(rhs, failed, issued, calls)' /\ NoSurprise'
    BY <1>3 DEF PrInv, HandlersOK, RedirectStates, ProxyInv, ProxyPair, NoSurprise
  <1>21. NetFor(net, state, broken, proxied)'
    BY <1>3, <1>16
  <1>22. QED BY <1>17, <1>19, <1>20, <1>21 DEF PrInv

LEMMA CloseStep ==
    ASSUME PrInv, NEW e \in Ends, Close(e) \/ EndOfStream(e)
    PROVE  PrInv'
  <1>1. /\ ~Closed(e) /\ state[e] # "StartWait" /\ CloseEnd(e, net)
        /\ UNCHANGED <<tokenid, proxied, connecting, serving, broken, faults>>
    BY DEF Close, EndOfStream, Closed
  <1>2. /\ NetFor(net, state, broken, proxied) /\ net \in Queues
        /\ TokensOK(net, HeldTokens, rhs, Shut, proxied) /\ NoSurprise
    BY DEF PrInv, TokenInv, NetFor, Queues
  <1>3. NoSurprise'
    BY <1>1, <1>2 DEF NoSurprise
  <1>4. QED BY <1>1, <1>2, <1>3, CloseEndStep

LEMMA JunkStep ==
    ASSUME PrInv, NEW e, NEW m, Receives(e, m), m.type = "junk", Fault(e, "junk")
    PROVE  PrInv'
  <1>1. /\ e \in Ends /\ ~Closed(e) /\ state[e] # "StartWait" /\ m = Head(net[e])
        /\ net \in Queues /\ Took(net, Got(e), e) /\ Got(e) \in Queues
        /\ TokensOK(Got(e), HeldTokens, rhs, Shut, proxied)
    BY Received DEF Receives
  <1>2. /\ NetFor(net, state, broken, proxied) /\ NoSurprise
    BY DEF PrInv
  <1>3. NetFor(Got(e), state, broken, proxied)
    <2>1. ~Granted(Head(net[e])) BY <1>1 DEF Granted
    <2>2. QED BY <1>1, <1>2, <2>1, NetTake
  <1>4. /\ CloseEnd(e, Got(e)) /\ NoSurprise'
        /\ UNCHANGED <<tokenid, proxied, connecting, serving, broken>>
    BY <1>2 DEF Fault, NoSurprise
  <1>5. QED BY <1>1, <1>3, <1>4, CloseEndStep

-----------------------------------------------------------------------------
(***************************************************************************)
(* Every step                                                              *)
(***************************************************************************)

LEMMA HandleCommandStep ==
    ASSUME PrInv, NEW e, NEW m, Receives(e, m), m.type = "C", HandleCommand(e, m)
    PROVE  PrInv'
  <1>1. RoutedOne(e, m, proxied) /\ e \in Ends
    BY Received
  <1>2. CASE Reject(e, m)
    BY <1>2, AnswerStep DEF Reject
  <1>3. CASE IsProxy(e) /\ m.cmd \notin Redirects /\ Forward(e, m)
    BY <1>3, ForwardStep
  <1>4. CASE state[e] = "Connected" /\ IsProxy(e) /\ m.cmd \in Redirects /\ RelayRedirect(m)
    <2>1. e = "host" /\ proxied
      BY <1>1, <1>4 DEF RoutedOne, IsProxy, Tokens, Lower
    <2>2. QED BY <1>4, <2>1, RelayRedirectStep
  <1>5. CASE state[e] = "Connected" /\ ~IsProxy(e) /\ m.cmd \in Redirects /\ CommandRedirect(e, m)
    <2>1. CASE OnlyNet(Put(Got(e), e, Reply(m, "R", FALSE)))
      BY <2>1, AnswerStep
    <2>2. CASE /\ state' = [state EXCEPT ![e] = "RedirectReceived"]
               /\ connecting' = [connecting EXCEPT ![e] = <<m>>]
               /\ net' = Got(e)
               /\ UNCHANGED <<services, tokenid, rhs, failed, proxied, serving, broken, issued,
                              calls, faults>>
      BY <1>5, <2>2, RedirectStep
    <2>3. QED BY <1>5, <2>1, <2>2 DEF CommandRedirect
  <1>6. CASE m.cmd \notin Redirects /\ Serve(e, m)
    BY <1>6, ServeStep
  <1>7. QED BY <1>2, <1>3, <1>4, <1>5, <1>6 DEF HandleCommand

\* A reply finds its handler, or is for the other end of the proxy.
LEMMA ReplyHandled ==
    ASSUME PrInv, NEW e, NEW m, Receives(e, m), m.type \in {"R", "P", "N"},
           {r \in rhs[e] : m.hops = 0 /\ r.n = m.n} = {}
    PROVE  IsProxy(e) /\ m.hops > 0
  <1>1. /\ e \in Ends /\ net \in Queues /\ Took(net, Got(e), e) /\ m = Head(net[e])
        /\ m \in Msgs /\ RoutedOne(e, m, proxied) /\ e \notin Shut
        /\ TokensOK(net, HeldTokens, rhs, Shut, proxied)
    BY Received
  <1>2. m.hops \in {0, 1}
    BY <1>1, MsgType
  <1>3. CASE m.hops = 1
    BY <1>1, <1>3 DEF RoutedOne, IsProxy
  <1>4. CASE m.hops = 0
    <2>1. Owner(e, m) = e
      BY <1>4 DEF Owner
    <2>2. HasHandler(rhs, e, m)
      <3>1. CASE m.type = "P"
        BY <1>1, <2>1, <3>1, TakeProgress
      <3>2. CASE m.type \in {"R", "N"}
        <4>1. Fin(m) BY <3>2 DEF Fin, Finals
        <4>2. QED BY <1>1, <2>1, <4>1, TakeFinal
      <3>3. QED BY <3>1, <3>2
    <2>3. QED BY <1>4, <2>2 DEF HasHandler
  <1>5. QED BY <1>2, <1>3, <1>4

\* Which handlers the answers to redirects have.
LEMMA RedirectEnds ==
    ASSUME PrInv, NEW e \in Ends, NEW r \in rhs[e]
    PROVE  /\ r.kind = "relay" => e = "target"
           /\ r.kind = "app" /\ r.cmd \in Redirects => e = "client"
           /\ r.kind \in {"app", "relay", "dead"} /\ r.cmd \in Cmds
  <1>1. HandlersAt(e, rhs[e]) /\ r \in Handlers
    BY DEF PrInv, HandlersOK, PrTypeOK
  <1>2. QED BY <1>1, ProtocolAssumption DEF HandlersAt, Handlers

LEMMA HandleReplyStep ==
    ASSUME PrInv, NEW e, NEW m, Receives(e, m), m.type \in {"R", "P", "N"}, HandleReply(e, m)
    PROVE  PrInv'
  <1>f. PICK found : found = {r \in rhs[e] : m.hops = 0 /\ r.n = m.n} OBVIOUS
  <1>1. \/ /\ found = {} /\ IsProxy(e) /\ m.hops > 0
           /\ OnlyNet(Put(Got(e), Other(e), [m EXCEPT !.hops = @ - 1]))
        \/ found = {} /\ ~(IsProxy(e) /\ m.hops > 0)
        \/ m.type = "P" /\ OnlyNet(Got(e))
        \/ m.type # "P" /\ \E r \in found : Deliver(e, r, m)
    BY <1>f DEF HandleReply
  <1>2. ~(found = {} /\ ~(IsProxy(e) /\ m.hops > 0))
    BY <1>f, ReplyHandled
  <1>3. CASE IsProxy(e) /\ m.hops > 0 /\ OnlyNet(Put(Got(e), Other(e), [m EXCEPT !.hops = @ - 1]))
    BY <1>3, PassReplyStep
  <1>4. CASE m.type = "P" /\ OnlyNet(Got(e))
    BY <1>4, ProgressStep
  <1>5. CASE m.type # "P" /\ \E r \in found : Deliver(e, r, m)
    <2>1. PICK r \in rhs[e] : m.hops = 0 /\ r.n = m.n /\ Deliver(e, r, m)
      BY <1>5, <1>f
    <2>2. m.type \in {"R", "N"} /\ e \in Ends
      BY <1>5 DEF Receives
    <2>3. CASE r.kind = "relay" /\ RelayDone(r, m)
      <3>1. e = "target" BY <2>2, <2>3, RedirectEnds
      <3>2. QED BY <2>1, <2>2, <2>3, <3>1, RelayDoneStep
    <2>4. CASE r.kind = "app" /\ r.cmd \in Redirects /\ ClientRedirectDone(r, m)
      <3>1. e = "client" BY <2>2, <2>4, RedirectEnds
      <3>2. QED BY <2>1, <2>2, <2>4, <3>1, ClientRedirectDoneStep
    <2>5. CASE /\ r.kind = "dead" \/ (r.kind = "app" /\ r.cmd \notin Redirects)
               /\ rhs' = [rhs EXCEPT ![e] = @ \ {r}]
               /\ calls' = IF r.kind = "dead" THEN calls
                           ELSE Call({r.cmd}, IF m.cmd # r.cmd THEN "wrong"
                                              ELSE IF m.type = "N" THEN "rejected" ELSE "reply")
               /\ net' = Got(e)
               /\ UNCHANGED <<state, services, tokenid, issued>>
               /\ ReplyKeeps
      BY <2>1, <2>2, <2>5, DeliverStep
    <2>6. QED BY <2>1, <2>3, <2>4, <2>5 DEF Deliver
  <1>6. QED BY <1>1, <1>2, <1>3, <1>4, <1>5

LEMMA ReceiveStep ==
    ASSUME PrInv, NEW e \in Ends, Receive(e)
    PROVE  PrInv'
  <1>m. PICK m : m = Head(net[e]) OBVIOUS
  <1>1. Receives(e, m)
    BY <1>m DEF Receive, Receives
  <1>2. \/ m.type = "C" /\ HandleCommand(e, m)
        \/ m.type \in {"R", "P", "N"} /\ HandleReply(e, m)
        \/ m.type = "Hello" /\ state[e] = "HelloSent" /\ TakeHello(e)
        \/ m.type = "Hello" /\ state[e] # "HelloSent" /\ StrayHello(e)
        \/ m.type = "junk" /\ Fault(e, "junk")
    BY <1>m DEF Receive
  <1>3. CASE m.type = "C" /\ HandleCommand(e, m)
    BY <1>1, <1>3, HandleCommandStep
  <1>4. CASE m.type \in {"R", "P", "N"} /\ HandleReply(e, m)
    BY <1>1, <1>4, HandleReplyStep
  <1>5. CASE m.type = "Hello" /\ TakeHello(e)
    BY <1>1, <1>5, TakeHelloStep
  <1>6. CASE m.type = "Hello" /\ state[e] # "HelloSent"
    BY <1>1, <1>6, HelloExpected
  <1>7. CASE m.type = "junk" /\ Fault(e, "junk")
    BY <1>1, <1>7, JunkStep
  <1>8. QED BY <1>2, <1>3, <1>4, <1>5, <1>6, <1>7

LEMMA PrNextStep ==
    ASSUME PrInv, PrNext
    PROVE  PrInv'
  <1>1. ASSUME NEW c \in Cmds, SendCommand(c) \/ SendRedirect(c) \/ CommandFailed(c) PROVE PrInv'
    BY <1>1, SendCommandStep, SendRedirectStep, CommandFailedStep
  <1>2. ASSUME NEW e \in Ends, \/ Start(e) \/ Receive(e) \/ EndOfStream(e) \/ Progress(e) \/ Answer(e)
                               \/ ConnectFailed(e) \/ ConnectSucceeded(e) \/ Close(e)
        PROVE  PrInv'
    BY <1>2, StartStep, ReceiveStep, CloseStep, ProgressSentStep, AnswerSentStep,
       ConnectFailedStep, ConnectSucceededStep
  <1>3. CASE HopConnected
    BY <1>3, HopConnectedStep
  <1>4. ASSUME NEW l \in Links, LoseLink(l) PROVE PrInv'
    BY <1>4, LoseLinkStep
  <1>5. QED BY <1>1, <1>2, <1>3, <1>4 DEF PrNext

LEMMA PrSame ==
    ASSUME PrInv, UNCHANGED vars
    PROVE  PrInv'
  <1>1. UNCHANGED <<state, services, tokenid, rhs, failed, proxied, connecting, serving, net,
                    broken, issued, calls, faults>>
    BY DEF vars
  <1>2. PrTypeOK' /\ NoSurprise' /\ ProxyInv'
    BY <1>1 DEF PrInv, PrTypeOK, NoSurprise, ProxyInv, ProxyPair
  <1>3. Shut' = Shut
    BY <1>1 DEF Shut
  <1>4. TokenInv'
    BY <1>1, <1>3 DEF PrInv, TokenInv, HeldTokens
  <1>5. HandlersOK(rhs)' /\ RedirectStates(rhs, state)'
        /\ NetFor(net, state, broken, proxied)' /\ CallsOK(rhs, failed, issued, calls)'
    BY <1>1 DEF PrInv, HandlersOK, RedirectStates
  <1>6. QED BY <1>2, <1>4, <1>5 DEF PrInv

LEMMA PrInitInv ==
    ASSUME PrInit
    PROVE  PrInv
  <1>0. <<>> \in Seq(Msgs) /\ \A S : <<>> \in Seq(S)
    OBVIOUS
  <1>1. PrTypeOK
    <2>1. 1 % TokenMod \in 0..(TokenMod - 1)
      BY ProtocolAssumption
    <2>2. /\ state \in [Ends -> UpperStates \cup LowerStates]
          /\ (\A e \in Upper : state[e] \in UpperStates) /\ (\A e \in Lower : state[e] \in LowerStates)
      BY DEF PrInit, UpperStates, LowerStates, Upper, Lower, Ends
    <2>3. tokenid \in [Ends -> 0..(TokenMod - 1)]
      BY <2>1 DEF PrInit
    <2>4. rhs \in [Ends -> SUBSET Handlers] /\ \A e \in Ends : IsFiniteSet(rhs[e])
      BY FS_EmptySet DEF PrInit
    <2>5. serving \in [Ends -> SUBSET Msgs] /\ failed \subseteq Cmds /\ broken \subseteq Links /\ issued \subseteq Cmds
      BY DEF PrInit
    <2>6. connecting \in [Ends -> {NoInfo} \cup {<<m>> : m \in Msgs}]
      BY DEF PrInit
    <2>7. net \in [Ends -> Seq(Msgs)] /\ calls \in [Cmds -> Seq({"reply", "rejected", "closed"})]
      BY <1>0 DEF PrInit
    <2>8. QED BY <2>2, <2>3, <2>4, <2>5, <2>6, <2>7 DEF PrTypeOK
  <1>2. TokenInv
    <2>1. HeldTokens = {}
      <3>1. \A h : h \notin HeldTokens
        <4>1. ASSUME NEW h, h \in HeldTokens PROVE FALSE
          <5>1. \/ \E e \in Ends : \E m \in serving[e] : h = Held("served", e, ServedFor(e, m), m)
                \/ \E e \in Ends : connecting[e] # NoInfo /\ h = Held("connects", e, Peer[e], connecting[e][1])
                \/ \E r \in rhs["target"] : r.kind = "relay" /\ h = RelayHeld(r)
            BY <4>1, HeldKinds DEF HeldTokens
          <5>2. /\ \A e \in Ends : serving[e] = {} /\ connecting[e] = NoInfo /\ rhs[e] = {}
                /\ "target" \in Ends
            BY DEF PrInit, Ends
          <5>3. QED BY <5>1, <5>2
        <4>2. QED BY <4>1
      <3>2. QED BY <3>1
    <2>2. \A e \in Ends : Len(net[e]) = 0 /\ 1..Len(net[e]) = {}
      BY DEF PrInit
    <2>3. TokensOK(net, {}, rhs, Shut, proxied)
      BY <2>2 DEF TokensOK, Routed, HeldOK, OnePlace, Owned, ProgressFirst
    <2>4. QED BY <2>1, <2>3 DEF TokenInv
  <1>3. HandlersOK(rhs) /\ RedirectStates(rhs, state)
    BY DEF PrInit, HandlersOK, HandlersAt, RedirectStates, Ends
  <1>4. NetFor(net, state, broken, proxied)
    <2>1. HelloLink(<<>>, <<>>, "StartWait", "StartWait", FALSE)
      BY EmptyQuiet, QuietUp, QuietDown DEF HelloLink
    <2>2. /\ net["client"] = <<>> /\ net["host"] = <<>> /\ net["target"] = <<>> /\ net["agent"] = <<>>
          /\ state["client"] = "StartWait" /\ state["host"] = "StartWait"
          /\ state["target"] = "StartWait" /\ state["agent"] = "StartWait"
          /\ ~({"client", "host"} \in broken) /\ ~({"target", "agent"} \in broken)
          /\ \A e \in Ends : net[e] = <<>>
      BY DEF PrInit, Ends
    <2>3. /\ HelloLink(<<>>, <<>>, "StartWait", "StartWait", {"client", "host"} \in broken)
          /\ HelloLink(<<>>, <<>>, "StartWait", "StartWait", {"target", "agent"} \in broken)
      BY <2>1, <2>2, SameCut
    <2>4. net \in [Ends -> Seq(Msgs)]
      BY <1>1 DEF PrTypeOK
    <2>5. QED BY <2>2, <2>3, <2>4 DEF NetFor
  <1>5. ProxyInv
    BY DEF PrInit, ProxyInv, ProxyPair, Ends
  <1>6. CallsOK(rhs, failed, issued, calls) /\ NoSurprise
    BY DEF PrInit, CallsOK, NoSurprise
  <1>7. QED BY <1>1, <1>2, <1>3, <1>4, <1>5, <1>6 DEF PrInv

\* The inductive invariant: one place and one handler for every token, at most one Hello
\* on every link and only where it is expected, at most one redirect at a time, the ends of
\* the proxy in step, and a handler that is not called yet in one place
\* (protocol.c, proxy.c and discovery.c).
THEOREM PrInvCorrect == PrSpec => []PrInv
  <1>1. PrInv /\ [PrNext]_vars => PrInv'
    BY PrNextStep, PrSame
  <1>2. PrInit => PrInv
    BY PrInitInv
  <1>3. QED BY <1>1, <1>2, PTL DEF PrSpec

\* No reply is without its handler, no Hello comes unexpected, and none of the assertions on
\* the states of a proxy fails (handle_protocol_message, redirect_done, proxy_connected,
\* proxy_update), with any commands, token width, closing ends and lost links.
THEOREM NoSurpriseCorrect == PrSpec => []NoSurprise
  <1>1. PrInv => NoSurprise
    BY DEF PrInv
  <1>2. QED BY <1>1, PrInvCorrect, PTL

\* The two ends of a proxy go through redirections and closing together (proxy.c).
THEOREM ProxyPairCorrect == PrSpec => []ProxyPair
  <1>1. PrInv => ProxyPair
    BY DEF PrInv, ProxyInv
  <1>2. QED BY <1>1, PrInvCorrect, PTL

-----------------------------------------------------------------------------
(***************************************************************************)
(* Every handler is called at most once                                    *)
(***************************************************************************)

\* What a step does to the calls.
CallsNext ==
    /\ issued \subseteq issued'
    /\ \A c \in Cmds : \/ calls'[c] = calls[c]
                       \/ calls[c] = <<>> /\ \E a \in AnswerTypes : calls'[c] = <<a>>

LEMMA SameCallsNext ==
    ASSUME UNCHANGED <<issued, calls>>
    PROVE  CallsNext
  BY DEF CallsNext

LEMMA CallNext ==
    ASSUME PrInv, NEW S, \A c \in S : calls[c] = <<>>, NEW a \in AnswerTypes,
           calls' = Call(S, a), issued \subseteq issued'
    PROVE  CallsNext
  <1>1. calls \in [Cmds -> Seq(AnswerTypes)]
    BY DEF PrInv, PrTypeOK, AnswerTypes
  <1>2. /\ \A c \in Cmds \ S : Call(S, a)[c] = calls[c]
        /\ \A c \in Cmds \cap S : Call(S, a)[c] = Append(calls[c], a)
    BY <1>1, CallFacts
  <1>3. Append(<<>>, a) = <<a>>
    OBVIOUS
  <1>4. ASSUME NEW c \in Cmds PROVE calls'[c] = calls[c] \/ (calls[c] = <<>> /\ calls'[c] = <<a>>)
    BY <1>2, <1>3
  <1>5. QED BY <1>4 DEF CallsNext

LEMMA LiveWaits ==
    ASSUME PrInv, NEW e \in Ends, NEW c \in LiveApp(e)
    PROVE  calls[c] = <<>>
  BY DEF PrInv, CallsOK, LiveApp

LEMMA CloseNext ==
    ASSUME PrInv, NEW e \in Ends, ~Closed(e), state[e] # "StartWait", NEW q, CloseEnd(e, q)
    PROVE  CallsNext
  <1>1. PICK S : S = UNION {LiveApp(x) : x \in ClosedWith(e)}
    OBVIOUS
  <1>2. calls' = Call(S, "closed")
    BY <1>1 DEF CloseEnd, CloseCalls
  <1>3. \A c \in S : calls[c] = <<>>
    BY <1>1, ClosedFacts, LiveWaits
  <1>4. issued \subseteq issued'
    BY DEF CloseEnd
  <1>5. QED BY <1>2, <1>3, <1>4, CallNext DEF AnswerTypes

LEMMA ClientDoneNext ==
    ASSUME PrInv, NEW m, Receives("client", m), m.type \in {"R", "N"},
           NEW r \in rhs["client"], r.kind = "app", r.cmd \in Redirects, ClientRedirectDone(r, m)
    PROVE  CallsNext
  <1>1. state["client"] = "RedirectSent"
    BY RedirectFound DEF RedirectHandler, Ends
  <1>2. r.cmd \in Cmds /\ calls[r.cmd] = <<>>
    <2>1. r.cmd \in LiveApp("client") BY DEF LiveApp
    <2>2. QED BY <2>1, LiveWaits, ProtocolAssumption DEF Ends
  <1>3. CASE ~(m.type = "R" /\ m.ok)
    <2>1. /\ calls' = Call({r.cmd}, IF m.type = "N" THEN "rejected" ELSE "reply")
          /\ UNCHANGED issued
      BY <1>1, <1>3 DEF ClientRedirectDone
    <2>2. QED BY <1>2, <2>1, CallNext DEF AnswerTypes
  <1>4. CASE m.type = "R" /\ m.ok
    <2>0. \E more \in {{}} \cup {{c} : c \in {x \in Resent \ issued :
                                                   Origin[x] = "client" /\ LiveApp("client") \ {r.cmd} # {}}},
                visited \in BOOLEAN :
               /\ more # {} => TokenLeft("client")
               /\ more = {} => ~visited
               /\ issued' = issued \cup more
               /\ rhs' = [rhs EXCEPT !["client"] =
                            Detach(rhs["client"] \ {r}) \cup
                            {Handler("client", c, IF visited THEN "dead" ELSE "app", 0) : c \in more}]
               /\ tokenid' = [tokenid EXCEPT !["client"] = IF more = {} THEN @
                                                    ELSE (NewToken("client") + 1) % TokenMod]
               /\ calls' = [c \in Cmds |->
                              IF c = r.cmd THEN Append(calls[c], "reply")
                              ELSE IF c \in LiveApp("client") \ {r.cmd} \/ (visited /\ c \in more)
                                     THEN Append(calls[c], "closed") ELSE calls[c]]
               /\ net' = IF more = {} THEN Got("client")
                         ELSE Put(Got("client"), "client", Command("client", CHOOSE c \in more : TRUE))
      BY <1>1, <1>4, Zenon DEF ClientRedirectDone
    <2>1. PICK more \in {{}} \cup {{c} : c \in {x \in Resent \ issued :
                                                   Origin[x] = "client" /\ LiveApp("client") \ {r.cmd} # {}}},
                visited \in BOOLEAN :
               /\ more # {} => TokenLeft("client")
               /\ more = {} => ~visited
               /\ issued' = issued \cup more
               /\ rhs' = [rhs EXCEPT !["client"] =
                            Detach(rhs["client"] \ {r}) \cup
                            {Handler("client", c, IF visited THEN "dead" ELSE "app", 0) : c \in more}]
               /\ tokenid' = [tokenid EXCEPT !["client"] = IF more = {} THEN @
                                                    ELSE (NewToken("client") + 1) % TokenMod]
               /\ calls' = [c \in Cmds |->
                              IF c = r.cmd THEN Append(calls[c], "reply")
                              ELSE IF c \in LiveApp("client") \ {r.cmd} \/ (visited /\ c \in more)
                                     THEN Append(calls[c], "closed") ELSE calls[c]]
               /\ net' = IF more = {} THEN Got("client")
                         ELSE Put(Got("client"), "client", Command("client", CHOOSE c \in more : TRUE))
      BY <2>0
    <2>2. /\ more \subseteq Cmds \ issued
          /\ issued' = issued \cup more
          /\ calls' = [c \in Cmds |->
                         IF c = r.cmd THEN Append(calls[c], "reply")
                         ELSE IF c \in LiveApp("client") \ {r.cmd} \/ (visited /\ c \in more)
                                THEN Append(calls[c], "closed") ELSE calls[c]]
      <3>1. more = {} \/ \E c \in Resent \ issued : more = {c}
        BY <2>1
      <3>2. more \subseteq Cmds \ issued
        BY <3>1, ProtocolAssumption
      <3>3. QED BY <2>1, <3>2
    <2>3. \A c \in more : calls[c] = <<>>
      BY <2>2 DEF PrInv, CallsOK
    <2>4. \A c \in LiveApp("client") : calls[c] = <<>>
      BY LiveWaits DEF Ends
    <2>5. Append(<<>>, "reply") = <<"reply">> /\ Append(<<>>, "closed") = <<"closed">>
      OBVIOUS
    <2>6. ASSUME NEW c \in Cmds
          PROVE  calls'[c] = calls[c] \/ (calls[c] = <<>> /\ \E a \in AnswerTypes : calls'[c] = <<a>>)
      BY <1>2, <2>2, <2>3, <2>4, <2>5 DEF AnswerTypes
    <2>7. QED BY <2>2, <2>6 DEF CallsNext
  <1>5. QED BY <1>3, <1>4

LEMMA RelayDoneNext ==
    ASSUME PrInv, NEW m, Receives("target", m), m.type \in {"R", "N"},
           NEW r \in rhs["target"], r.kind = "relay", RelayDone(r, m)
    PROVE  CallsNext
  <1>1. r.cmd \in Redirects
    BY DEF PrInv, HandlersOK, HandlersAt, Ends
  <1>2. state["target"] = "RedirectSent"
    BY <1>1, RedirectFound DEF RedirectHandler, Ends
  <1>3. proxied
    BY Received
  <1>4. state["host"] = "Connected"
    BY <1>2, <1>3 DEF PrInv, ProxyInv, ProxyPair
  <1>5. \/ UNCHANGED <<issued, calls>>
        \/ UNCHANGED issued /\ calls' = Call(LiveApp("target") \cup LiveApp("host"), "closed")
    BY <1>2, <1>4 DEF RelayDone
  <1>6. \A c \in LiveApp("target") \cup LiveApp("host") : calls[c] = <<>>
    BY LiveWaits DEF Ends
  <1>7. QED BY <1>5, <1>6, SameCallsNext, CallNext DEF AnswerTypes

LEMMA DeliverNext ==
    ASSUME PrInv, NEW e, NEW m, Receives(e, m), m.type \in {"R", "N"}, m.hops = 0,
           NEW r \in rhs[e], r.n = m.n, Deliver(e, r, m)
    PROVE  CallsNext
  <1>0. e \in Ends
    BY DEF Receives
  <1>1. CASE r.kind = "relay" /\ RelayDone(r, m)
    <2>1. e = "target" BY <1>0, <1>1, RedirectEnds
    <2>2. QED BY <1>1, <2>1, RelayDoneNext
  <1>2. CASE r.kind = "app" /\ r.cmd \in Redirects /\ ClientRedirectDone(r, m)
    <2>1. e = "client" BY <1>0, <1>2, RedirectEnds
    <2>2. QED BY <1>2, <2>1, ClientDoneNext
  <1>3. CASE /\ r.kind = "dead" \/ (r.kind = "app" /\ r.cmd \notin Redirects)
             /\ calls' = IF r.kind = "dead" THEN calls
                         ELSE Call({r.cmd}, IF m.cmd # r.cmd THEN "wrong"
                                            ELSE IF m.type = "N" THEN "rejected" ELSE "reply")
             /\ UNCHANGED issued
    <2>1. CASE r.kind = "dead"
      BY <1>3, <2>1, SameCallsNext
    <2>2. CASE r.kind = "app"
      <3>1. r.cmd = m.cmd
        BY ReplyFound
      <3>2. calls' = Call({r.cmd}, IF m.type = "N" THEN "rejected" ELSE "reply")
        BY <1>3, <2>2, <3>1
      <3>3. calls[r.cmd] = <<>>
        BY <1>0, <2>2, LiveWaits DEF LiveApp
      <3>4. QED BY <1>3, <3>2, <3>3, CallNext DEF AnswerTypes
    <2>3. QED BY <1>3, <2>1, <2>2
  <1>4. QED BY <1>1, <1>2, <1>3 DEF Deliver

LEMMA ReceiveNext ==
    ASSUME PrInv, NEW e \in Ends, Receive(e)
    PROVE  CallsNext
  <1>m. PICK m : m = Head(net[e]) OBVIOUS
  <1>1. Receives(e, m)
    BY <1>m DEF Receive, Receives
  <1>2. \/ m.type = "C" /\ HandleCommand(e, m)
        \/ m.type \in {"R", "P", "N"} /\ HandleReply(e, m)
        \/ m.type = "Hello" /\ TakeHello(e)
        \/ m.type = "Hello" /\ state[e] # "HelloSent" /\ StrayHello(e)
        \/ m.type = "junk" /\ Fault(e, "junk")
    BY <1>m DEF Receive
  <1>3. ~Closed(e) /\ state[e] # "StartWait"
    BY <1>1 DEF Receives
  <1>4. CASE m.type = "C" /\ HandleCommand(e, m)
    <2>1. CASE state[e] = "Connected" /\ IsProxy(e) /\ m.cmd \in Redirects /\ RelayRedirect(m)
      <3>1. e = "host" /\ proxied
        BY <1>1, <1>4, <2>1, Received DEF RoutedOne, IsProxy, Tokens, Lower
      <3>2. state["target"] = "Connected"
        BY <1>1, <1>4, <2>1, <3>1, RelayFree
      <3>3. UNCHANGED <<issued, calls>>
        BY <2>1, <3>2 DEF RelayRedirect
      <3>4. QED BY <3>3, SameCallsNext
    <2>2. CASE ~(state[e] = "Connected" /\ IsProxy(e) /\ m.cmd \in Redirects /\ RelayRedirect(m))
      <3>1. UNCHANGED <<issued, calls>>
        BY <1>4, <2>2 DEF HandleCommand, Reject, Forward, CommandRedirect, Serve, OnlyNet
      <3>2. QED BY <3>1, SameCallsNext
    <2>3. QED BY <2>1, <2>2
  <1>5. CASE m.type \in {"R", "P", "N"} /\ HandleReply(e, m)
    <2>f. PICK found : found = {r \in rhs[e] : m.hops = 0 /\ r.n = m.n} OBVIOUS
    <2>1. \/ UNCHANGED <<issued, calls>>
          \/ found = {} /\ ~(IsProxy(e) /\ m.hops > 0)
          \/ m.type # "P" /\ \E r \in found : Deliver(e, r, m)
      BY <1>5, <2>f DEF HandleReply, OnlyNet
    <2>2. ~(found = {} /\ ~(IsProxy(e) /\ m.hops > 0))
      BY <1>1, <1>5, <2>f, ReplyHandled
    <2>3. CASE m.type # "P" /\ \E r \in found : Deliver(e, r, m)
      <3>1. PICK r \in rhs[e] : m.hops = 0 /\ r.n = m.n /\ Deliver(e, r, m)
        BY <2>3, <2>f
      <3>2. m.type \in {"R", "N"}
        BY <1>5, <2>3
      <3>3. QED BY <1>1, <3>1, <3>2, DeliverNext
    <2>4. QED BY <2>1, <2>2, <2>3, SameCallsNext
  <1>6. CASE m.type = "Hello" /\ TakeHello(e)
    <2>1. ~(e = "target" /\ state["host"] # "HelloReceived")
      <3>1. state[e] = "HelloSent" BY <1>1, <1>6, HelloExpected
      <3>2. e = "target" => proxied BY <1>1, Received
      <3>3. QED BY <3>1, <3>2 DEF PrInv, ProxyInv, ProxyPair
    <2>2. UNCHANGED <<issued, calls>>
      BY <1>6, <2>1 DEF TakeHello
    <2>3. QED BY <2>2, SameCallsNext
  <1>7. CASE m.type = "Hello" /\ state[e] # "HelloSent" /\ StrayHello(e)
    BY <1>1, <1>7, HelloExpected
  <1>8. CASE m.type = "junk" /\ Fault(e, "junk")
    <2>1. CloseEnd(e, Got(e))
      BY <1>8 DEF Fault
    <2>2. QED BY <1>3, <2>1, CloseNext
  <1>9. QED BY <1>2, <1>4, <1>5, <1>6, <1>7, <1>8

LEMMA EveryCall ==
    ASSUME PrInv, PrNext
    PROVE  CallsNext
  <1>1. ASSUME NEW c \in Cmds, SendCommand(c) \/ SendRedirect(c) PROVE CallsNext
    BY <1>1 DEF SendCommand, SendRedirect, CallsNext
  <1>2. ASSUME NEW c \in Cmds, CommandFailed(c) PROVE CallsNext
    <2>1. calls' = Call({c}, "closed") /\ UNCHANGED issued /\ c \in failed
      BY <1>2 DEF CommandFailed
    <2>2. calls[c] = <<>>
      BY <2>1 DEF PrInv, CallsOK
    <2>3. QED BY <2>1, <2>2, CallNext DEF AnswerTypes
  <1>3. ASSUME NEW e \in Ends, Start(e) \/ Progress(e) \/ Answer(e) \/ ConnectFailed(e) PROVE CallsNext
    BY <1>3, SameCallsNext DEF Start, Progress, Answer, ConnectFailed
  <1>4. ASSUME NEW e \in Ends, Receive(e) PROVE CallsNext
    BY <1>4, ReceiveNext
  <1>5. ASSUME NEW e \in Ends, Close(e) \/ EndOfStream(e) PROVE CallsNext
    <2>1. ~Closed(e) /\ state[e] # "StartWait" /\ CloseEnd(e, net)
      BY <1>5 DEF Close, EndOfStream, Closed
    <2>2. QED BY <2>1, CloseNext
  <1>6. ASSUME NEW e \in Ends, ConnectSucceeded(e) PROVE CallsNext
    <2>1. \/ UNCHANGED <<issued, calls>>
          \/ UNCHANGED issued /\ calls' = Call(LiveApp(e), "closed")
      BY <1>6 DEF ConnectSucceeded
    <2>2. \A c \in LiveApp(e) : calls[c] = <<>>
      BY LiveWaits
    <2>3. QED BY <2>1, <2>2, SameCallsNext, CallNext DEF AnswerTypes
  <1>7. CASE HopConnected
    BY <1>7, SameCallsNext DEF HopConnected
  <1>8. ASSUME NEW l \in Links, LoseLink(l) PROVE CallsNext
    BY <1>8, SameCallsNext DEF LoseLink
  <1>9. QED BY <1>1, <1>2, <1>3, <1>4, <1>5, <1>6, <1>7, <1>8 DEF PrNext

\* The protocol implements what Commands promises a sender, except that the answer comes
\* at last: the handler of a command is called at most once, never before the command is
\* sent, and with the reply to that command, a rejection or an error, whatever is redirected,
\* closed or lost meanwhile (send_command_failed, handle_protocol_message, channel_closed).
THEOREM AnsweredAtMostOnce == PrSpec => Sender!AbsSpec
  <1>1. PrInit => Sender!AbsInit
    BY DEF PrInit, Sender!AbsInit
  <1>2. PrInv /\ PrInv' /\ [PrNext]_vars => [Sender!AbsNext]_<<issued, calls>>
    <2>1. ASSUME PrInv, PrInv', PrNext PROVE Sender!AbsNext
      <3>1. CallsNext
        BY <2>1, EveryCall
      <3>2. calls' = [c \in Cmds |-> calls'[c]]
        BY <2>1 DEF PrInv, PrTypeOK
      <3>3. \A c \in Cmds : c \notin issued' => calls'[c] = <<>>
        BY <2>1 DEF PrInv, CallsOK
      <3>4. ASSUME NEW c \in Cmds, calls'[c] # calls[c] PROVE Sender!Concludes(c)
        <4>1. calls[c] = <<>> /\ \E a \in AnswerTypes : calls'[c] = <<a>>
          BY <3>1, <3>4 DEF CallsNext
        <4>2. c \in issued'
          BY <3>3, <3>4, <4>1
        <4>3. QED BY <4>1, <4>2 DEF Sender!Concludes, Sender!Answers, AnswerTypes
      <3>5. QED BY <3>1, <3>2, <3>4 DEF CallsNext, Sender!AbsNext
    <2>2. UNCHANGED vars => UNCHANGED <<issued, calls>>
      BY DEF vars
    <2>3. QED BY <2>1, <2>2
  <1>3. QED BY <1>1, <1>2, PrInvCorrect, PTL DEF PrSpec, Sender!AbsSpec

=============================================================================

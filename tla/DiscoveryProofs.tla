-------------------------- MODULE DiscoveryProofs --------------------------
(***************************************************************************)
(* Proofs about Discovery, for any agents, hosts, ports and faults:        *)
(* passing slave addresses on never makes one look more recent than its    *)
(* last packet.                                                            *)
(*                                                                         *)
(* The property speaks of the tables of the agents.  It is inductive       *)
(* together with what is on its way to them: the ages in a packet are no   *)
(* less than the true ones, a packet from a slave address means that this  *)
(* address was heard of in this period, and nothing is on its way to an    *)
(* agent that is down, so that no packet outlives its period.              *)
(***************************************************************************)
EXTENDS Discovery, TLAPS

Slave == [age : Nat, req : Nat, known : BOOLEAN]
Peer  == [left : Nat, val : Nat, listed : BOOLEAN]

State == [addr : Addrs, peers : [Agents -> Peer], slaves : [SlaveAddrs -> Slave],
          req : Nat, master : Nat, due : SUBSET {"refresh", "stale"},
          timer : BOOLEAN, old : BOOLEAN]

\* The contents of a packet: no slave in it is said to be younger than sil says.
DataOK(type, data, sil) ==
    /\ type \in {"REQ_INFO", "ACK_INFO", "REQ_SLAVES", "ACK_SLAVES", "PEERS_REMOVED"}
    /\ type = "ACK_INFO" => data \in Agents \X Nat
    /\ type = "ACK_SLAVES" =>
         \A k \in data : k \in SlaveAddrs \X Nat /\ k[2] >= sil[k[1]]

SlavesOK(s, sil) ==
    \A x \in SlaveAddrs : s.slaves[x].known => s.slaves[x].age >= sil[x]

OutOK(out, sil) == \A n \in out : DataOK(n.type, n.data, sil)

ResultOK(r, sil) == r.s \in State /\ SlavesOK(r.s, sil) /\ OutOK(r.out, sil)

MessageOK(m, sil) ==
    /\ m.from \in Addrs
    /\ m.from \in SlaveAddrs => sil[m.from] = 0
    /\ DataOK(m.type, m.data, sil)

\* A slave that sends has been heard of.
HeardOf(x, out, sil) == (x \in SlaveAddrs /\ out # {}) => sil[x] = 0

BoxOK(box, sil) == \A a \in Agents : \A m \in box[a] : MessageOK(m, sil)

\* A table without slaves.
Blank(s) == \A x \in SlaveAddrs : ~s.slaves[x].known

Silence == [SlaveAddrs -> 0 .. LongAgo]

DiInv == /\ up \subseteq Agents
         /\ st \in [Agents -> State]
         /\ val \in [Agents -> Nat]
         /\ silent \in Silence
         /\ inbox = [a \in Agents |-> inbox[a]]
         /\ \A a \in Agents : SlavesOK(st[a], silent)
         /\ BoxOK(inbox, silent)
         /\ \A a \in Agents \ up : inbox[a] = {} /\ Blank(st[a])

-----------------------------------------------------------------------------
(* What is sent *)

LEMMA Periods == Retention = 4 /\ LongAgo = 5
BY DEF Retention, LongAgo, PEER_DATA_RETENTION_PERIOD, PEER_DATA_REFRESH_PERIOD

LEMMA PacketsOK ==
    ASSUME NEW dests, NEW type, NEW data, NEW sil, DataOK(type, data, sil)
    PROVE  OutOK(Packets(dests, type, data), sil)
BY DEF Packets, OutOK

LEMMA EmptyOut ==
    ASSUME NEW sil
    PROVE  OutOK({}, sil)
BY DEF OutOK

LEMMA UnionOut ==
    ASSUME NEW sil, NEW p, NEW q, OutOK(p, sil), OutOK(q, sil)
    PROVE  OutOK(p \cup q, sil)
BY DEF OutOK

LEMMA PeerInfoOK ==
    ASSUME NEW a \in Agents, NEW s \in State, NEW p \in Agents, NEW dests, NEW sil
    PROVE  OutOK(udp_send_peer_info(a, s, p, dests), sil)
<1>1. s.peers[p].val \in Nat
  BY DEF State, Peer
<1>2. DataOK("ACK_INFO", <<p, s.peers[p].val>>, sil)
  BY <1>1 DEF DataOK
<1>3. OutOK(Packets(dests, "ACK_INFO", <<p, s.peers[p].val>>), sil)
  BY <1>2, PacketsOK
<1> QED BY <1>3, EmptyOut DEF udp_send_peer_info

LEMMA AckInfoOK ==
    ASSUME NEW a \in Agents, NEW s \in State, NEW dests, NEW sil
    PROVE  OutOK(udp_send_ack_info(a, s, dests), sil)
<1>1. \A p \in Agents : OutOK(udp_send_peer_info(a, s, p, dests), sil)
  BY PeerInfoOK
<1> QED BY <1>1 DEF udp_send_ack_info, OutOK

LEMMA SlavesAllOK ==
    ASSUME NEW s \in State, NEW x, NEW sil, SlavesOK(s, sil)
    PROVE  OutOK(udp_send_ack_slaves_all(s, x), sil)
<1> DEFINE K == {<<y, s.slaves[y].age>> : y \in
                    {z \in Slaves(s) \ {x} : s.slaves[z].age < Retention}}
<1>1. \A k \in K : k \in SlaveAddrs \X Nat /\ k[2] >= sil[k[1]]
  <2> TAKE k \in K
  <2>1. PICK y \in Slaves(s) : k = <<y, s.slaves[y].age>>
    OBVIOUS
  <2>2. y \in SlaveAddrs /\ s.slaves[y].known
    BY DEF Slaves
  <2>3. s.slaves[y].age \in Nat
    BY <2>2 DEF State, Slave
  <2>4. s.slaves[y].age >= sil[y]
    BY <2>2 DEF SlavesOK
  <2> HIDE DEF K
  <2> QED BY <2>1, <2>2, <2>3, <2>4
<1> HIDE DEF K
<1>2. DataOK("ACK_SLAVES", K, sil)
  BY <1>1 DEF DataOK
<1>3. OutOK(Packets({x}, "ACK_SLAVES", K), sil)
  BY <1>2, PacketsOK
<1> QED BY <1>3, EmptyOut DEF udp_send_ack_slaves_all, K

LEMMA SlavesOneOK ==
    ASSUME NEW s \in State, NEW x \in SlaveAddrs, NEW sil, s.slaves[x].age >= sil[x]
    PROVE  OutOK(udp_send_ack_slaves_one(s, x), sil)
<1>1. s.slaves[x].age \in Nat
  BY DEF State, Slave
<1>2. DataOK("ACK_SLAVES", {<<x, s.slaves[x].age>>}, sil)
  BY <1>1 DEF DataOK
<1>3. \A dests : OutOK(Packets(dests, "ACK_SLAVES", {<<x, s.slaves[x].age>>}), sil)
  BY <1>2, PacketsOK
<1> QED BY <1>3, EmptyOut DEF udp_send_ack_slaves_one

LEMMA SendAllOK ==
    ASSUME NEW a \in Agents, NEW s \in State, NEW dests, NEW asked, NEW sil,
           SlavesOK(s, sil)
    PROVE  OutOK(udp_send_all(a, s, dests, asked), sil)
<1>1. OutOK(udp_send_ack_info(a, s, dests), sil)
  BY AckInfoOK
<1>2. \A x : OutOK(udp_send_ack_slaves_all(s, x), sil)
  BY SlavesAllOK
<1>3. OutOK(UNION {udp_send_ack_slaves_all(s, x) : x \in asked}, sil)
  BY <1>2 DEF OutOK
<1>4. DataOK("ACK_SLAVES", {}, sil)
  BY DEF DataOK
<1>5. OutOK(Packets(dests, "ACK_SLAVES", {}), sil)
  BY <1>4, PacketsOK
<1> QED BY <1>1, <1>3, <1>5, UnionOut DEF udp_send_all

-----------------------------------------------------------------------------
(* What is received *)

\* What may be said of a slave: an age that is not less than the true one.
LEMMA AddSlaveOK ==
    ASSUME NEW a \in Agents, NEW s \in State, NEW out, NEW x \in SlaveAddrs,
           NEW age \in Nat, NEW sil,
           SlavesOK(s, sil), OutOK(out, sil), age >= sil[x], sil \in Silence
    PROVE  /\ ResultOK(add_slave(a, Result(s, out), x, age), sil)
           /\ add_slave(a, Result(s, out), x, age).s.addr = s.addr
<1> DEFINE s1 == [s EXCEPT !.slaves[x] = [age |-> age, req |-> LongAgo, known |-> TRUE]]
           s2 == [s EXCEPT !.slaves[x].age = IF @ > age THEN age ELSE @]
<1>1. s1 \in State /\ s1.addr = s.addr
  BY Periods DEF State, Slave
<1>2. SlavesOK(s1, sil)
  BY DEF SlavesOK, State
<1>3. s2 \in State /\ s2.addr = s.addr
  BY DEF State, Slave
<1>4. SlavesOK(s2, sil)
  BY DEF SlavesOK, State, Slave
<1>5. DataOK("REQ_INFO", {}, sil)
  BY DEF DataOK
<1>6. OutOK(Packets({x}, "REQ_INFO", {}), sil)
  BY <1>5, PacketsOK
<1>7. s1.slaves[x].age >= sil[x]
  BY DEF State
<1> DEFINE o1 == out \cup Packets({x}, "REQ_INFO", {}) \cup udp_send_all(a, s1, {x}, {})
                     \cup udp_send_ack_slaves_one(s1, x)
<1>8. OutOK(o1, sil)
  <2> HIDE DEF s1
  <2>1. OutOK(udp_send_all(a, s1, {x}, {}), sil)
    BY <1>1, <1>2, SendAllOK
  <2>2. OutOK(udp_send_ack_slaves_one(s1, x), sil)
    BY <1>1, <1>7, SlavesOneOK
  <2> QED BY <1>6, <2>1, <2>2, UnionOut
<1>9. add_slave(a, Result(s, out), x, age) =
        IF s.slaves[x].known THEN Result(s2, out) ELSE Result(s1, o1)
  BY DEF add_slave, Result
<1> HIDE DEF s1, s2, o1
<1> QED BY <1>1, <1>2, <1>3, <1>4, <1>8, <1>9 DEF ResultOK, Result

LEMMA PeerServerAddOK ==
    ASSUME NEW a \in Agents, NEW s \in State, NEW p \in Agents, NEW v \in Nat, NEW sil,
           SlavesOK(s, sil)
    PROVE  /\ ResultOK(peer_server_add(a, s, p, v), sil)
           /\ peer_server_add(a, s, p, v).s.addr = s.addr
<1> DEFINE s1 == [s EXCEPT !.peers[p] = [left |-> Retention, val |-> v, listed |-> TRUE],
                           !.timer = TRUE]
           s2 == [s EXCEPT !.peers[p].left = Retention]
           o1 == udp_send_peer_info(a, s1, p, Everyone(s1))
<1>1. s1 \in State /\ s1.addr = s.addr /\ s1.slaves = s.slaves
  BY Periods DEF State, Peer
<1>2. s2 \in State /\ s2.addr = s.addr /\ s2.slaves = s.slaves
  BY Periods DEF State, Peer
<1>3. SlavesOK(s1, sil) /\ SlavesOK(s2, sil)
  BY <1>1, <1>2 DEF SlavesOK
<1>4. OutOK(o1, sil)
  <2> HIDE DEF s1
  <2> QED BY <1>1, PeerInfoOK
<1>5. peer_server_add(a, s, p, v) =
        IF p = a THEN Result(s, {})
        ELSE IF s.peers[p].listed /\ s.peers[p].val = v THEN Result(s2, {})
        ELSE Result(s1, o1)
  BY DEF peer_server_add
<1> HIDE DEF s1, s2, o1
<1> QED BY <1>1, <1>2, <1>3, <1>4, <1>5, EmptyOut DEF ResultOK, Result

LEMMA PeerRemovedOK ==
    ASSUME NEW a \in Agents, NEW s \in State, NEW gone, NEW sil, SlavesOK(s, sil)
    PROVE  /\ udp_receive_peer_removed(a, s, gone) \in State
           /\ SlavesOK(udp_receive_peer_removed(a, s, gone), sil)
           /\ udp_receive_peer_removed(a, s, gone).addr = s.addr
<1> DEFINE ps == [p \in Agents |-> IF p \in gone \ {a} THEN Unlisted ELSE s.peers[p]]
           s1 == [s EXCEPT !.peers = ps]
<1>1. ps \in [Agents -> Peer]
  BY DEF State, Peer, Unlisted
<1> HIDE DEF ps
<1>2. s1 \in State /\ s1.addr = s.addr /\ s1.slaves = s.slaves
  BY <1>1 DEF State
<1>3. SlavesOK(s1, sil)
  BY <1>2 DEF SlavesOK
<1>4. udp_receive_peer_removed(a, s, gone) = s1
  BY DEF udp_receive_peer_removed, ps
<1> HIDE DEF s1
<1> QED BY <1>2, <1>3, <1>4

LEMMA AckSlavesOK ==
    ASSUME NEW a \in Agents, NEW s \in State, NEW known, NEW sil,
           SlavesOK(s, sil), DataOK("ACK_SLAVES", known, sil), sil \in Silence
    PROVE  /\ ResultOK(udp_receive_ack_slaves(a, s, known), sil)
           /\ udp_receive_ack_slaves(a, s, known).s.addr = s.addr
<1> DEFINE Added(k)  == add_slave(a, Result(s, {}), k[1], k[2])
           EntryOf(x) == CHOOSE k \in known : k[1] = x
           sl == [x \in SlaveAddrs |->
                    IF \E k \in known : k[1] = x THEN Added(EntryOf(x)).s.slaves[x]
                    ELSE s.slaves[x]]
           s1 == [s EXCEPT !.slaves = sl]
           o1 == UNION {Added(k).out : k \in known}
<1>1. \A k \in known : ResultOK(Added(k), sil)
  <2> TAKE k \in known
  <2>1. k[1] \in SlaveAddrs /\ k[2] \in Nat /\ k[2] >= sil[k[1]]
    BY DEF DataOK
  <2>2. PICK x, age : x = k[1] /\ age = k[2]
    OBVIOUS
  <2>3. ResultOK(add_slave(a, Result(s, {}), x, age), sil)
    BY <2>1, <2>2, AddSlaveOK, EmptyOut
  <2> QED BY <2>2, <2>3
<1>2. \A x \in SlaveAddrs : (\E k \in known : k[1] = x) => EntryOf(x) \in known
  OBVIOUS
<1> HIDE DEF Added, EntryOf
<1>3. ASSUME NEW x \in SlaveAddrs
      PROVE  sl[x] \in Slave /\ (sl[x].known => sl[x].age >= sil[x])
  <2>1. CASE \E k \in known : k[1] = x
    <3>1. sl[x] = Added(EntryOf(x)).s.slaves[x]
      BY <2>1
    <3>2. ResultOK(Added(EntryOf(x)), sil)
      BY <1>1, <1>2, <2>1
    <3>3. PICK t : t = Added(EntryOf(x)).s
      OBVIOUS
    <3>4. t \in State /\ SlavesOK(t, sil)
      BY <3>2, <3>3 DEF ResultOK
    <3> HIDE DEF sl
    <3> QED BY <3>1, <3>3, <3>4 DEF State, SlavesOK
  <2>2. CASE ~\E k \in known : k[1] = x
    <3>1. sl[x] = s.slaves[x]
      BY <2>2
    <3> HIDE DEF sl
    <3> QED BY <3>1 DEF State, SlavesOK
  <2> QED BY <2>1, <2>2
<1>4. sl \in [SlaveAddrs -> Slave]
  <2>1. sl = [x \in SlaveAddrs |-> sl[x]]
    OBVIOUS
  <2> HIDE DEF sl
  <2> QED BY <1>3, <2>1
<1> HIDE DEF sl
<1>5. s1 \in State /\ s1.addr = s.addr /\ s1.slaves = sl
  BY <1>4 DEF State
<1>6. SlavesOK(s1, sil)
  BY <1>3, <1>5 DEF SlavesOK
<1>7. OutOK(o1, sil)
  BY <1>1 DEF OutOK, ResultOK
<1>8. udp_receive_ack_slaves(a, s, known) = Result(s1, o1)
  BY DEF udp_receive_ack_slaves, Added, EntryOf, sl
<1> HIDE DEF s1, o1
<1> QED BY <1>5, <1>6, <1>7, <1>8 DEF ResultOK, Result

LEMMA ReceiveOK ==
    ASSUME NEW a \in Agents, NEW s \in State, NEW m, NEW sil, SlavesOK(s, sil),
           MessageOK(m, sil), m.type # "PEERS_REMOVED", sil \in Silence
    PROVE  /\ ResultOK(Receive(a, s, m), sil)
           /\ Receive(a, s, m).s.addr = s.addr
<1> DEFINE asked == {x \in {m.from} \cap SlaveAddrs : s.slaves[x].req <= Retention}
<1>0. DataOK(m.type, m.data, sil)
  BY DEF MessageOK
<1>1. CASE m.type = "REQ_INFO"
  <2>1. Receive(a, s, m) = Result(s, udp_send_all(a, s, {m.from}, asked))
    BY <1>1 DEF Receive
  <2> HIDE DEF asked
  <2>2. OutOK(udp_send_all(a, s, {m.from}, asked), sil)
    BY SendAllOK
  <2> QED BY <2>1, <2>2 DEF ResultOK, Result
<1>2. CASE m.type = "ACK_INFO"
  <2>1. Receive(a, s, m) = peer_server_add(a, s, m.data[1], m.data[2])
    BY <1>2 DEF Receive
  <2>2. m.data[1] \in Agents /\ m.data[2] \in Nat
    BY <1>0, <1>2 DEF DataOK
  <2> QED BY <2>1, <2>2, PeerServerAddOK
<1>3. CASE m.type = "REQ_SLAVES"
  <2> DEFINE s1 == IF m.from \in Hosts THEN s ELSE [s EXCEPT !.slaves[m.from].req = 0]
  <2>1. Receive(a, s, m) = Result(s1, udp_send_ack_slaves_all(s1, m.from))
    BY <1>3 DEF Receive
  <2>2. s1 \in State /\ s1.addr = s.addr /\ SlavesOK(s1, sil)
    <3>1. CASE m.from \in Hosts
      BY <3>1
    <3>2. CASE m.from \notin Hosts
      <4>1. m.from \in SlaveAddrs
        BY <3>2 DEF MessageOK, Addrs
      <4> PICK x : x = m.from
        OBVIOUS
      <4>2. s1 = [s EXCEPT !.slaves[x].req = 0]
        BY <3>2
      <4> HIDE DEF s1
      <4>3. s1 \in State /\ s1.addr = s.addr
        BY <4>1, <4>2, ZenonT(40) DEF State, Slave
      <4>4. SlavesOK(s1, sil)
        BY <4>1, <4>2 DEF SlavesOK, State, Slave
      <4> QED BY <4>3, <4>4
    <3> QED BY <3>1, <3>2
  <2> HIDE DEF s1
  <2>3. OutOK(udp_send_ack_slaves_all(s1, m.from), sil)
    BY <2>2, SlavesAllOK
  <2> QED BY <2>1, <2>2, <2>3 DEF ResultOK, Result
<1>4. CASE m.type = "ACK_SLAVES"
  <2>1. Receive(a, s, m) = udp_receive_ack_slaves(a, s, m.data)
    BY <1>4 DEF Receive
  <2>2. DataOK("ACK_SLAVES", m.data, sil)
    BY <1>0, <1>4
  <2> QED BY <2>1, <2>2, AckSlavesOK
<1> QED BY <1>0, <1>1, <1>2, <1>3, <1>4 DEF DataOK

\* The whole of udp_server_recv: whatever arrives, what the agent then believes
\* and says of other slaves is not younger than the truth.
LEMMA ServerRecvOK ==
    ASSUME NEW a \in Agents, NEW s \in State, NEW m, NEW sil, SlavesOK(s, sil),
           MessageOK(m, sil), sil \in Silence
    PROVE  /\ ResultOK(udp_server_recv(a, s, m), sil)
           /\ udp_server_recv(a, s, m).s.addr = s.addr
<1> DEFINE r1 == IF m.from \in Hosts THEN Result(s, {})
                 ELSE add_slave(a, Result(s, {}), m.from, 0)
           r2 == Receive(a, r1.s, m)
           ask == Seconds(r2.s.req) >= ReqDelay(a, m.from)
           s3  == [r2.s EXCEPT !.req = IF ask THEN 0 ELSE @,
                               !.master = IF m.from = HostOf[a] THEN 0 ELSE @]
           o3  == r1.out \cup r2.out \cup
                    IF ask THEN Packets({m.from}, "REQ_SLAVES", {}) ELSE {}
<1>1. udp_server_recv(a, s, m) =
        IF m.from = s.addr THEN Result(s, {})
        ELSE IF m.type = "PEERS_REMOVED" THEN Result(udp_receive_peer_removed(a, s, m.data), {})
        ELSE Result(s3, o3)
  BY DEF udp_server_recv
<1>2. CASE m.from = s.addr
  BY <1>1, <1>2, EmptyOut DEF ResultOK, Result
<1>3. CASE m.from # s.addr /\ m.type = "PEERS_REMOVED"
  <2>1. udp_server_recv(a, s, m) = Result(udp_receive_peer_removed(a, s, m.data), {})
    BY <1>1, <1>3
  <2> QED BY <2>1, PeerRemovedOK, EmptyOut DEF ResultOK, Result
<1>4. CASE m.from # s.addr /\ m.type # "PEERS_REMOVED"
  <2>1. ResultOK(r1, sil) /\ r1.s.addr = s.addr
    <3>1. CASE m.from \in Hosts
      BY <3>1, EmptyOut DEF ResultOK, Result
    <3>2. CASE m.from \notin Hosts
      <4>1. m.from \in SlaveAddrs /\ 0 >= sil[m.from]
        BY <3>2 DEF MessageOK, Addrs
      <4>2. /\ ResultOK(add_slave(a, Result(s, {}), m.from, 0), sil)
            /\ add_slave(a, Result(s, {}), m.from, 0).s.addr = s.addr
        BY <4>1, AddSlaveOK, EmptyOut
      <4> QED BY <3>2, <4>2
    <3> QED BY <3>1, <3>2
  <2> HIDE DEF r1
  <2>2. r1.s \in State /\ SlavesOK(r1.s, sil) /\ OutOK(r1.out, sil)
    BY <2>1 DEF ResultOK
  <2>3. ResultOK(r2, sil) /\ r2.s.addr = s.addr
    BY <1>4, <2>1, <2>2, ReceiveOK
  <2> HIDE DEF r2
  <2>4. r2.s \in State /\ SlavesOK(r2.s, sil) /\ OutOK(r2.out, sil)
    BY <2>3 DEF ResultOK
  <2> HIDE DEF ask
  <2>5. s3 \in State /\ s3.addr = r2.s.addr /\ s3.slaves = r2.s.slaves
    BY <2>4 DEF State
  <2>6. SlavesOK(s3, sil)
    BY <2>4, <2>5 DEF SlavesOK
  <2>7. OutOK(o3, sil)
    <3>1. DataOK("REQ_SLAVES", {}, sil)
      BY DEF DataOK
    <3>2. OutOK(Packets({m.from}, "REQ_SLAVES", {}), sil)
      BY <3>1, PacketsOK
    <3> QED BY <2>2, <2>4, <3>2 DEF OutOK
  <2> HIDE DEF s3, o3
  <2>8. udp_server_recv(a, s, m) = Result(s3, o3)
    BY <1>1, <1>4
  <2> QED BY <2>3, <2>5, <2>6, <2>7, <2>8 DEF ResultOK, Result
<1> QED BY <1>2, <1>3, <1>4

-----------------------------------------------------------------------------
(* Steps *)

\* An address that is heard of more recently leaves what is known of it old enough.
LEMMA Fresher ==
    ASSUME NEW sil \in Silence, NEW sil2 \in Silence,
           \A x \in SlaveAddrs : sil2[x] <= sil[x]
    PROVE  /\ \A s \in State : SlavesOK(s, sil) => SlavesOK(s, sil2)
           /\ \A out : OutOK(out, sil) => OutOK(out, sil2)
           /\ \A m : MessageOK(m, sil) => MessageOK(m, sil2)
<1>1. \A x \in SlaveAddrs : sil[x] \in Nat /\ sil2[x] \in Nat
  BY Periods DEF Silence
<1>2. ASSUME NEW s \in State, SlavesOK(s, sil)
      PROVE  SlavesOK(s, sil2)
  <2>1. \A x \in SlaveAddrs : s.slaves[x].age \in Nat
    BY DEF State, Slave
  <2> QED BY <1>1, <1>2, <2>1 DEF SlavesOK
<1>3. ASSUME NEW type, NEW data, DataOK(type, data, sil)
      PROVE  DataOK(type, data, sil2)
  <2>1. ASSUME type = "ACK_SLAVES", NEW k \in data
        PROVE  k \in SlaveAddrs \X Nat /\ k[2] >= sil2[k[1]]
    <3>1. k \in SlaveAddrs \X Nat /\ k[2] >= sil[k[1]]
      BY <1>3, <2>1 DEF DataOK
    <3>2. k[1] \in SlaveAddrs /\ k[2] \in Nat
      BY <3>1
    <3>3. PICK x, age : x = k[1] /\ age = k[2]
      OBVIOUS
    <3>4. age >= sil2[x]
      BY <1>1, <3>1, <3>2, <3>3
    <3> QED BY <3>1, <3>3, <3>4
  <2> QED BY <1>3, <2>1 DEF DataOK
<1>4. ASSUME NEW m, MessageOK(m, sil)
      PROVE  MessageOK(m, sil2)
  <2>1. m.from \in SlaveAddrs => sil2[m.from] = 0
    BY <1>1, <1>4 DEF MessageOK
  <2> QED BY <1>3, <1>4, <2>1 DEF MessageOK
<1>5. \A out : OutOK(out, sil) => OutOK(out, sil2)
  BY <1>3 DEF OutOK
<1> QED BY <1>2, <1>4, <1>5

\* What an agent sends is on its way to agents that run.
LEMMA SentOK ==
    ASSUME NEW a \in Agents, NEW x \in Addrs, NEW out, NEW box, NEW sil,
           BoxOK(box, sil), OutOK(out, sil), HeardOf(x, out, sil)
    PROVE  /\ BoxOK(Sent(box, a, x, out), sil)
           /\ Sent(box, a, x, out) = [b \in Agents |-> Sent(box, a, x, out)[b]]
<1>1. ASSUME NEW b \in Agents, NEW m \in Sent(box, a, x, out)[b]
      PROVE  MessageOK(m, sil)
  <2>1. CASE m \in box[b]
    BY <2>1 DEF BoxOK
  <2>2. CASE m \notin box[b]
    <3>1. PICK n \in out : m = [from |-> x, type |-> n.type, data |-> n.data]
      BY <1>1, <2>2 DEF Sent
    <3>2. DataOK(n.type, n.data, sil)
      BY <3>1 DEF OutOK
    <3>3. m.from = x /\ m.type = n.type /\ m.data = n.data
      BY <3>1
    <3> QED BY <3>1, <3>2, <3>3 DEF MessageOK, HeardOf
  <2> QED BY <2>1, <2>2
<1>2. BoxOK(Sent(box, a, x, out), sil)
  BY <1>1 DEF BoxOK
<1>3. Sent(box, a, x, out) = [b \in Agents |-> Sent(box, a, x, out)[b]]
  BY DEF Sent
<1> QED BY <1>2, <1>3

LEMMA SentToRunning ==
    ASSUME NEW a, NEW x, NEW out, NEW box, NEW b \in Agents \ up
    PROVE  Sent(box, a, x, out)[b] = box[b]
<1>1. Sent(box, a, x, out)[b] = IF b = a THEN box[b] ELSE box[b] \cup {}
  BY DEF Sent
<1> QED BY <1>1

LEMMA StepSilent ==
    ASSUME silent \in Silence, NEW a, NEW r, NEW box, Step(a, r, box)
    PROVE  silent' \in Silence /\ \A x \in SlaveAddrs : silent'[x] <= silent[x]
BY Periods DEF Step, Silence

\* Agent a takes over r.s and sends r.out.
LEMMA StepOK ==
    ASSUME DiInv, NEW a \in Agents, NEW r, NEW box, Step(a, r, box),
           r.s \in State, SlavesOK(r.s, silent'), OutOK(r.out, silent'),
           BoxOK(box, silent), \A b \in Agents \ up : b # a => box[b] = {},
           a \in up', up' = up \cup {a}, val' = val
    PROVE  DiInv'
<1>1. silent' \in Silence
  BY StepSilent DEF DiInv
<1>2. \A x \in SlaveAddrs : silent'[x] <= silent[x]
  BY StepSilent DEF DiInv
<1>3. /\ \A s \in State : SlavesOK(s, silent) => SlavesOK(s, silent')
      /\ \A m : MessageOK(m, silent) => MessageOK(m, silent')
  BY <1>1, <1>2, Fresher DEF DiInv
<1>4. r.s.addr \in Addrs
  BY DEF State
<1>5. (r.s.addr \in SlaveAddrs /\ r.out # {}) => silent'[r.s.addr] = 0
  BY DEF Step
<1>6. BoxOK(box, silent')
  BY <1>3 DEF BoxOK
<1>7. /\ BoxOK(inbox', silent')
      /\ inbox' = [b \in Agents |-> inbox'[b]]
      /\ \A b \in Agents \ up : inbox'[b] = box[b]
  <2>1. inbox' = Sent(box, a, r.s.addr, r.out)
    BY DEF Step
  <2>2. /\ BoxOK(Sent(box, a, r.s.addr, r.out), silent')
        /\ Sent(box, a, r.s.addr, r.out) = [b \in Agents |-> Sent(box, a, r.s.addr, r.out)[b]]
        /\ \A b \in Agents \ up : Sent(box, a, r.s.addr, r.out)[b] = box[b]
    <3> PICK x, out, sil : x = r.s.addr /\ out = r.out /\ sil = silent'
      OBVIOUS
    <3>1. HeardOf(x, out, sil)
      BY <1>5 DEF HeardOf
    <3>2. x \in Addrs /\ BoxOK(box, sil) /\ OutOK(out, sil)
      BY <1>4, <1>6
    <3>3. BoxOK(Sent(box, a, x, out), sil)
      BY ONLY a \in Agents, <3>1, <3>2, SentOK
    <3>4. Sent(box, a, x, out) = [b \in Agents |-> Sent(box, a, x, out)[b]]
      BY ONLY a \in Agents, <3>1, <3>2, SentOK
    <3>5. \A b \in Agents \ up : Sent(box, a, x, out)[b] = box[b]
      BY SentToRunning
    <3> QED BY <3>3, <3>4, <3>5
  <2> QED BY <2>1, <2>2
<1>8. st' \in [Agents -> State] /\ \A b \in Agents : SlavesOK(st'[b], silent')
  BY <1>3 DEF DiInv, Step
<1>9. \A b \in Agents \ up' : inbox'[b] = {} /\ Blank(st'[b])
  <2>1. \A b \in Agents \ up' : b # a /\ b \notin up
    OBVIOUS
  <2>2. \A b \in Agents \ up' : st'[b] = st[b]
    BY <2>1 DEF Step, DiInv
  <2> QED BY <1>7, <2>1, <2>2 DEF DiInv
<1> QED BY <1>1, <1>7, <1>8, <1>9 DEF DiInv

LEMMA FreshOK ==
    ASSUME val \in [Agents -> Nat], NEW a \in Agents, NEW x \in Addrs, NEW sil
    PROVE  /\ Fresh(a, x) \in State /\ Fresh(a, x).addr = x
           /\ SlavesOK(Fresh(a, x), sil) /\ Blank(Fresh(a, x))
<1>1. val[a] \in Nat
  OBVIOUS
<1>2. Fresh(a, x) \in State /\ Fresh(a, x).addr = x
  BY <1>1, Periods DEF Fresh, State, Peer, Slave, Unlisted, NoSlave
<1>3. \A y \in SlaveAddrs : Fresh(a, x).slaves[y].known = FALSE
  BY DEF Fresh, NoSlave
<1> QED BY <1>2, <1>3 DEF SlavesOK, Blank

LEMMA NewPortOK ==
    ASSUME NEW a \in Agents
    PROVE  NewPort(a) \in SlaveAddrs
<1> DEFINE own == {a} \X Ports
           Free(x) == LongUnused(a, x)
<1>1. \E x \in own : (\E y \in own : Free(y)) => Free(x)
  <2> HIDE DEF Free
  <2>1. PICK p : p \in Ports
    BY PortsAssumption
  <2>2. <<a, p>> \in own
    BY <2>1
  <2> HIDE DEF own
  <2> QED BY <2>2
<1>2. NewPort(a) = CHOOSE x \in own : (\E y \in own : Free(y)) => Free(x)
  BY DEF NewPort
<1> HIDE DEF Free
<1>3. (CHOOSE x \in own : (\E y \in own : Free(y)) => Free(x)) \in own
  <2> HIDE DEF own
  <2> QED BY <1>1
<1> QED BY <1>2, <1>3 DEF SlaveAddrs

LEMMA NewAddrOK ==
    ASSUME NEW a \in Agents
    PROVE  (IF Bound(HostOf[a]) THEN NewPort(a) ELSE HostOf[a]) \in Addrs
BY NewPortOK, HostOfAssumption DEF Addrs

LEMMA OlderOK ==
    ASSUME NEW age \in Nat
    PROVE  /\ Older(age) \in Nat
           /\ age <= LongAgo => Older(age) <= LongAgo
           /\ \A t \in 0 .. LongAgo : age >= t => Older(age) >= Older(t)
BY Periods DEF Older

LEMMA DiInit == Init => DiInv
<1> SUFFICES ASSUME Init PROVE DiInv
  OBVIOUS
<1>1. val \in [Agents -> Nat] /\ up = {} /\ up \subseteq Agents
  BY DEF Init
<1>2. silent \in Silence
  BY Periods DEF Init, Silence
<1>3. inbox = [a \in Agents |-> inbox[a]] /\ \A a \in Agents : inbox[a] = {}
  BY DEF Init
<1>4. BoxOK(inbox, silent)
  BY <1>3 DEF BoxOK
<1>5. ASSUME NEW a \in Agents
      PROVE  st[a] \in State /\ SlavesOK(st[a], silent) /\ Blank(st[a])
  <2>1. <<a, 1>> \in Addrs
    BY PortsAssumption DEF Addrs, SlaveAddrs
  <2>2. st[a] = Fresh(a, <<a, 1>>)
    BY DEF Init
  <2> QED BY <1>1, <2>1, <2>2, FreshOK
<1> QED BY <1>1, <1>2, <1>3, <1>4, <1>5 DEF DiInv, Init

LEMMA DeliverOK ==
    ASSUME DiInv, NEW a \in Agents, Deliver(a)
    PROVE  DiInv'
<1>1. a \in up /\ up' = up /\ val' = val
  BY DEF Deliver
<1>2. PICK m \in inbox[a] : Step(a, udp_server_recv(a, st[a], m), [inbox EXCEPT ![a] = @ \ {m}])
  BY DEF Deliver
<1>3. MessageOK(m, silent) /\ st[a] \in State /\ SlavesOK(st[a], silent) /\ silent \in Silence
  BY DEF DiInv, BoxOK
<1>4. ResultOK(udp_server_recv(a, st[a], m), silent)
  BY <1>3, ServerRecvOK
<1> PICK r, box : r = udp_server_recv(a, st[a], m) /\ box = [inbox EXCEPT ![a] = @ \ {m}]
  OBVIOUS
<1>5. Step(a, r, box)
  BY <1>2
<1>6. silent' \in Silence /\ \A x \in SlaveAddrs : silent'[x] <= silent[x]
  BY <1>3, <1>5, StepSilent
<1>7. r.s \in State /\ SlavesOK(r.s, silent) /\ OutOK(r.out, silent)
  BY <1>4 DEF ResultOK
<1>8. SlavesOK(r.s, silent') /\ OutOK(r.out, silent')
  BY <1>3, <1>6, <1>7, Fresher
<1>9. BoxOK(box, silent)
  BY DEF DiInv, BoxOK
<1>10. \A b \in Agents \ up : b # a => box[b] = {}
  BY DEF DiInv
<1>11. a \in up' /\ up' = up \cup {a}
  BY <1>1
<1> QED BY <1>1, <1>5, <1>7, <1>8, <1>9, <1>10, <1>11, StepOK

LEMMA RefreshOK ==
    ASSUME DiInv, NEW a \in Agents, udp_refresh_timer(a)
    PROVE  DiInv'
<1> DEFINE s1 == [st[a] EXCEPT !.due = @ \ {"refresh"}, !.slaves =
                   [x \in SlaveAddrs |-> IF @[x].age <= Retention THEN @[x] ELSE NoSlave]]
           retry == ~IsMaster(s1) /\ Seconds(s1.master) >= PEER_DATA_RETENTION_PERIOD \div 2
           s2 == IF retry THEN create_server_socket(a, s1) ELSE s1
           r3 == IF IsMaster(s2) THEN Result(s2, {}) ELSE add_slave(a, Result(s2, {}), s2.addr, 0)
           r4 == Result(r3.s, r3.out \cup udp_send_all(a, r3.s, Everyone(r3.s), {}))
           bx == IF retry THEN [inbox EXCEPT ![a] = {}] ELSE inbox
<1>1. a \in up /\ up' = up /\ val' = val /\ Step(a, r4, bx)
  BY Zenon DEF udp_refresh_timer
<1>2. st[a] \in State /\ SlavesOK(st[a], silent) /\ silent \in Silence
  BY DEF DiInv
<1>3. s1 \in State /\ SlavesOK(s1, silent)
  <2> DEFINE sl == [x \in SlaveAddrs |->
                      IF st[a].slaves[x].age <= Retention THEN st[a].slaves[x] ELSE NoSlave]
  <2>1. sl \in [SlaveAddrs -> Slave]
    BY <1>2, Periods DEF State, Slave, NoSlave
  <2>2. \A x \in SlaveAddrs : sl[x].known => sl[x].age >= silent[x]
    BY <1>2 DEF SlavesOK, NoSlave
  <2>3. s1 = [st[a] EXCEPT !.due = @ \ {"refresh"}, !.slaves = sl]
    OBVIOUS
  <2> HIDE DEF sl, s1
  <2>4. s1 \in State
    BY <1>2, <2>1, <2>3 DEF State
  <2>5. s1.slaves = sl
    BY <1>2, <2>3 DEF State
  <2> QED BY <2>2, <2>4, <2>5 DEF SlavesOK
<1> HIDE DEF s1, retry
<1>4. s2 \in State /\ SlavesOK(s2, silent)
  <2> DEFINE x2 == IF Bound(HostOf[a]) THEN NewPort(a) ELSE HostOf[a]
             t  == [s1 EXCEPT !.addr = x2, !.old = TRUE]
  <2>1. x2 \in Addrs
    BY NewAddrOK
  <2>2. create_server_socket(a, s1) = t
    BY DEF create_server_socket
  <2> HIDE DEF x2
  <2>3. t \in State /\ t.slaves = s1.slaves
    BY <1>3, <2>1 DEF State
  <2> HIDE DEF t
  <2>4. SlavesOK(t, silent)
    BY <1>3, <2>3 DEF SlavesOK
  <2> QED BY <1>3, <2>2, <2>3, <2>4
<1> HIDE DEF s2
<1>5. r4.out # {} /\ (r3.s.addr = s2.addr => r4.s.addr = s2.addr)
  <2>1. PICK h : h \in Hosts
    BY HostOfAssumption
  <2> PICK s : s = r3.s
    OBVIOUS
  <2>2. Packets(Everyone(s), "ACK_SLAVES", {}) # {}
    <3>1. h \in Everyone(s)
      BY <2>1 DEF Everyone
    <3>2. [to |-> h, type |-> "ACK_SLAVES", data |-> {}] \in Packets(Everyone(s), "ACK_SLAVES", {})
      BY <3>1 DEF Packets
    <3> QED BY <3>2
  <2>3. udp_send_all(a, s, Everyone(s), {}) # {}
    BY <2>2 DEF udp_send_all
  <2> HIDE DEF r3
  <2> QED BY <2>3 DEF Result
<1>6. silent' \in Silence /\ \A x \in SlaveAddrs : silent'[x] <= silent[x]
  <2> HIDE DEF r4, bx
  <2> QED BY <1>1, <1>2, StepSilent
<1>7. SlavesOK(s2, silent')
  BY <1>2, <1>4, <1>6, Fresher
<1>8. ResultOK(r3, silent') /\ r3.s.addr = s2.addr
  <2>1. CASE IsMaster(s2)
    BY <1>4, <1>7, <2>1, EmptyOut DEF ResultOK, Result
  <2>2. CASE ~IsMaster(s2)
    <3>1. s2.addr \in SlaveAddrs
      BY <1>4, <2>2 DEF State, Addrs, IsMaster
    <3>2. r3.s.addr = s2.addr
      <4>1. r3 = add_slave(a, Result(s2, {}), s2.addr, 0)
        BY <2>2
      <4>2. [s2 EXCEPT !.slaves[s2.addr] =
               [age |-> 0, req |-> LongAgo, known |-> TRUE]].addr = s2.addr
        BY <1>4 DEF State
      <4>3. [s2 EXCEPT !.slaves[s2.addr].age = IF @ > 0 THEN 0 ELSE @].addr = s2.addr
        BY <1>4 DEF State
      <4> QED BY <4>1, <4>2, <4>3 DEF add_slave, Result
    <3>3. silent'[s2.addr] = 0
      BY <1>1, <1>5, <3>1, <3>2 DEF Step
    <3> PICK sil, x : sil = silent' /\ x = s2.addr
      OBVIOUS
    <3>4. ResultOK(add_slave(a, Result(s2, {}), x, 0), sil)
      <4>1. 0 >= sil[x]
        BY <3>3
      <4>2. SlavesOK(s2, sil) /\ OutOK({}, sil) /\ sil \in Silence
        BY <1>6, <1>7, EmptyOut
      <4> QED BY <1>4, <3>1, <4>1, <4>2, AddSlaveOK
    <3> QED BY <2>2, <3>2, <3>4
  <2> QED BY <2>1, <2>2
<1> HIDE DEF r3
<1>9. r3.s \in State /\ SlavesOK(r3.s, silent') /\ OutOK(r3.out, silent')
  BY <1>8 DEF ResultOK
<1>10. r4.s = r3.s /\ OutOK(r4.out, silent')
  <2>1. OutOK(udp_send_all(a, r3.s, Everyone(r3.s), {}), silent')
    <3> PICK s, sil, dests : s = r3.s /\ sil = silent' /\ dests = Everyone(r3.s)
      OBVIOUS
    <3>1. s \in State /\ SlavesOK(s, sil)
      BY <1>9
    <3>2. OutOK(udp_send_all(a, s, dests, {}), sil)
      BY <3>1, SendAllOK
    <3> QED BY <3>2
  <2> QED BY <1>9, <2>1, UnionOut DEF Result
<1> HIDE DEF r4
<1>11. BoxOK(bx, silent) /\ \A b \in Agents \ up : b # a => bx[b] = {}
  BY DEF DiInv, BoxOK
<1> HIDE DEF bx
<1>12. a \in up' /\ up' = up \cup {a}
  BY <1>1
<1> QED BY <1>1, <1>9, <1>10, <1>11, <1>12, StepOK

LEMMA StartOK ==
    ASSUME DiInv, NEW a \in Agents, discovery_start_udp(a)
    PROVE  DiInv'
<1> DEFINE x == IF Bound(HostOf[a]) THEN NewPort(a) ELSE HostOf[a]
           s == Fresh(a, x)
           out == Packets(Hosts, "REQ_INFO", {}) \cup udp_send_all(a, s, Hosts, {})
           r == Result(s, out)
<1>1. up' = up \cup {a} /\ val' = val /\ Step(a, r, inbox)
  BY Zenon DEF discovery_start_udp
<1>2. x \in Addrs
  BY NewAddrOK
<1> HIDE DEF x
<1>3. \A sil : s \in State /\ SlavesOK(s, sil)
  BY <1>2, FreshOK DEF DiInv
<1> HIDE DEF s
<1>4. ASSUME NEW sil
      PROVE  OutOK(out, sil)
  <2>1. DataOK("REQ_INFO", {}, sil)
    BY DEF DataOK
  <2>2. OutOK(Packets(Hosts, "REQ_INFO", {}), sil)
    BY <2>1, PacketsOK
  <2>3. OutOK(udp_send_all(a, s, Hosts, {}), sil)
    BY <1>3, SendAllOK
  <2> QED BY <2>2, <2>3, UnionOut
<1> HIDE DEF out
<1>5. r.s \in State /\ SlavesOK(r.s, silent') /\ OutOK(r.out, silent')
  BY <1>3, <1>4 DEF Result
<1> HIDE DEF r
<1>6. a \in up' /\ BoxOK(inbox, silent) /\ \A b \in Agents \ up : b # a => inbox[b] = {}
  BY <1>1 DEF DiInv
<1> QED BY <1>1, <1>5, <1>6, StepOK

\* What Crash and discovery_stop_udp have in common: the agent is as it was at first.
LEMMA DownOK ==
    ASSUME DiInv, NEW a \in Agents, Down(a), st' = [st EXCEPT ![a] = Fresh(a, <<a, 1>>)],
           silent' \in Silence, \A x \in SlaveAddrs : silent'[x] <= silent[x],
           inbox' = [b \in Agents |-> inbox'[b]], BoxOK(inbox', silent'),
           \A b \in Agents \ up : inbox'[b] = inbox[b], inbox'[a] = {}
    PROVE  DiInv'
<1>1. <<a, 1>> \in Addrs
  BY PortsAssumption DEF Addrs, SlaveAddrs
<1>2. /\ \A sil : Fresh(a, <<a, 1>>) \in State /\ SlavesOK(Fresh(a, <<a, 1>>), sil)
      /\ Blank(Fresh(a, <<a, 1>>))
  BY <1>1, FreshOK DEF DiInv
<1>3. \A s \in State : SlavesOK(s, silent) => SlavesOK(s, silent')
  BY Fresher DEF DiInv
<1>4. st' \in [Agents -> State] /\ \A b \in Agents : SlavesOK(st'[b], silent')
  BY <1>2, <1>3 DEF DiInv
<1>5. up' = up \ {a}
  BY DEF Down
<1>6. val' \in [Agents -> Nat]
  BY DEF Down, DiInv
<1>7. \A b \in Agents \ up' : inbox'[b] = {} /\ Blank(st'[b])
  <2> TAKE b \in Agents \ up'
  <2>1. CASE b = a
    BY <1>2, <2>1 DEF DiInv
  <2>2. CASE b # a
    BY <1>5, <2>2 DEF DiInv
  <2> QED BY <2>1, <2>2
<1> QED BY <1>4, <1>5, <1>6, <1>7 DEF DiInv

LEMMA CrashOK ==
    ASSUME DiInv, NEW a \in Agents, Crash(a)
    PROVE  DiInv'
<1>1. Down(a) /\ st' = [st EXCEPT ![a] = Fresh(a, <<a, 1>>)]
  BY DEF Crash
<1>2. silent' = silent /\ silent \in Silence
  BY DEF Crash, DiInv
<1>3. silent' \in Silence /\ \A x \in SlaveAddrs : silent'[x] <= silent[x]
  BY <1>2, Periods DEF Silence
<1>4. inbox' = [inbox EXCEPT ![a] = {}]
  BY DEF Crash
<1>5. /\ inbox' = [b \in Agents |-> inbox'[b]] /\ inbox'[a] = {}
      /\ \A b \in Agents : b # a => inbox'[b] = inbox[b]
  BY <1>4 DEF DiInv
<1>6. BoxOK(inbox', silent')
  BY <1>2, <1>5 DEF DiInv, BoxOK
<1>7. \A b \in Agents \ up : inbox'[b] = inbox[b]
  BY <1>1, <1>5 DEF Down
<1> QED BY <1>1, <1>3, <1>5, <1>6, <1>7, DownOK

LEMMA StopOK ==
    ASSUME DiInv, NEW a \in Agents, discovery_stop_udp(a)
    PROVE  DiInv'
<1> DEFINE box == [inbox EXCEPT ![a] = {}]
           out == Packets(Everyone(st[a]), "PEERS_REMOVED", {a} \cap Servers)
<1>1. Down(a) /\ st' = [st EXCEPT ![a] = Fresh(a, <<a, 1>>)]
  BY DEF discovery_stop_udp
<1>2. silent' = [x \in SlaveAddrs |-> IF x = st[a].addr THEN 0 ELSE silent[x]]
  BY DEF discovery_stop_udp
<1>3. silent' \in Silence /\ \A x \in SlaveAddrs : silent'[x] <= silent[x]
  BY <1>2, Periods DEF DiInv, Silence
<1>4. \A b \in Agents : box[b] = IF b = a THEN {} ELSE inbox[b]
  BY DEF DiInv
<1>5. inbox' = Sent(box, a, st[a].addr, out)
  BY DEF discovery_stop_udp
<1> HIDE DEF box
<1>6. BoxOK(box, silent')
  <2>1. BoxOK(box, silent)
    BY <1>4 DEF DiInv, BoxOK
  <2>2. \A m : MessageOK(m, silent) => MessageOK(m, silent')
    BY <1>3, Fresher DEF DiInv
  <2> QED BY <2>1, <2>2 DEF BoxOK
<1>7. OutOK(out, silent')
  <2> PICK sil : sil = silent'
    OBVIOUS
  <2>1. DataOK("PEERS_REMOVED", {a} \cap Servers, sil)
    BY DEF DataOK
  <2>2. OutOK(out, sil)
    BY <2>1, PacketsOK
  <2> QED BY <2>2
<1> HIDE DEF out
<1>8. BoxOK(inbox', silent') /\ inbox' = [b \in Agents |-> inbox'[b]]
  <2> PICK x, sil : x = st[a].addr /\ sil = silent'
    OBVIOUS
  <2>1. x \in Addrs
    BY DEF DiInv, State
  <2>2. HeardOf(x, out, sil)
    BY <1>2 DEF HeardOf
  <2>3. BoxOK(box, sil) /\ OutOK(out, sil)
    BY <1>6, <1>7
  <2>4. BoxOK(Sent(box, a, x, out), sil)
    BY ONLY a \in Agents, <2>1, <2>2, <2>3, SentOK
  <2>5. Sent(box, a, x, out) = [b \in Agents |-> Sent(box, a, x, out)[b]]
    BY ONLY a \in Agents, <2>1, <2>2, <2>3, SentOK
  <2>6. inbox' = Sent(box, a, x, out)
    BY <1>5
  <2> QED BY <2>4, <2>5, <2>6
<1>9. inbox'[a] = {}
  BY <1>4, <1>5 DEF Sent
<1>10. \A b \in Agents \ up : inbox'[b] = inbox[b]
  <2>1. a \in up
    BY <1>1 DEF Down
  <2>2. \A b \in Agents \ up : inbox'[b] = box[b]
    BY <1>5, SentToRunning
  <2> QED BY <1>4, <2>1, <2>2
<1> QED BY <1>1, <1>3, <1>8, <1>9, <1>10, DownOK

\* One period passes, for what is known of a slave and for the slave itself.
LEMMA TickOK ==
    ASSUME DiInv, Tick
    PROVE  DiInv'
<1>1. silent' \in Silence /\ \A x \in SlaveAddrs : silent'[x] = Older(silent[x])
  <2>1. \A x \in SlaveAddrs : silent[x] \in Nat /\ silent[x] <= LongAgo
    BY Periods DEF DiInv, Silence
  <2>2. \A x \in SlaveAddrs : Older(silent[x]) \in Nat /\ Older(silent[x]) <= LongAgo
    BY <2>1, OlderOK
  <2>3. \A x \in SlaveAddrs : Older(silent[x]) \in 0 .. LongAgo
    BY <2>2, Periods
  <2>4. silent' = [x \in SlaveAddrs |-> Older(silent[x])]
    BY DEF Tick
  <2> QED BY <2>3, <2>4 DEF Silence
<1>2. \A a \in Agents : inbox[a] = {}
  BY DEF Tick, Quiet, DiInv
<1>3. inbox' = inbox /\ up' = up /\ val' = val
  BY DEF Tick
<1>4. ASSUME NEW a \in Agents
      PROVE  st'[a] \in State /\ SlavesOK(st'[a], silent')
  <2>0. st[a] \in State /\ SlavesOK(st[a], silent)
    BY DEF DiInv
  <2>1. CASE a \in up
    <3> DEFINE ps == [p \in Agents |-> IF p = a THEN st[a].peers[p]
                                       ELSE OlderPeer(st[a].peers[p])]
               sl == [x \in SlaveAddrs |-> OlderSlave(st[a].slaves[x])]
               du == {"refresh"} \cup (IF st[a].timer THEN {"stale"} ELSE {})
               rq == Older(st[a].req)
               ms == Older(st[a].master)
    <3>1. st'[a] = [st[a] EXCEPT !.req = rq, !.master = ms, !.due = du,
                                 !.peers = ps, !.slaves = sl]
      <4>1. st'[a] = Aged(a)
        BY <2>1 DEF Tick
      <4> QED BY <4>1, Zenon DEF Aged
    <3>2. ps \in [Agents -> Peer]
      BY <2>0 DEF State, Peer, OlderPeer
    <3>3. \A x \in SlaveAddrs : st[a].slaves[x] \in Slave
      BY <2>0 DEF State
    <3>4. ASSUME NEW x \in SlaveAddrs
          PROVE  /\ sl[x] \in Slave
                 /\ sl[x].known => sl[x].age >= silent'[x]
      <4>1. sl[x] = OlderSlave(st[a].slaves[x])
        OBVIOUS
      <4> HIDE DEF sl
      <4>2. PICK w \in Slave : w = st[a].slaves[x]
        BY <3>3
      <4>3. w.age \in Nat /\ w.req \in Nat /\ w.known \in BOOLEAN
        BY DEF Slave
      <4>4. Older(w.age) \in Nat /\ Older(w.req) \in Nat
        BY <4>3, OlderOK
      <4>5. sl[x] = [w EXCEPT !.age = Older(w.age), !.req = Older(w.req)]
        BY <4>1, <4>2 DEF OlderSlave
      <4>6. sl[x].age = Older(w.age) /\ (sl[x].known <=> w.known)
        BY <4>5 DEF Slave
      <4>7. sl[x] \in Slave
        BY <4>4, <4>5 DEF Slave
      <4>8. w.known => w.age >= silent[x]
        BY <2>0, <4>2 DEF SlavesOK
      <4>9. silent[x] \in 0 .. LongAgo
        BY DEF DiInv, Silence
      <4>10. w.known => Older(w.age) >= Older(silent[x])
        BY <4>3, <4>8, <4>9, OlderOK
      <4> QED BY <1>1, <4>6, <4>7, <4>10
    <3>5. sl \in [SlaveAddrs -> Slave]
      <4>1. sl = [x \in SlaveAddrs |-> sl[x]]
        OBVIOUS
      <4> HIDE DEF sl
      <4> QED BY <3>4, <4>1
    <3>6. rq \in Nat /\ ms \in Nat
      <4>1. st[a].req \in Nat /\ st[a].master \in Nat
        BY <2>0 DEF State
      <4> QED BY <4>1, OlderOK
    <3>7. du \in SUBSET {"refresh", "stale"}
      OBVIOUS
    <3> HIDE DEF ps, sl, du, rq, ms
    <3>8. st'[a] \in State /\ st'[a].slaves = sl
      BY <2>0, <3>1, <3>2, <3>5, <3>6, <3>7 DEF State
    <3> QED BY <3>4, <3>8 DEF SlavesOK
  <2>2. CASE a \notin up
    <3>1. st'[a] = st[a]
      BY <2>2 DEF Tick
    <3>2. Blank(st[a])
      BY <2>2 DEF DiInv
    <3> QED BY <2>0, <3>1, <3>2 DEF Blank, SlavesOK
  <2> QED BY <2>1, <2>2
<1>5. st' \in [Agents -> State]
  BY <1>4 DEF Tick
<1>6. BoxOK(inbox', silent')
  BY <1>2, <1>3 DEF BoxOK
<1>7. \A a \in Agents \ up : st'[a] = st[a]
  BY DEF Tick
<1> QED BY <1>1, <1>3, <1>4, <1>5, <1>6, <1>7 DEF DiInv

LEMMA RecvFailedOK ==
    ASSUME DiInv, NEW a \in Agents, RecvFailed(a)
    PROVE  DiInv'
<1>1. /\ up' = up /\ inbox' = inbox /\ val' = val /\ silent' = silent /\ a \in up
      /\ st' = [st EXCEPT ![a].old = FALSE]
  BY DEF RecvFailed
<1>2. \A b \in Agents : st'[b] \in State /\ st'[b].slaves = st[b].slaves
  BY <1>1, ZenonT(40) DEF DiInv, State
<1>3. st' \in [Agents -> State]
  BY <1>1, <1>2 DEF DiInv
<1>4. \A b \in Agents : SlavesOK(st'[b], silent') /\ (Blank(st[b]) => Blank(st'[b]))
  BY <1>1, <1>2 DEF DiInv, SlavesOK, Blank
<1> QED BY <1>1, <1>3, <1>4 DEF DiInv

LEMMA StaleOK ==
    ASSUME DiInv, NEW a \in Agents, clear_stale_peers(a)
    PROVE  DiInv'
<1> DEFINE ps == [p \in Agents |-> IF p # a /\ st[a].peers[p].left = 0 THEN Unlisted
                                   ELSE st[a].peers[p]]
           s1 == [st[a] EXCEPT !.due = @ \ {"stale"}, !.peers = ps]
           s2 == [s1 EXCEPT !.timer = \E p \in Agents : s1.peers[p].listed]
<1>1. /\ up' = up /\ inbox' = inbox /\ val' = val /\ silent' = silent
      /\ st' = [st EXCEPT ![a] = s2]
  BY Zenon DEF clear_stale_peers
<1>2. ps \in [Agents -> Peer]
  BY DEF DiInv, State, Peer, Unlisted
<1> HIDE DEF ps
<1>3. s1 \in State /\ s1.slaves = st[a].slaves
  <2>1. st[a] \in State
    BY DEF DiInv
  <2> QED BY <1>2, <2>1 DEF State
<1> HIDE DEF s1
<1>4. s2 \in State /\ s2.slaves = st[a].slaves
  BY <1>3 DEF State
<1> HIDE DEF s2
<1>5. \A b \in Agents : st'[b] \in State /\ st'[b].slaves = st[b].slaves
  BY <1>1, <1>4 DEF DiInv
<1>6. st' \in [Agents -> State]
  BY <1>1, <1>5 DEF DiInv
<1>7. \A b \in Agents : SlavesOK(st'[b], silent') /\ (Blank(st[b]) => Blank(st'[b]))
  BY <1>1, <1>5 DEF DiInv, SlavesOK, Blank
<1> QED BY <1>1, <1>6, <1>7 DEF DiInv

LEMMA LoseOK ==
    ASSUME DiInv, NEW a \in Agents, Lose(a)
    PROVE  DiInv'
<1>1. up' = up /\ st' = st /\ val' = val /\ silent' = silent
  BY DEF Lose
<1>2. PICK m \in inbox[a] : inbox' = [inbox EXCEPT ![a] = @ \ {m}]
  BY DEF Lose
<1>3. inbox' = [b \in Agents |-> inbox'[b]] /\ \A b \in Agents : inbox'[b] \subseteq inbox[b]
  BY <1>2 DEF DiInv
<1>4. BoxOK(inbox', silent')
  BY <1>1, <1>3 DEF DiInv, BoxOK
<1>5. \A b \in Agents \ up : inbox'[b] = {}
  BY <1>3 DEF DiInv
<1> QED BY <1>1, <1>3, <1>4, <1>5 DEF DiInv

LEMMA DiNext == DiInv /\ [Next]_vars => DiInv'
<1> SUFFICES ASSUME DiInv, [Next]_vars PROVE DiInv'
  OBVIOUS
<1>1. CASE Tick
  BY <1>1, TickOK
<1>2. ASSUME NEW a \in Agents, Deliver(a) PROVE DiInv'
  BY <1>2, DeliverOK
<1>3. ASSUME NEW a \in Agents, RecvFailed(a) PROVE DiInv'
  BY <1>3, RecvFailedOK
<1>4. ASSUME NEW a \in Agents, udp_refresh_timer(a) PROVE DiInv'
  BY <1>4, RefreshOK
<1>5. ASSUME NEW a \in Agents, clear_stale_peers(a) PROVE DiInv'
  BY <1>5, StaleOK
<1>6. ASSUME NEW a \in Agents, Lose(a) PROVE DiInv'
  BY <1>6, LoseOK
<1>7. ASSUME NEW a \in Agents, discovery_start_udp(a) PROVE DiInv'
  BY <1>7, StartOK
<1>8. ASSUME NEW a \in Agents, Crash(a) PROVE DiInv'
  BY <1>8, CrashOK
<1>9. ASSUME NEW a \in Agents, discovery_stop_udp(a) PROVE DiInv'
  BY <1>9, StopOK
<1>10. CASE UNCHANGED vars
  BY <1>10 DEF vars, DiInv
<1> QED BY <1>1, <1>2, <1>3, <1>4, <1>5, <1>6, <1>7, <1>8, <1>9, <1>10 DEF Next, Work

(* The theorems *)

\* The tables of the agents and the packets on their way are well formed and say
\* of no slave that it is younger than its last packet; nothing is on its way to an
\* agent that is down.
THEOREM DiInvCorrect == Spec => []DiInv
BY DiInit, DiNext, PTL DEF Spec

\* However often a slave address is passed on between agents, by udp_send_ack_slaves
\* and add_slave, no table makes it look more recent than its last packet.
THEOREM NoRejuvenationCorrect == Spec => []NoRejuvenation
<1>1. DiInv => NoRejuvenation
  BY DEF DiInv, SlavesOK, NoRejuvenation
<1> QED BY <1>1, DiInvCorrect, PTL
=============================================================================

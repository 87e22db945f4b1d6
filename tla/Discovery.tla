----------------------------- MODULE Discovery -----------------------------
(***************************************************************************)
(* Discovery of peers by UDP (agent/tcf/services/discovery_udp.c) and the  *)
(* table of known peers (agent/tcf/framework/peer.c): agents that start,   *)
(* crash and leave, on hosts of one subnet, and exchange datagrams that    *)
(* the network may lose or reorder.                                        *)
(*                                                                         *)
(* The first agent of a host binds the discovery port and is the host's    *)
(* master; the others are slaves on ports of their own.  An address is a   *)
(* host (its discovery port) or a pair of an agent and the number of one   *)
(* of its ports.                                                           *)
(*                                                                         *)
(* Time advances by one PEER_DATA_REFRESH_PERIOD, the period of all the    *)
(* timers.  What the code keeps as a time_t is kept as its age in periods, *)
(* and what is given to a peer as the periods left, so that there is no    *)
(* bound on the clock.  A datagram arrives or is lost within its period.   *)
(***************************************************************************)
EXTENDS Naturals

CONSTANTS Hosts,
          Agents,
          HostOf,      \* the host of each agent
          Servers,     \* agents that have a server to announce
          Rank,        \* bounds the interleavings (see Turn and Calm)
          Ports,       \* the ports of its own an agent may get
          MaxFaults    \* lost datagrams, crashes, departures and restarts

ASSUME HostOfAssumption == HostOf \in [Agents -> Hosts]
ASSUME ServersAssumption == Servers \subseteq Agents
ASSUME RankAssumption == Rank \in [Agents -> Nat]
ASSUME PortsAssumption == 1 \in Ports

PEER_DATA_RETENTION_PERIOD == 60
PEER_DATA_REFRESH_PERIOD   == PEER_DATA_RETENTION_PERIOD \div 4

Seconds(periods) == periods * PEER_DATA_REFRESH_PERIOD

Retention == PEER_DATA_RETENTION_PERIOD \div PEER_DATA_REFRESH_PERIOD
LongAgo   == Retention + 1   \* an age no condition tells from a greater one

SlaveAddrs == Agents \X Ports
Addrs      == Hosts \cup SlaveAddrs

VARIABLES up,      \* the agents that run
          st,      \* the variables of each agent
          inbox,   \* datagrams in the receive buffer of its socket
          val,     \* the properties of each server
          faults,  \* how many there were
          silent   \* periods since a slave address last sent (not in the code)

vars == <<up, st, inbox, val, faults, silent>>

Unlisted == [left |-> 0, val |-> 0, listed |-> FALSE]
NoSlave  == [age |-> LongAgo, req |-> LongAgo, known |-> FALSE]

\* The static variables of peer.c and discovery_udp.c: the address of the socket,
\* peers, slave_info, the ages of last_req_slaves_time and last_master_packet_time,
\* the timers that are due, stale_timer_active, and whether the pending receive is
\* on a socket that was closed (recvreq_generation # udp_server_generation).
Fresh(a, x) ==
    [addr |-> x,
     peers |-> [p \in Agents |-> IF p = a /\ a \in Servers
                                   THEN [left |-> Retention, val |-> val[a], listed |-> TRUE]
                                   ELSE Unlisted],
     slaves |-> [y \in SlaveAddrs |-> NoSlave],
     req |-> LongAgo, master |-> LongAgo,
     due |-> {}, timer |-> a \in Servers, old |-> FALSE]

Init == /\ up = {}
        /\ val = [a \in Agents |-> 1]
        /\ st = [a \in Agents |-> Fresh(a, <<a, 1>>)]
        /\ inbox = [a \in Agents |-> {}]
        /\ faults = 0
        /\ silent = [x \in SlaveAddrs |-> LongAgo]

\* Equal ranks leave every interleaving.  Otherwise an agent acts only when those
\* of lower rank have nothing to do, and comes or goes when all others have not.
Quiet(a) == inbox[a] = {} /\ st[a].due = {} /\ ~st[a].old
Turn(a)  == \A b \in Agents : Rank[b] < Rank[a] => Quiet(b)
Calm(a)  == \A b \in Agents : Rank[b] # Rank[a] => Quiet(b)

Fault == faults < MaxFaults /\ faults' = faults + 1

IsMaster(s) == s.addr \in Hosts

HostAt(x) == IF x \in Hosts THEN x ELSE HostOf[x[1]]

Slaves(s) == {x \in SlaveAddrs : s.slaves[x].known}

-----------------------------------------------------------------------------
(* Sending: each operator is the set of datagrams a function sends *)

Packets(dests, type, data) == {[to |-> x, type |-> type, data |-> data] : x \in dests}

\* send_packet(ifc, NULL): the slaves it knows and the masters.
Everyone(s) == Slaves(s) \cup Hosts

\* Variant: a master announces every peer it has.
AnnouncesAll(a, s, p, dests) ==
    IF s.peers[p].listed /\ (p = a \/ IsMaster(s))
      THEN Packets(dests, "ACK_INFO", <<p, s.peers[p].val>>) ELSE {}

\* Only a master announces the peers of others, and only those of its host.
udp_send_peer_info(a, s, p, dests) ==
    IF s.peers[p].listed /\ (p = a \/ (IsMaster(s) /\ HostOf[p] = HostOf[a]))
      THEN Packets(dests, "ACK_INFO", <<p, s.peers[p].val>>) ELSE {}

udp_send_ack_info(a, s, dests) ==
    UNION {udp_send_peer_info(a, s, p, dests) : p \in Agents}

\* Slaves with a time to live, as address and age.
udp_send_ack_slaves_all(s, x) ==
    LET known == {<<y, s.slaves[y].age>> : y \in
                    {z \in Slaves(s) \ {x} : s.slaves[z].age < Retention}}
    IN  IF known = {} THEN {} ELSE Packets({x}, "ACK_SLAVES", known)

\* A new slave is made known to the slaves that asked lately.
udp_send_ack_slaves_one(s, x) ==
    IF s.slaves[x].age >= Retention THEN {}
    ELSE Packets({y \in Slaves(s) : s.slaves[y].req <= Retention},
                 "ACK_SLAVES", {<<x, s.slaves[x].age>>})

\* An agent with nothing to say sends an empty packet, and so is known.
udp_send_all(a, s, dests, asked) ==
    LET info == udp_send_ack_info(a, s, dests)
                  \cup UNION {udp_send_ack_slaves_all(s, x) : x \in asked}
    IN  IF info = {} THEN Packets(dests, "ACK_SLAVES", {}) ELSE info

\* What becomes of an agent, and what it sends.
Result(s, out) == [s |-> s, out |-> out]

\* Variant: a known slave counts as heard of now, whatever the time stamp.
AlwaysNew(a, r, x, age) ==
    LET s  == r.s
        s1 == [s EXCEPT !.slaves[x] = [age |-> age, req |-> LongAgo, known |-> TRUE]]
    IN  IF s.slaves[x].known THEN Result([s EXCEPT !.slaves[x].age = 0], r.out)
        ELSE Result(s1, r.out \cup Packets({x}, "REQ_INFO", {})
                              \cup udp_send_all(a, s1, {x}, {})
                              \cup udp_send_ack_slaves_one(s1, x))

add_slave(a, r, x, age) ==
    LET s  == r.s
        s1 == [s EXCEPT !.slaves[x] = [age |-> age, req |-> LongAgo, known |-> TRUE]]
    IN  IF s.slaves[x].known
          THEN Result([s EXCEPT !.slaves[x].age = IF @ > age THEN age ELSE @], r.out)
          ELSE Result(s1, r.out \cup Packets({x}, "REQ_INFO", {})
                                \cup udp_send_all(a, s1, {x}, {})
                                \cup udp_send_ack_slaves_one(s1, x))

-----------------------------------------------------------------------------
(* Receiving *)

\* Variant: a peer that is listed is refreshed and never replaced.
NeverReplaced(a, s, p, v) ==
    LET s1 == [s EXCEPT !.peers[p] = [left |-> Retention, val |-> v, listed |-> TRUE],
                        !.timer = TRUE]
    IN  IF p = a THEN Result(s, {})
        ELSE IF s.peers[p].listed THEN Result([s EXCEPT !.peers[p].left = Retention], {})
        ELSE Result(s1, udp_send_peer_info(a, s1, p, Everyone(s1)))

\* peer_server_add for a peer that was discovered, with the listener that tells
\* the others of a new or changed peer; a local entry is never replaced.
peer_server_add(a, s, p, v) ==
    LET s1 == [s EXCEPT !.peers[p] = [left |-> Retention, val |-> v, listed |-> TRUE],
                        !.timer = TRUE]
    IN  IF p = a THEN Result(s, {})
        ELSE IF s.peers[p].listed /\ s.peers[p].val = v
          THEN Result([s EXCEPT !.peers[p].left = Retention], {})
        ELSE Result(s1, udp_send_peer_info(a, s1, p, Everyone(s1)))

udp_receive_peer_removed(a, s, gone) ==
    [s EXCEPT !.peers = [p \in Agents |-> IF p \in gone \ {a} THEN Unlisted ELSE @[p]]]

\* add_slave for every entry of the packet.  An address has one entry, and a slave
\* that is added has not asked for others, so that the entries do not depend on
\* each other.
udp_receive_ack_slaves(a, s, known) ==
    LET Added(k)  == add_slave(a, Result(s, {}), k[1], k[2])
        EntryOf(x) == CHOOSE k \in known : k[1] = x
    IN  Result([s EXCEPT !.slaves = [x \in SlaveAddrs |->
                   IF \E k \in known : k[1] = x THEN Added(EntryOf(x)).s.slaves[x] ELSE @[x]]],
               UNION {Added(k).out : k \in known})

\* The switch of udp_server_recv, for a datagram m.
Receive(a, s, m) ==
    LET asked == {x \in {m.from} \cap SlaveAddrs : s.slaves[x].req <= Retention} IN
    CASE m.type = "REQ_INFO"   -> Result(s, udp_send_all(a, s, {m.from}, asked))
      [] m.type = "ACK_INFO"   -> peer_server_add(a, s, m.data[1], m.data[2])
      [] m.type = "REQ_SLAVES" ->
           LET s1 == IF m.from \in Hosts THEN s ELSE [s EXCEPT !.slaves[m.from].req = 0]
           IN  Result(s1, udp_send_ack_slaves_all(s1, m.from))
      [] m.type = "ACK_SLAVES" -> udp_receive_ack_slaves(a, s, m.data)

\* How often slaves are asked for: less often from a slave, or from another host.
ReqDelay(a, from) ==
    CASE from \notin Hosts -> (PEER_DATA_RETENTION_PERIOD \div 3) * 2
      [] from \in Hosts \ {HostOf[a]} -> PEER_DATA_RETENTION_PERIOD \div 2
      [] from = HostOf[a] -> PEER_DATA_RETENTION_PERIOD \div 3

\* Variant: any master counts as the master of this host.
AnyMaster(a, s, m) ==
    LET r1  == IF m.from \in Hosts THEN Result(s, {}) ELSE add_slave(a, Result(s, {}), m.from, 0)
        r2  == Receive(a, r1.s, m)
        ask == Seconds(r2.s.req) >= ReqDelay(a, m.from)
        s3  == [r2.s EXCEPT !.req = IF ask THEN 0 ELSE @,
                            !.master = IF m.from \in Hosts THEN 0 ELSE @]
    IN  IF m.from = s.addr THEN Result(s, {})
        ELSE IF m.type = "PEERS_REMOVED" THEN Result(udp_receive_peer_removed(a, s, m.data), {})
        ELSE Result(s3, r1.out \cup r2.out \cup
                          IF ask THEN Packets({m.from}, "REQ_SLAVES", {}) ELSE {})

udp_server_recv(a, s, m) ==
    LET r1  == IF m.from \in Hosts THEN Result(s, {}) ELSE add_slave(a, Result(s, {}), m.from, 0)
        r2  == Receive(a, r1.s, m)
        ask == Seconds(r2.s.req) >= ReqDelay(a, m.from)
        s3  == [r2.s EXCEPT !.req = IF ask THEN 0 ELSE @,
                            !.master = IF m.from = HostOf[a] THEN 0 ELSE @]
    IN  IF m.from = s.addr THEN Result(s, {})
        ELSE IF m.type = "PEERS_REMOVED" THEN Result(udp_receive_peer_removed(a, s, m.data), {})
        ELSE Result(s3, r1.out \cup r2.out \cup
                          IF ask THEN Packets({m.from}, "REQ_SLAVES", {}) ELSE {})

\* The datagrams of out go to whoever has the address, except to the sender.
Sent(box, a, x, out) ==
    [b \in Agents |->
        IF b = a THEN box[b]
        ELSE box[b] \cup {[from |-> x, type |-> m.type, data |-> m.data] :
                            m \in {n \in out : b \in up /\ n.to = st[b].addr}}]

\* Agent a takes over the state r.s and sends r.out.
Step(a, r, box) ==
    /\ st' = [st EXCEPT ![a] = r.s]
    /\ inbox' = Sent(box, a, r.s.addr, r.out)
    /\ silent' = [x \in SlaveAddrs |-> IF x = r.s.addr /\ r.out # {} THEN 0 ELSE silent[x]]

Deliver(a) ==
    /\ a \in up /\ ~st[a].old /\ Turn(a)
    /\ UNCHANGED <<up, val, faults>>
    /\ \E m \in inbox[a] :
         Step(a, udp_server_recv(a, st[a], m), [inbox EXCEPT ![a] = @ \ {m}])

\* The receive that was pending on a closed socket fails and a new one starts.
RecvFailed(a) ==
    /\ a \in up /\ st[a].old /\ Turn(a)
    /\ st' = [st EXCEPT ![a].old = FALSE]
    /\ UNCHANGED <<up, inbox, val, faults, silent>>

Lose(a) ==
    /\ Fault
    /\ \E m \in inbox[a] : inbox' = [inbox EXCEPT ![a] = @ \ {m}]
    /\ UNCHANGED <<up, st, val, silent>>

-----------------------------------------------------------------------------
(* Timers *)

Bound(h) == \E b \in up : st[b].addr = h

\* The system hands out a port that was not in use for long: no agent has it in a
\* table, no datagram carries it.
LongUnused(a, x) ==
    /\ st[a].addr # x
    /\ \A b \in up : /\ ~st[b].slaves[x].known
                     /\ \A m \in inbox[b] : /\ m.from # x
                                            /\ m.type = "ACK_SLAVES" =>
                                                 \A y \in m.data : y[1] # x

\* If there are not enough of them (Ports) it is any port.
NewPort(a) ==
    LET own == {a} \X Ports
    IN  CHOOSE x \in own : (\E y \in own : LongUnused(a, y)) => LongUnused(a, x)

\* create_server_socket of a running slave: the discovery port if it is free,
\* otherwise another port of its own.
create_server_socket(a, s) ==
    [s EXCEPT !.addr = IF Bound(HostOf[a]) THEN NewPort(a) ELSE HostOf[a],
              !.old = TRUE]

udp_refresh_timer(a) ==
    LET s1 == [st[a] EXCEPT !.due = @ \ {"refresh"}, !.slaves =
                 [x \in SlaveAddrs |-> IF @[x].age <= Retention THEN @[x] ELSE NoSlave]]
        retry == ~IsMaster(s1) /\ Seconds(s1.master) >= PEER_DATA_RETENTION_PERIOD \div 2
        s2 == IF retry THEN create_server_socket(a, s1) ELSE s1
        r3 == IF IsMaster(s2) THEN Result(s2, {}) ELSE add_slave(a, Result(s2, {}), s2.addr, 0)
        r4 == Result(r3.s, r3.out \cup udp_send_all(a, r3.s, Everyone(r3.s), {}))
    IN  /\ a \in up /\ "refresh" \in st[a].due /\ Turn(a)
        /\ UNCHANGED <<up, val, faults>>
        /\ Step(a, r4, IF retry THEN [inbox EXCEPT ![a] = {}] ELSE inbox)

clear_stale_peers(a) ==
    LET s1 == [st[a] EXCEPT !.due = @ \ {"stale"}, !.peers =
                 [p \in Agents |-> IF p # a /\ @[p].left = 0 THEN Unlisted ELSE @[p]]]
    IN  /\ a \in up /\ "stale" \in st[a].due /\ Turn(a)
        /\ st' = [st EXCEPT ![a] = [s1 EXCEPT !.timer = \E p \in Agents : s1.peers[p].listed]]
        /\ UNCHANGED <<up, inbox, val, faults, silent>>

Older(age) == IF age < LongAgo THEN age + 1 ELSE age

\* One period passes: for a peer, unless it is the agent's own, and for a slave.
OlderPeer(p)  == IF p.left = 0 THEN p ELSE [p EXCEPT !.left = @ - 1]
OlderSlave(x) == [x EXCEPT !.age = Older(@), !.req = Older(@)]

Aged(a) ==
    LET s == st[a]
    IN  [s EXCEPT !.req = Older(s.req), !.master = Older(s.master),
                  !.due = {"refresh"} \cup (IF s.timer THEN {"stale"} ELSE {}),
                  !.peers = [p \in Agents |-> IF p = a THEN s.peers[p] ELSE OlderPeer(s.peers[p])],
                  !.slaves = [x \in SlaveAddrs |-> OlderSlave(s.slaves[x])]]

Tick ==
    /\ up # {}
    /\ \A a \in up : Quiet(a)
    /\ st' = [a \in Agents |-> IF a \in up THEN Aged(a) ELSE st[a]]
    /\ silent' = [x \in SlaveAddrs |-> Older(silent[x])]
    /\ UNCHANGED <<up, inbox, val, faults>>

-----------------------------------------------------------------------------
(* Agents come and go *)

discovery_start_udp(a) ==
    LET x == IF Bound(HostOf[a]) THEN NewPort(a) ELSE HostOf[a]
        s == Fresh(a, x)
    IN  /\ a \notin up /\ Calm(a)
        /\ up' = up \cup {a}
        /\ Step(a, Result(s, Packets(Hosts, "REQ_INFO", {}) \cup udp_send_all(a, s, Hosts, {})),
                inbox)
        /\ UNCHANGED <<val, faults>>

\* An agent that is down keeps nothing but, perhaps, other properties next time.
Down(a) ==
    /\ a \in up /\ Fault /\ Calm(a)
    /\ up' = up \ {a}
    /\ \E v \in {1, 2} : val' = [val EXCEPT ![a] = IF a \in Servers THEN v ELSE @]

Crash(a) ==
    /\ Down(a)
    /\ st' = [st EXCEPT ![a] = Fresh(a, <<a, 1>>)]
    /\ inbox' = [inbox EXCEPT ![a] = {}]
    /\ UNCHANGED silent

\* discovery_stop_udp, at the end of the agent's main().
discovery_stop_udp(a) ==
    /\ Down(a)
    /\ st' = [st EXCEPT ![a] = Fresh(a, <<a, 1>>)]
    /\ inbox' = Sent([inbox EXCEPT ![a] = {}], a, st[a].addr,
                     Packets(Everyone(st[a]), "PEERS_REMOVED", {a} \cap Servers))
    /\ silent' = [x \in SlaveAddrs |-> IF x = st[a].addr THEN 0 ELSE silent[x]]

Work == \/ Tick
        \/ \E a \in Agents : \/ Deliver(a) \/ RecvFailed(a)
                             \/ udp_refresh_timer(a) \/ clear_stale_peers(a)

Next == \/ Work
        \/ \E a \in Agents : \/ Lose(a) \/ discovery_start_udp(a)
                             \/ Crash(a) \/ discovery_stop_udp(a)

\* Time passes, timers fire and datagrams that are not lost arrive: WF_vars(Work),
\* in which the enabling condition of Work is written out: an agent runs.
Fairness == []<>(up = {}) \/ []<><<Work>>_vars

Spec == Init /\ [][Next]_vars /\ Fairness

-----------------------------------------------------------------------------
(* Properties *)

\* Passing slave addresses on never makes one look more recent than its last
\* packet (udp_send_ack_slaves_all, udp_receive_ack_slaves, add_slave).
NoRejuvenation ==
    \A a \in up, x \in SlaveAddrs :
        st[a].slaves[x].known => st[a].slaves[x].age >= silent[x]

\* Every host with an agent has a master in the end, whoever crashes
\* (udp_refresh_timer, last_master_packet_time).
MasterElected ==
    \A h \in Hosts : (\E a \in up : HostOf[a] = h) ~> (Bound(h) \/ ~\E a \in up : HostOf[a] = h)

\* Once the faults are over, every agent lists every running server with its
\* properties and goes on listing it.
Discovered ==
    \A p \in Servers, a \in Agents :
        <>[](p \in up /\ a \in up) =>
            <>[](st[a].peers[p].listed /\ st[a].peers[p].val = val[p])

\* A server that is gone is forgotten by all, although masters announce the peers
\* of other agents (clear_stale_peers, udp_send_peer_info).
Forgotten ==
    \A p \in Servers : <>[](p \notin up) => <>[](\A a \in up : ~st[a].peers[p].listed)
=============================================================================

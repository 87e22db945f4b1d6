------------------------------ MODULE Protocol ------------------------------
(***************************************************************************)
(* Commands, replies, Hello and redirection on TCF channels:               *)
(* agent/tcf/framework/protocol.c, agent/tcf/framework/proxy.c and the     *)
(* Locator redirect command of agent/tcf/services/discovery.c.             *)
(*                                                                         *)
(* A client is connected to a server: the ends "client" and "host".  After *)
(* a redirect command the server is a proxy between "host" and "target",   *)
(* the two ends that it owns, and "target" is connected to an "agent".  A  *)
(* further redirect goes through the proxy to the agent, which becomes a   *)
(* proxy itself; what is beyond the agent is left out.                     *)
(*                                                                         *)
(* Every end is served by one dispatch thread, so the handling of a        *)
(* message is one action.  A link delivers messages in order, and may be   *)
(* lost with the messages that are on it.                                  *)
(***************************************************************************)
EXTENDS Naturals, Sequences, FiniteSets

CONSTANTS
    Cmds,           \* the commands that are sent, each at most once
    Origin,         \* the end that sends each command
    Redirects,      \* those of the client's commands that are Locator redirect
    Eager,          \* those whose sender does not wait for the Hello of the peer
    Resent,         \* those of the client that a handler sends when channel_closed() calls it
    Progressive,    \* those that the service reports progress of
    TokenMod,       \* unsigned long: tokens are counted modulo this
    Breakable,      \* the links that may be lost
    Closers         \* the ends that the application may close

Ends == {"client", "host", "target", "agent"}

Links == {{"client", "host"}, {"target", "agent"}}

ASSUME ProtocolAssumption ==
    /\ Origin \in [Cmds -> Ends]
    /\ Redirects \subseteq Cmds /\ Eager \subseteq Cmds /\ Resent \subseteq Cmds
    /\ Progressive \subseteq Cmds
    /\ \A c \in Redirects \cup Resent : Origin[c] = "client"
    /\ Redirects \cap Resent = {}     \* a redirect is sent in state Connected only
    /\ TokenMod \in Nat \ {0}
    /\ Breakable \subseteq Links /\ Closers \subseteq Ends

VARIABLES
    state,          \* Channel.state of each end
    services,       \* peer_service_list # NULL
    tokenid,        \* Protocol.tokenid of the end's Protocol object
    rhs,            \* the ReplyHandlerInfo structures of each end
    failed,         \* commands with a send_command_failed event in the queue
    proxied,        \* the server has called proxy_create(host, target)
    connecting,     \* RedirectInfo of a command_redirect() that waits for its connection
    serving,        \* commands that a service of the end has received and not answered
    net,            \* the messages on the way to each end
    broken,         \* the links that are lost
    issued,         \* the commands sent so far
    calls,          \* what the handler of each command was called with
    faults          \* the assertions and protocol errors that were met

vars == <<state, services, tokenid, rhs, failed, proxied, connecting, serving, net,
          broken, issued, calls, faults>>

-----------------------------------------------------------------------------

Peer == [client |-> "host", host |-> "client", target |-> "agent", agent |-> "target"]

\* proxy[proxy->other]
Other(e) == IF e = "host" THEN "target" ELSE "host"

\* The default message handler of the end's Protocol is proxy_default_message_handler().
IsProxy(e) == proxied /\ e \in {"host", "target"}

Closed(e) == state[e] = "Disconnected"

\* A token is a number with a count of the prefixes 'R' that proxies have put before it.
Message(type, hops, n, c, ok) == [type |-> type, hops |-> hops, n |-> n, cmd |-> c, ok |-> ok]

\* A message with no token.
Plain(type) == Message(type, 0, 0, CHOOSE c \in Cmds : TRUE, TRUE)

\* Output to e's peer is lost if the link is, and ignored if the peer has closed.
Put(q, e, m) ==
    IF {e, Peer[e]} \in broken \/ Closed(Peer[e])
      THEN q
      ELSE [q EXCEPT ![Peer[e]] = Append(@, m)]

Got(e) == [net EXCEPT ![e] = Tail(@)]

\* The handlers of the commands S are called.
Call(S, answer) == [c \in Cmds |-> IF c \in S THEN Append(calls[c], answer) ELSE calls[c]]

\* The commands of e's application that wait for an answer.
LiveApp(e) == {r.cmd : r \in {x \in rhs[e] : x.kind = "app"}}

-----------------------------------------------------------------------------
(* Sending commands. *)

\* Variant: a token that is still in use is given out again.
NewToken_NotSkipped(e) == tokenid[e]

\* do tokenid = p->tokenid++ while find_reply_handler()
NewToken(e) ==
    LET used(k) == \E r \in rhs[e] : r.n = (tokenid[e] + k) % TokenMod
        k == CHOOSE i \in 0..Cardinality(rhs[e]) :
                 ~used(i) /\ \A j \in 0..(i - 1) : used(j)
    IN  (tokenid[e] + k) % TokenMod

\* The number of structures never reaches the number of tokens.
TokenLeft(e) == Cardinality(rhs[e]) < TokenMod

\* A command and its ReplyHandlerInfo, as protocol_send_command() makes them on an open channel.
Handler(e, c, kind, via) == [n |-> NewToken(e), cmd |-> c, kind |-> kind, via |-> via]
Command(e, c) == Message("C", 0, NewToken(e), c, TRUE)

\* protocol_send_command_with_progress() by an application.  The caller writes the
\* arguments in any case: after a header, or alone when no header was written.
SendCommand(c) ==
    LET e == Origin[c] IN
    /\ c \notin issued \cup Redirects \cup Resent
    /\ state[e] # "StartWait"
    /\ c \in Eager \/ services[e] \/ Closed(e)
    /\ issued' = issued \cup {c}
    /\ IF Closed(e) \/ ~services[e]
         THEN /\ failed' = failed \cup {c}
              /\ net' = IF Closed(e) THEN net ELSE Put(net, e, Plain("junk"))
              /\ UNCHANGED <<tokenid, rhs>>
         ELSE /\ TokenLeft(e)
              /\ tokenid' = [tokenid EXCEPT ![e] = (NewToken(e) + 1) % TokenMod]
              /\ rhs' = [rhs EXCEPT ![e] = @ \cup {Handler(e, c, "app", 0)}]
              /\ net' = Put(net, e, Command(e, c))
              /\ UNCHANGED failed
    /\ UNCHANGED <<state, services, proxied, connecting, serving, broken, calls, faults>>

\* send_redirect_command_by_id(), _by_props(): called by the client in state Connected,
\* where peer_service_list is set.
SendRedirect(c) ==
    /\ c \in Redirects \ issued
    /\ state["client"] = "Connected" /\ services["client"]
    /\ TokenLeft("client")
    /\ issued' = issued \cup {c}
    /\ state' = [state EXCEPT !["client"] = "RedirectSent"]
    /\ tokenid' = [tokenid EXCEPT !["client"] = (NewToken("client") + 1) % TokenMod]
    /\ rhs' = [rhs EXCEPT !["client"] = @ \cup {Handler("client", c, "app", 0)}]
    /\ net' = Put(net, "client", Command("client", c))
    /\ UNCHANGED <<services, failed, proxied, connecting, serving, broken, calls, faults>>

\* send_command_failed()
CommandFailed(c) ==
    /\ c \in failed
    /\ failed' = failed \ {c}
    /\ calls' = Call({c}, "closed")
    /\ UNCHANGED <<state, services, tokenid, rhs, proxied, connecting, serving, net, broken,
                   issued, faults>>

-----------------------------------------------------------------------------
(* Closing. *)

\* Variant: the other end of a proxy stays open.
ClosedWith_Alone(e) == {e}

\* proxy_disconnected() closes the other end of a proxy.
ClosedWith(e) == IF IsProxy(e) THEN {"host", "target"} ELSE {e}

\* command_redirect_done() called with an error: the client's redirect is answered, unless
\* the host is closed.
RelayFailed(q, S) ==
    LET failing == {r \in S : r.kind = "relay"} IN
    IF failing = {} THEN q
    ELSE LET r == CHOOSE x \in failing : TRUE
         IN  Put(q, "host", Message("R", 0, r.via, r.cmd, FALSE))

\* channel_closed() calls the handlers of the ends that close with ERR_CHANNEL_CLOSED.
CloseCalls(D) == Call(UNION {LiveApp(x) : x \in D}, "closed")

\* What a handler of an end of D sends when channel_closed() calls it, at most one command.
SentAgain(D) ==
    {{}} \cup {{c} : c \in {x \in Resent \ issued : Origin[x] \in D /\ LiveApp(Origin[x]) # {}}}

\* send_eof_and_close(e) on an open channel, given the messages q: what is read is dropped,
\* the end of stream is sent, channel_closed() calls and frees the reply handlers, and
\* the disconnected callback closes the other end of a proxy.  A command that one of the
\* handlers sends fails: the state is Disconnected by then.
CloseEnd(e, q) ==
    LET D == ClosedWith(e)
        q1 == IF e = "target" THEN RelayFailed(q, rhs["target"]) ELSE q
        eos(x) == \E y \in D : Peer[y] = x /\ {x, y} \notin broken /\ ~Closed(x)
    IN
    /\ state' = [x \in Ends |-> IF x \in D THEN "Disconnected" ELSE state[x]]
    /\ services' = [x \in Ends |-> services[x] /\ x \notin D]
    /\ rhs' = [x \in Ends |-> IF x \in D THEN {} ELSE rhs[x]]
    /\ calls' = CloseCalls(D)
    /\ \E more \in SentAgain(D) : issued' = issued \cup more /\ failed' = failed \cup more
    /\ net' = [x \in Ends |-> IF x \in D THEN <<>>
                              ELSE IF eos(x) THEN Append(q1[x], Plain("eos")) ELSE q1[x]]

\* channel_close() by an application, a service or the shutdown of the process.
Close(e) ==
    /\ e \in Closers /\ state[e] \notin {"StartWait", "Disconnected"}
    /\ CloseEnd(e, net)
    /\ UNCHANGED <<tokenid, proxied, connecting, serving, broken, faults>>

\* An exception in the handling of the message at the head of net[e].
Fault(e, what) ==
    /\ CloseEnd(e, Got(e))
    /\ faults' = faults \cup {what}
    /\ UNCHANGED <<tokenid, proxied, connecting, serving, broken>>

\* The connection is lost: the messages on the way to an end are
\* delivered or lost, and the end of stream follows.
LoseLink(l) ==
    /\ l \in Breakable \ broken
    /\ \A e \in l : state[e] # "StartWait"
    /\ broken' = broken \cup {l}
    /\ \E keep \in [l -> {0, 1}] :
         net' = [e \in Ends |->
                    IF e \notin l \/ Closed(e) THEN net[e]
                    ELSE Append(SubSeq(net[e], 1, keep[e] * Len(net[e])), Plain("eos"))]
    /\ UNCHANGED <<state, services, tokenid, rhs, failed, proxied, connecting, serving,
                   issued, calls, faults>>

-----------------------------------------------------------------------------
(* Hello. *)

\* start_channel(): the Hello is sent before anything is read.
Start(e) ==
    /\ e # "target" /\ (e = "agent" => proxied)
    /\ state[e] = "StartWait"
    /\ state' = [state EXCEPT ![e] = "HelloSent"]
    /\ net' = Put(net, e, Plain("Hello"))
    /\ UNCHANGED <<services, tokenid, rhs, failed, proxied, connecting, serving, broken,
                   issued, calls, faults>>

\* event_locator_hello() in state HelloSent; for the target end connect_done() goes on to
\* proxy_connected(), which completes the handshake of the host end.
TakeHello(e) ==
    /\ IF e = "target" /\ state["host"] # "HelloReceived"
         THEN Fault(e, "assert")
         ELSE /\ state' = [x \in Ends |-> IF x = e \/ (e = "target" /\ x = "host")
                                            THEN "Connected" ELSE state[x]]
              /\ services' = [services EXCEPT ![e] = TRUE]
              /\ net' = IF e = "target" THEN Put(Got(e), "host", Plain("Hello")) ELSE Got(e)
              /\ UNCHANGED <<tokenid, rhs, failed, proxied, connecting, serving, broken,
                             issued, calls, faults>>

\* A Hello in any other state is an event like any other: a proxy passes it on.
StrayHello(e) ==
    /\ net' = IF IsProxy(e) THEN Put(Got(e), Other(e), Head(net[e])) ELSE Got(e)
    /\ faults' = faults \cup {"hello"}
    /\ UNCHANGED <<state, services, tokenid, rhs, failed, proxied, connecting, serving,
                   broken, issued, calls>>

\* The agent's own proxy is connected, and completes the handshake with the target end.
HopConnected ==
    /\ state["agent"] = "HelloReceived"
    /\ state' = [state EXCEPT !["agent"] = "Connected"]
    /\ net' = Put(net, "agent", Plain("Hello"))
    /\ UNCHANGED <<services, tokenid, rhs, failed, proxied, connecting, serving, broken,
                   issued, calls, faults>>

-----------------------------------------------------------------------------
(* Handling a command. *)

NoInfo == <<>>

\* A command is answered, or otherwise handled, without any other effect.
OnlyNet(q) ==
    /\ net' = q
    /\ UNCHANGED <<state, services, tokenid, rhs, failed, proxied, connecting, serving,
                   broken, issued, calls, faults>>

Reply(m, type, ok) == [m EXCEPT !.type = type, !.ok = ok]

\* Wrong channel state for commands, or the command is not recognized.
Reject(e, m) == OnlyNet(Put(Got(e), e, Reply(m, "N", FALSE)))

\* A command handler takes the command; its reply comes later.
Serve(e, m) ==
    /\ serving' = [serving EXCEPT ![e] = @ \cup {m}]
    /\ net' = Got(e)
    /\ UNCHANGED <<state, services, tokenid, rhs, failed, proxied, connecting, broken,
                   issued, calls, faults>>

\* proxy_default_message_handler() on a command: the token gets a prefix.
Forward(e, m) == OnlyNet(Put(Got(e), Other(e), [m EXCEPT !.hops = @ + 1]))

\* command_redirect(): the peer is not known, or a connection to it is started.
CommandRedirect(e, m) ==
    \/ OnlyNet(Put(Got(e), e, Reply(m, "R", FALSE)))
    \/ /\ state' = [state EXCEPT ![e] = "RedirectReceived"]
       /\ connecting' = [connecting EXCEPT ![e] = <<m>>]
       /\ net' = Got(e)
       /\ UNCHANGED <<services, tokenid, rhs, failed, proxied, serving, broken, issued,
                      calls, faults>>

\* command_locator_redirect(): the proxy sends a redirect command of its own to the target.
RelayRedirect(m) ==
    IF state["target"] # "Connected" THEN Fault("host", "assert")
    ELSE /\ TokenLeft("target")
         /\ state' = [state EXCEPT !["target"] = "RedirectSent"]
         /\ tokenid' = [tokenid EXCEPT !["target"] = (NewToken("target") + 1) % TokenMod]
         /\ rhs' = [rhs EXCEPT !["target"] = @ \cup {Handler("target", m.cmd, "relay", m.n)}]
         /\ net' = Put(Got("host"), "target", Command("target", m.cmd))
         /\ UNCHANGED <<services, failed, proxied, connecting, serving, broken, issued,
                        calls, faults>>

\* handle_protocol_message() on 'C'.
HandleCommand(e, m) ==
    \/ /\ state[e] # "Connected"
       /\ Reject(e, m)
    \/ /\ state[e] = "Connected"
       /\ \/ IsProxy(e) /\ m.cmd \notin Redirects /\ Forward(e, m)
          \/ IsProxy(e) /\ m.cmd \in Redirects /\ RelayRedirect(m)
          \/ ~IsProxy(e) /\ m.cmd \in Redirects /\ CommandRedirect(e, m)
          \/ ~IsProxy(e) /\ m.cmd \notin Redirects /\ (Serve(e, m) \/ Reject(e, m))

\* A service reports progress of a command, at most once.
Progress(e) ==
    \E m \in serving[e] :
        /\ m.type = "C" /\ m.cmd \in Progressive /\ ~Closed(e)
        /\ serving' = [serving EXCEPT ![e] = (@ \ {m}) \cup {Reply(m, "P", TRUE)}]
        /\ net' = Put(net, e, Reply(m, "P", TRUE))
        /\ UNCHANGED <<state, services, tokenid, rhs, failed, proxied, connecting, broken,
                       issued, calls, faults>>

\* A service answers, if the channel is still open.
Answer(e) ==
    \E m \in serving[e] :
        /\ serving' = [serving EXCEPT ![e] = @ \ {m}]
        /\ net' = IF Closed(e) THEN net ELSE Put(net, e, Reply(m, "R", TRUE))
        /\ UNCHANGED <<state, services, tokenid, rhs, failed, proxied, connecting, broken,
                       issued, calls, faults>>

-----------------------------------------------------------------------------
(* Redirection. *)

\* Variant: the structures are freed, as they are when the channel is closed.
Detach_Freed(S) == {}

\* channel_closed() on a channel that is redirected: every handler is called with
\* ERR_CHANNEL_CLOSED, and the structures stay to intercept the replies.
Detach(S) == {[r EXCEPT !.kind = "dead"] : r \in S}

\* connect_done() in discovery.c, the answer to a command_redirect() at the end e.
ConnectFailed(e) ==
    /\ connecting[e] # NoInfo
    /\ connecting' = [connecting EXCEPT ![e] = NoInfo]
    /\ IF Closed(e) THEN UNCHANGED <<state, net>>
       ELSE /\ state' = [state EXCEPT ![e] = "Connected"]
            /\ net' = Put(net, e, Reply(connecting[e][1], "R", FALSE))
    /\ UNCHANGED <<services, tokenid, rhs, failed, proxied, serving, broken, issued, calls, faults>>

\* proxy_create(): e gets a new Protocol object and has to send a Hello once more.  At the
\* server the target end is started and its Hello sent.
ConnectSucceeded(e) ==
    /\ connecting[e] # NoInfo
    /\ connecting' = [connecting EXCEPT ![e] = NoInfo]
    /\ IF Closed(e)
         THEN UNCHANGED <<state, services, tokenid, rhs, proxied, net, calls, faults>>
         ELSE /\ faults' = IF state[e] = "RedirectReceived" THEN faults
                           ELSE faults \cup {"assert"}
              /\ state' = [x \in Ends |-> IF x = e THEN "HelloReceived"
                                          ELSE IF e = "host" /\ x = "target" THEN "HelloSent"
                                          ELSE state[x]]
              /\ proxied' = (proxied \/ e = "host")
              /\ rhs' = [rhs EXCEPT ![e] = Detach(rhs[e])]
              /\ calls' = Call(LiveApp(e), "closed")
              /\ services' = [services EXCEPT ![e] = FALSE]
              /\ tokenid' = [tokenid EXCEPT ![e] = 1 % TokenMod]
              /\ LET hello == IF e = "host" THEN Put(net, "target", Plain("Hello")) ELSE net
                 IN  net' = Put(hello, e, Reply(connecting[e][1], "R", TRUE))
    /\ UNCHANGED <<failed, serving, broken, issued>>

\* What a reply to a command never changes.
ReplyKeeps == UNCHANGED <<failed, proxied, connecting, serving, broken, faults>>

\* redirect_done() and the client's own handler.  Of the handlers that channel_closed()
\* calls, one may send a further command: its structure is hung into the hash table that
\* is being walked, and the walk may or may not come to it.
ClientRedirectDone(r, m) ==
    LET e == "client"
        done == m.type = "R" /\ m.ok
        others == LiveApp(e) \ {r.cmd}
        left == rhs[e] \ {r}
    IN
    IF m.type = "R" /\ state[e] # "RedirectSent" THEN Fault(e, "assert")
    ELSE IF ~done
    THEN /\ state' = [state EXCEPT ![e] = "Connected"]
         /\ rhs' = [rhs EXCEPT ![e] = left]
         /\ calls' = Call({r.cmd}, IF m.type = "N" THEN "rejected" ELSE "reply")
         /\ net' = Got(e)
         /\ UNCHANGED <<services, tokenid, issued>>
         /\ ReplyKeeps
    ELSE /\ state' = [state EXCEPT ![e] = "HelloSent"]
         /\ services' = [services EXCEPT ![e] = FALSE]
         /\ \E more \in {{}} \cup {{c} : c \in {x \in Resent \ issued :
                                                  Origin[x] = e /\ others # {}}},
               visited \in BOOLEAN :
              /\ more # {} => TokenLeft(e)
              /\ more = {} => ~visited
              /\ issued' = issued \cup more
              /\ rhs' = [rhs EXCEPT ![e] =
                           Detach(left) \cup
                           {Handler(e, c, IF visited THEN "dead" ELSE "app", 0) : c \in more}]
              /\ tokenid' = [tokenid EXCEPT ![e] = IF more = {} THEN @
                                                   ELSE (NewToken(e) + 1) % TokenMod]
              /\ calls' = [c \in Cmds |->
                             IF c = r.cmd THEN Append(calls[c], "reply")
                             ELSE IF c \in others \/ (visited /\ c \in more)
                                    THEN Append(calls[c], "closed") ELSE calls[c]]
              /\ net' = IF more = {} THEN Got(e)
                        ELSE Put(Got(e), e, Command(e, CHOOSE c \in more : TRUE))
         /\ ReplyKeeps

\* redirect_done() and command_redirect_done() at the target end of the proxy; proxy_update()
\* makes the host end wait for the Hello of the new target.
RelayDone(r, m) ==
    LET done == m.type = "R" /\ m.ok
        answer == Message("R", 0, r.via, r.cmd, done)
        left == rhs["target"] \ {r}
        pair == {"host", "target"}
    IN
    IF (m.type = "R" /\ state["target"] # "RedirectSent") \/ (done /\ state["host"] # "Connected")
    THEN Fault("target", "assert")
    ELSE /\ net' = Put(Got("target"), "host", answer)
         /\ IF ~done
              THEN /\ state' = [state EXCEPT !["target"] = "Connected"]
                   /\ rhs' = [rhs EXCEPT !["target"] = left]
                   /\ UNCHANGED <<services, tokenid, calls>>
              ELSE /\ state' = [state EXCEPT !["target"] = "HelloSent", !["host"] = "HelloReceived"]
                   /\ rhs' = [rhs EXCEPT !["target"] = Detach(left),
                                         !["host"] = Detach(rhs["host"])]
                   /\ calls' = Call(LiveApp("target") \cup LiveApp("host"), "closed")
                   /\ services' = [x \in Ends |-> services[x] /\ x \notin pair]
                   /\ tokenid' = [tokenid EXCEPT !["host"] = 1 % TokenMod]
         /\ UNCHANGED issued
         /\ ReplyKeeps

-----------------------------------------------------------------------------
(* Handling a reply. *)

\* The handler of the structure r is called with the reply, or the rejection, m.
Deliver(e, r, m) ==
    \/ /\ r.kind = "relay"
       /\ RelayDone(r, m)
    \/ /\ r.kind = "app" /\ r.cmd \in Redirects
       /\ ClientRedirectDone(r, m)
    \/ /\ r.kind = "dead" \/ (r.kind = "app" /\ r.cmd \notin Redirects)
       /\ rhs' = [rhs EXCEPT ![e] = @ \ {r}]
       /\ calls' = IF r.kind = "dead" THEN calls
                   ELSE Call({r.cmd}, IF m.cmd # r.cmd THEN "wrong"
                                      ELSE IF m.type = "N" THEN "rejected" ELSE "reply")
       /\ net' = Got(e)
       /\ UNCHANGED <<state, services, tokenid, issued>>
       /\ ReplyKeeps

\* handle_protocol_message() on 'R', 'P' and 'N'.
HandleReply(e, m) ==
    LET found == {r \in rhs[e] : m.hops = 0 /\ r.n = m.n} IN
    \/ /\ found = {} /\ IsProxy(e) /\ m.hops > 0
       /\ OnlyNet(Put(Got(e), Other(e), [m EXCEPT !.hops = @ - 1]))
    \/ /\ found = {} /\ ~(IsProxy(e) /\ m.hops > 0)
       /\ Fault(e, "token")
    \/ /\ found # {} /\ m.type = "P"
       /\ OnlyNet(Got(e))
    \/ /\ m.type # "P"
       /\ \E r \in found : Deliver(e, r, m)

-----------------------------------------------------------------------------

\* handle_channel_msg(): the next message of an open channel.
Receive(e) ==
    /\ ~Closed(e) /\ state[e] # "StartWait" /\ net[e] # <<>>
    /\ LET m == Head(net[e]) IN
       \/ m.type = "C" /\ HandleCommand(e, m)
       \/ m.type \in {"R", "P", "N"} /\ HandleReply(e, m)
       \/ m.type = "Hello" /\ state[e] = "HelloSent" /\ TakeHello(e)
       \/ m.type = "Hello" /\ state[e] # "HelloSent" /\ StrayHello(e)
       \/ m.type = "junk" /\ Fault(e, "junk")

\* The end of the stream closes the channel as soon as it is read from the connection: the
\* messages before it that are not handled yet are dropped (ibuf_start_message).
EndOfStream(e) ==
    /\ ~Closed(e) /\ state[e] # "StartWait"
    /\ \E i \in DOMAIN net[e] : net[e][i].type = "eos"
    /\ CloseEnd(e, net)
    /\ UNCHANGED <<tokenid, proxied, connecting, serving, broken, faults>>

PrInit ==
    /\ state = [e \in Ends |-> "StartWait"]
    /\ services = [e \in Ends |-> FALSE]
    /\ tokenid = [e \in Ends |-> 1 % TokenMod]
    /\ rhs = [e \in Ends |-> {}]
    /\ failed = {}
    /\ proxied = FALSE
    /\ connecting = [e \in Ends |-> NoInfo]
    /\ serving = [e \in Ends |-> {}]
    /\ net = [e \in Ends |-> <<>>]
    /\ broken = {}
    /\ issued = {}
    /\ calls = [c \in Cmds |-> <<>>]
    /\ faults = {}

PrNext ==
    \/ \E c \in Cmds : SendCommand(c) \/ SendRedirect(c) \/ CommandFailed(c)
    \/ \E e \in Ends : \/ Start(e) \/ Receive(e) \/ EndOfStream(e) \/ Progress(e) \/ Answer(e)
                       \/ ConnectFailed(e) \/ ConnectSucceeded(e) \/ Close(e)
    \/ HopConnected
    \/ \E l \in Links : LoseLink(l)

PrSpec == PrInit /\ [][PrNext]_vars

\* Every dispatch thread runs, every service answers and every connection attempt ends.
PrFairSpec ==
    /\ PrSpec
    /\ \A c \in Cmds : WF_vars(CommandFailed(c))
    /\ \A e \in Ends : /\ WF_vars(Start(e)) /\ WF_vars(Receive(e)) /\ WF_vars(EndOfStream(e))
                       /\ WF_vars(Answer(e))
                       /\ WF_vars(ConnectFailed(e) \/ ConnectSucceeded(e))
    /\ WF_vars(HopConnected)

-----------------------------------------------------------------------------
(* Properties. *)

\* Every command that is sent is answered exactly once, with the reply to that command, a
\* rejection or an error, whatever is redirected, closed or lost meanwhile
\* (protocol.c, send_command, handle_protocol_message and channel_closed; proxy.c).
Sender == INSTANCE Commands WITH issued <- issued, calls <- calls
AnsweredOnce == Sender!AbsFairSpec

\* No reply finds its reply handler gone, no Hello arrives when none is expected, and none
\* of the assertions on the states of the two ends of a proxy fails; the one error an end
\* may meet is the body of a command that was written without its header
\* (handle_protocol_message, redirect_done, proxy_connected, proxy_update).
NoSurprise == faults \subseteq {"junk"}

\* The two ends of a proxy go through the redirections and the closing together
\* (proxy_create, proxy_connected, proxy_update, proxy_disconnected).
ProxyPair ==
    proxied => <<state["host"], state["target"]>> \in
        {<<"HelloReceived", "HelloSent">>, <<"Connected", "Connected">>,
         <<"Connected", "RedirectSent">>, <<"Disconnected", "Disconnected">>}

=============================================================================

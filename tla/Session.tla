------------------------------ MODULE Session ------------------------------
(***************************************************************************)
(* The broker core of mqtt_server: CMqttConnection (the packet handlers),  *)
(* CTMqttClientContext (a client's session), CClientIdContext (sessions by *)
(* client id) and CSubscriberMgr (subscribers and retained message of each *)
(* topic).  All of it runs in the reactor thread: one packet, one closing, *)
(* one EPOLLOUT or one notified message is one step.                       *)
(*                                                                         *)
(* A step maps the world (connections, sessions, registry, subscribers) to *)
(* a new one; handlers that close connections on the way are compositions  *)
(* of such maps.  The socket of a connection is the queue specified by     *)
(* EventHandler.  Clients send CONNECT once per connection.                *)
(***************************************************************************)
EXTENDS Integers, Sequences, FiniteSets, Functions, Lists

CONSTANTS
    Conn,      \* CMqttConnection objects
    Ctx,       \* CTMqttClientContext objects: a finite pool
    ClientId,
    Topic,
    Null,      \* nullptr, and the empty client id
    MaxMsg,    \* bound: messages that get an id of this broker
    MaxParent, \* bound: messages received from the parent broker
    MaxQueue,  \* bound: messages in the queue of a session
    MaxOut,    \* m_max_msg_in_buffer
    SndBuf,    \* the packets a kernel buffer takes from one handler
    MaxFilter, \* bound: topics in one SUBSCRIBE or UNSUBSCRIBE
    WireMod,   \* the number of packet ids on the wire, 2^16 in the code
    Qos0,      \* the messages published with QoS 0
    Mode,      \* mqtt_bridge: 0 and 3 have a parent broker, 1 to 3 an HTTP server
    Patient    \* whether clients wait for the reply before the next request

Own == 1 .. MaxMsg
Msg == 1 .. MaxMsg + MaxParent
Ctl == 0       \* a CONNACK, PUBACK, SUBACK, UNSUBACK or PINGRESP

(* A queued buffer: m is a buffer of message m, -m the copy that publish() *)
(* makes to retain it.                                                     *)
Buffer == Msg \cup {-m : m \in Msg}
Message(b) == IF b < 0 THEN -b ELSE b
Messages(queue) == {Message(b) : b \in Range(queue)}

(* m_msg_id of a buffer, and the id on the wire.  Messages of the parent   *)
(* broker keep the id it gave them.                                        *)
mbuf_id(b) == IF Message(b) \in Own THEN Message(b) ELSE Message(b) - MaxMsg
msg_id(b) == mbuf_id(b) % WireMod

ASSUME NullAssumption == Null \notin Conn \cup Ctx \cup ClientId
ASSUME SizeAssumption ==
    /\ MaxMsg \in Nat /\ MaxParent \in Nat /\ MaxQueue \in Nat /\ MaxOut \in Nat \ {0}
    /\ SndBuf \in Nat /\ MaxFilter \in Nat /\ WireMod \in Nat \ {0} /\ Qos0 \subseteq Msg
    /\ Mode \in 0 .. 3 /\ Patient \in BOOLEAN
    /\ \A T \in SUBSET Topic : Cardinality(T) \in Nat   \* Topic is finite

VARIABLES
    conn,     \* open, m_client_context, m_send_msg_queue, and sent: the QoS 1
              \* messages written to the socket and not yet acknowledged
    ctx,      \* m_client_status, m_client_id, m_clean_session, m_mqtt_connection,
              \* m_subcribe_topics, m_send_msg_queue; history: owed, acked
    registry, \* CLIENT_ID_CONTEXT
    subs,     \* m_subcriber_clients of each topic
    retained, \* m_retian_msg_buf of each topic, 0 for none
    last_id,  \* m_last_msg_id
    parent,   \* the last id the parent broker has used
    fault     \* undefined behaviour has been reached: the process is lost

vars == <<conn, ctx, registry, subs, retained, last_id, parent, fault>>

Status == {"CS_NEW", "CS_CONNECTED", "CS_DISCONNECTED"}

Connection == [open : BOOLEAN, ctx : Ctx \cup {Null},
               outq : Seq(Buffer \cup {Ctl}), sent : Seq(Msg)]

Context == [status : Status, id : ClientId \cup {Null}, clean : BOOLEAN,
            conn : Conn \cup {Null}, topics : SUBSET Topic, queue : Seq(Buffer),
            owed : SUBSET Msg, acked : SUBSET Msg]

Closed == [open |-> FALSE, ctx |-> Null, outq |-> <<>>, sent |-> <<>>]

(* CTMqttClientContext(con): m_clean_session is not initialised.           *)
NewContext(c, garbage) ==
    [status |-> "CS_NEW", id |-> Null, clean |-> garbage, conn |-> c,
     topics |-> {}, queue |-> <<>>, owed |-> {}, acked |-> {}]

Freed == NewContext(Null, FALSE)

NoConn == [c \in Conn |-> Closed]
NoCtx == [x \in Ctx |-> Freed]
NoClient == [i \in ClientId |-> Null]
NoSub == [t \in Topic |-> {}]
NoRetained == [t \in Topic |-> 0]

Init ==
    /\ conn = NoConn /\ ctx = NoCtx /\ registry = NoClient
    /\ subs = NoSub /\ retained = NoRetained
    /\ last_id = 0 /\ parent = 0 /\ fault = "none"

-----------------------------------------------------------------------------
World == [conn |-> conn, ctx |-> ctx, registry |-> registry, subs |-> subs]

Referenced(w) ==
    {w.conn[c].ctx : c \in Conn} \cup Range(w.registry) \cup UNION Range(w.subs)

(* A session is a shared_ptr: it is deleted with its last reference.       *)
Becomes(w) ==
    /\ conn' = w.conn
    /\ ctx' = [x \in Ctx |-> IF x \in Referenced(w) THEN w.ctx[x] ELSE Freed]
    /\ registry' = w.registry
    /\ subs' = w.subs

(* The process is gone, and with it all of its state.                      *)
Crash(why) ==
    /\ fault' = why
    /\ conn' = NoConn /\ ctx' = NoCtx /\ registry' = NoClient
    /\ subs' = NoSub /\ retained' = NoRetained /\ last_id' = 0 /\ parent' = 0

MakeContext(w, c, x, garbage) ==
    [w EXCEPT !.conn[c].ctx = x, !.ctx[x] = NewContext(c, garbage)]

(* client_context(): the session of a connection is made on first use.     *)
client_context(c) ==
    IF conn[c].ctx # Null
    THEN {World}
    ELSE {MakeContext(World, c, x, garbage) : x \in Ctx \ Referenced(World), garbage \in BOOLEAN}

(* The PUBACKs that written packets ask for.                               *)
Expects(packets) ==
    Filter([j \in 1 .. Len(packets) |-> Message(packets[j])], Msg \ Qos0)

(* put() of a list of packets, of which the kernel takes the first n.      *)
put(k, packets, n) ==
    LET waiting == k.outq \o SubSeq(packets, n + 1, Len(packets)) IN
    [k EXCEPT !.sent = @ \o Expects(SubSeq(packets, 1, n)),
              !.outq = SubSeq(waiting, 1, IF Len(waiting) < MaxOut THEN Len(waiting) ELSE MaxOut)]

(* The kernel is only asked while nothing waits in the send queue.         *)
Takes(k, n) == n > 0 => n <= SndBuf /\ k.outq = <<>>

(* put() returns -1 for one of these packets: the send queue is full.      *)
Refused(k, packets, n) == Len(k.outq) + Len(packets) - n > MaxOut

(* CSubscriberMgr::add_client_context() for each of the topics ts.         *)
add_client_context(s, x, ts) == [t \in Topic |-> IF t \in ts THEN s[t] \cup {x} ELSE s[t]]

(* Mutant: the session stays a subscriber.                                 *)
del_client_context_none(s, x, ts) == s

(* CSubscriberMgr::del_client_context() for each of the topics ts.         *)
del_client_context(s, x, ts) == [t \in Topic |-> IF t \in ts THEN s[t] \ {x} ELSE s[t]]

(* Mutant: the client id stays registered.                                 *)
del_client_id_none(r, i) == r

(* CClientIdContext::del_client_context(), whoever is registered there.    *)
del_client_id(r, i) == [j \in ClientId |-> IF j = i THEN Null ELSE r[j]]

(* Mutant: the session keeps its pointer to the deleted connection.        *)
handle_close_keeps_link(w, c) ==
    LET x == w.conn[c].ctx
        k == w.ctx[x]
    IN  [conn |-> [w.conn EXCEPT ![c] = Closed],
         ctx |-> w.ctx,
         registry |-> IF k.clean THEN del_client_id(w.registry, k.id) ELSE w.registry,
         subs |-> IF k.clean THEN del_client_context(w.subs, x, k.topics) ELSE w.subs]

(* handle_close() of a connection that has a session.  A clean session is  *)
(* unsubscribed from the topics it lists and its client id is forgotten.   *)
handle_close(w, c) ==
    LET x == w.conn[c].ctx
        k == w.ctx[x]
    IN  [conn |-> [w.conn EXCEPT ![c] = Closed],
         ctx |-> [w.ctx EXCEPT ![x].conn = Null],
         registry |-> IF k.clean THEN del_client_id(w.registry, k.id) ELSE w.registry,
         subs |-> IF k.clean THEN del_client_context(w.subs, x, k.topics) ELSE w.subs]

(* The reply to a packet is put(); the connection is closed if it does not *)
(* fit into the send queue.                                                *)
Reply(w, c, packets, n) ==
    LET sent == [w EXCEPT !.conn[c] = put(@, packets, n)] IN
    IF Refused(w.conn[c], packets, n) THEN handle_close(sent, c) ELSE sent

-----------------------------------------------------------------------------
Running == fault = "none"
Connected(c) == conn[c].open /\ conn[c].ctx # Null /\ ctx[conn[c].ctx].status = "CS_CONNECTED"
Online(x) == ctx[x].conn # Null

(* A packet of the client that asks for a reply is being handled.          *)
Request(c) == Running /\ conn[c].open /\ (Patient => conn[c].outq = <<>>)

Accept(c) ==
    /\ Running /\ ~conn[c].open
    /\ conn' = [conn EXCEPT ![c].open = TRUE]
    /\ UNCHANGED <<ctx, registry, subs, retained, last_id, parent, fault>>

(* init() of the session with the fields of a CONNECT, and its link to the *)
(* connection.                                                             *)
init(w, c, x, i, clean) ==
    [w EXCEPT !.conn[c].ctx = x,
              !.ctx[x] = [@ EXCEPT !.status = "CS_CONNECTED", !.id = i, !.clean = clean, !.conn = c]]

(* Mutant: the queue of the session is not sent after CONNACK.             *)
ConnAck_only(w, c, n) ==
    /\ Takes(conn[c], n) /\ n <= 1
    /\ Becomes(Reply(w, c, <<Ctl>>, n))
    /\ UNCHANGED <<retained, last_id, parent, fault>>

(* CONNACK, then the whole queue of the session.                           *)
ConnAck(w, c, n) ==
    LET packets == <<Ctl>> \o w.ctx[w.conn[c].ctx].queue IN
    /\ Takes(conn[c], n) /\ n <= Len(packets)
    /\ Becomes(Reply(w, c, packets, n))
    /\ UNCHANGED <<retained, last_id, parent, fault>>

(* CONNECT with an empty client id: it is answered with BAD_ID, but the    *)
(* result of put() replaces the -1 that would close the connection.        *)
ConnectBadId(c, n) ==
    /\ Request(c) /\ ~Connected(c)
    /\ \E w \in client_context(c) : ConnAck(w, c, n)

(* CONNECT with an unknown client id registers the connection's session.   *)
ConnectNew(c, i, clean, n) ==
    /\ Request(c) /\ ~Connected(c) /\ registry[i] = Null
    /\ \E w \in client_context(c) :
         LET x == w.conn[c].ctx IN
         ConnAck([init(w, c, x, i, clean) EXCEPT !.registry[i] = x], c, n)

(* CONNECT with a known client id takes the session over.  The connection  *)
(* that had it is closed first, which for a clean session also drops the   *)
(* registration; it is not restored.                                       *)
ConnectKnown(c, i, clean, n) ==
    /\ Request(c) /\ ~Connected(c) /\ registry[i] # Null
    /\ LET x == registry[i]
           last == ctx[x].conn
           w == IF last # Null THEN handle_close(World, last) ELSE World
       IN  ConnAck(init(w, c, x, i, clean), c, n)

-----------------------------------------------------------------------------
(* publish() to sessions: session x is given message m copies[x] times.    *)
(* Every copy is queued in the session and put() on its connection, if it  *)
(* has one, where the kernel takes the first n[d] of them.  Connections in *)
(* failed are closed because the write failed.                             *)
Fanout(w, m, copies, n, failed) ==
    LET list(x) == [j \in 1 .. copies[x] |-> m]
        readers(d) == {x \in Ctx : copies[x] > 0 /\ w.ctx[x].conn = d}
    IN  [w EXCEPT
            !.conn = [d \in Conn |->
                        IF d \in failed THEN Closed
                        ELSE IF readers(d) = {} THEN w.conn[d]
                        ELSE put(w.conn[d], list(CHOOSE x \in readers(d) : TRUE), n[d])],
            !.ctx = [x \in Ctx |-> [w.ctx[x] EXCEPT
                        !.queue = @ \o list(x),
                        !.owed = IF copies[x] > 0 THEN @ \cup {m} ELSE @,
                        !.conn = IF @ \in failed THEN Null ELSE @]]]

(* The choices of the kernel that are possible while w is published to.    *)
(* self is the connection whose handler publishes: what a failed write     *)
(* does to it is WriteError.                                               *)
Possible(w, copies, n, failed, self) ==
    LET readers == {x \in Ctx : copies[x] > 0} IN
    /\ \A x \in readers : Len(ctx[x].queue) + copies[x] <= MaxQueue
    /\ failed \subseteq {w.ctx[x].conn : x \in readers} \ {Null, self}
    /\ \A d \in failed : w.conn[d].outq = <<>>
    /\ \A d \in Conn : Takes(w.conn[d], n[d])
    /\ \A d \in Conn : n[d] > 0 => \E x \in readers : w.ctx[x].conn = d /\ n[d] <= copies[x]

(* Closing a clean session erases it from the subscribers of the topic,    *)
(* over which publish() is iterating.                                      *)
IteratorLost(w, failed) == \E d \in failed : w.ctx[w.conn[d].ctx].clean

RetainFlag == {"none", "set", "clear"}

Copies(t) == [x \in Ctx |-> IF x \in subs[t] THEN 1 ELSE 0]

AllCopies == [x \in Ctx |-> Cardinality({t \in Topic : x \in subs[t]})]

(* Mutant: the buffer itself is retained, and not a copy.                  *)
Retain_NoCopy(t, flag, m) ==
    [retained EXCEPT ![t] = CASE flag = "none" -> @ [] flag = "set" -> m [] flag = "clear" -> 0]

(* The retained message of a topic after a PUBLISH without the flag, with  *)
(* the flag, and with the flag and no payload.                             *)
Retain(t, flag, m) ==
    [retained EXCEPT ![t] = CASE flag = "none" -> @ [] flag = "set" -> -m [] flag = "clear" -> 0]

(* PUBLISH: PUBACK first, whatever the QoS, then the subscribers.  When    *)
(* PUBACK does not fit, the publisher is closed at the end.                *)
Publish(c, t, flag, n0, n, failed) ==
    /\ Request(c) /\ Connected(c) /\ last_id < MaxMsg
    /\ Takes(conn[c], n0) /\ n0 <= 1
    /\ LET m == last_id + 1
           w == [World EXCEPT !.conn[c] = put(@, <<Ctl>>, n0)]
           published == Fanout(w, m, Copies(t), n, failed)
       IN  /\ Possible(w, Copies(t), n, failed, c)
           /\ IF IteratorLost(w, failed) THEN Crash("iterator")
              ELSE /\ Becomes(IF Refused(conn[c], <<Ctl>>, n0)
                              THEN handle_close(published, c) ELSE published)
                   /\ retained' = Retain(t, flag, m)
                   /\ last_id' = m
                   /\ UNCHANGED <<parent, fault>>

(* Message m, taken from the notify queue, is published: to one topic in   *)
(* mode 0, to the subscribers of each topic in the others.                 *)
Notified(m, t, flag, n, failed) ==
    LET copies == IF Mode = 0 THEN Copies(t) ELSE AllCopies IN
    /\ Possible(World, copies, n, failed, Null)
    /\ IF IteratorLost(World, failed) THEN Crash("iterator")
       ELSE /\ Becomes(Fanout(World, m, copies, n, failed))
            /\ retained' = IF Mode = 0 THEN Retain(t, flag, m) ELSE retained
            /\ last_id' = IF m \in Own THEN m ELSE last_id
            /\ parent' = IF m \in Own THEN parent ELSE m - MaxMsg
            /\ UNCHANGED fault

(* From the HTTP server, with the next id of this broker.                  *)
NotifyHttp(t, flag, n, failed) ==
    /\ Running /\ Mode # 0 /\ last_id < MaxMsg
    /\ Notified(last_id + 1, t, flag, n, failed)

(* From the parent broker, with the id it had there.                       *)
NotifyParent(t, flag, n, failed) ==
    /\ Running /\ Mode \in {0, 3} /\ parent < MaxParent
    /\ Notified(MaxMsg + parent + 1, t, flag, n, failed)

(* Mutant: the head of the queue is dropped by any PUBACK.                 *)
ack_msg_any(queue, m) == IF queue # <<>> THEN Tail(queue) ELSE queue

(* PUBACK: only the head of the queue is compared, by its id on the wire.  *)
ack_msg(queue, m) ==
    IF queue # <<>> /\ msg_id(Head(queue)) = msg_id(m) THEN Tail(queue) ELSE queue

Acknowledged(k, m) == [k EXCEPT !.queue = ack_msg(@, m), !.acked = @ \cup {m}]

Puback(c) ==
    /\ Running /\ conn[c].open /\ conn[c].sent # <<>>
    /\ LET m == Head(conn[c].sent)
           x == conn[c].ctx
       IN  /\ conn' = [conn EXCEPT ![c].sent = Tail(@)]
           /\ ctx' = [ctx EXCEPT ![x] = Acknowledged(@, m)]
    /\ UNCHANGED <<registry, subs, retained, last_id, parent, fault>>

(* PUBACK on a connection without a session: one is made, and nothing else.*)
PubackFirst(c) ==
    /\ Running /\ conn[c].open /\ conn[c].ctx = Null
    /\ \E w \in client_context(c) : Becomes(w)
    /\ UNCHANGED <<retained, last_id, parent, fault>>

(* A session that lists the topics and is owed their retained messages.    *)
Listed(k, topics, held) ==
    [k EXCEPT !.topics = @ \cup topics, !.queue = @ \o held, !.owed = @ \cup Messages(held)]

(* SUBSCRIBE: the topics are listed in the session, SUBACK is put, then    *)
(* the session is added to each topic and gets its retained message.  A    *)
(* SUBACK that does not fit closes the connection at the end; a retained   *)
(* message that does not fit stays in the queue of the session.            *)
Subscribe(c, ts, n) ==
    LET x == conn[c].ctx
        held == Filter([j \in 1 .. Len(ts) |-> retained[ts[j]]], Buffer)
        packets == <<Ctl>> \o held
        w == [World EXCEPT
                !.conn[c] = put(@, packets, n),
                !.ctx[x] = Listed(@, Range(ts), held),
                !.subs = add_client_context(@, x, Range(ts))]
    IN  /\ Request(c) /\ Connected(c)
        /\ Takes(conn[c], n) /\ n <= Len(packets)
        /\ Len(ctx[x].queue) + Len(held) <= MaxQueue
        /\ Becomes(IF Refused(conn[c], <<Ctl>>, IF n > 0 THEN 1 ELSE 0)
                   THEN handle_close(w, c) ELSE w)
        /\ UNCHANGED <<retained, last_id, parent, fault>>

(* UNSUBSCRIBE: the list of topics in the session is left as it is.        *)
Unsubscribe(c, ts, n) ==
    LET w == [World EXCEPT !.subs = del_client_context(@, conn[c].ctx, Range(ts))]
    IN  /\ Request(c) /\ Connected(c)
        /\ Takes(conn[c], n) /\ n <= 1
        /\ Becomes(Reply(w, c, <<Ctl>>, n))
        /\ UNCHANGED <<retained, last_id, parent, fault>>

(* PINGREQ: needs no session, but a PINGRESP that does not fit closes the  *)
(* connection, and closing one without a session reads a null pointer.     *)
Pingreq(c, n) ==
    /\ Request(c)
    /\ Takes(conn[c], n) /\ n <= 1
    /\ IF Refused(conn[c], <<Ctl>>, n) /\ conn[c].ctx = Null
       THEN Crash("null_context")
       ELSE Becomes(Reply(World, c, <<Ctl>>, n)) /\ UNCHANGED <<retained, last_id, parent, fault>>

(* DISCONNECT: the status is set and the connection closed.                *)
Disconnect(c) ==
    /\ Running /\ conn[c].open
    /\ \E w \in client_context(c) :
         Becomes(handle_close([w EXCEPT !.ctx[w.conn[c].ctx].status = "CS_DISCONNECTED"], c))
    /\ UNCHANGED <<retained, last_id, parent, fault>>

(* PUBLISH, SUBSCRIBE or UNSUBSCRIBE before CONNECT.                       *)
TooEarly(c) ==
    /\ Running /\ conn[c].open /\ ~Connected(c)
    /\ \E w \in client_context(c) : Becomes(handle_close(w, c))
    /\ UNCHANGED <<retained, last_id, parent, fault>>

(* The reactor closes a connection: the peer is gone, or a packet cannot   *)
(* be decoded or has an unknown type.                                      *)
Close(c) ==
    /\ Running /\ conn[c].open
    /\ IF conn[c].ctx = Null
       THEN Crash("null_context")
       ELSE Becomes(handle_close(World, c)) /\ UNCHANGED <<retained, last_id, parent, fault>>

(* store_client_info() closes the idle connections of registered sessions. *)
Idle(cs) == cs \subseteq {ctx[registry[i]].conn : i \in {j \in ClientId : registry[j] # Null}} \ {Null}

(* handle_close() of each of them, which are of different sessions.        *)
CloseIdle(cs) ==
    LET closed == {conn[c].ctx : c \in cs}
        cleaned == {x \in closed : ctx[x].clean}
    IN  [conn |-> [c \in Conn |-> IF c \in cs THEN Closed ELSE conn[c]],
         ctx |-> [x \in Ctx |-> IF x \in closed THEN [ctx[x] EXCEPT !.conn = Null] ELSE ctx[x]],
         registry |-> [i \in ClientId |-> IF \E x \in cleaned : ctx[x].id = i THEN Null ELSE registry[i]],
         subs |-> [t \in Topic |-> subs[t] \ {x \in cleaned : t \in ctx[x].topics}]]

IdleClose(cs) ==
    /\ Running /\ cs # {} /\ Idle(cs)
    /\ Becomes(CloseIdle(cs))
    /\ UNCHANGED <<retained, last_id, parent, fault>>

(* ::write() fails in put() or handle_output() of the connection's own     *)
(* handler: nonblk_send() closes and deletes the connection, and then the  *)
(* reactor goes on with the deleted object, for a failed put() by closing  *)
(* it again.                                                               *)
WriteError(c) ==
    /\ Running /\ conn[c].open
    /\ Crash(IF conn[c].ctx = Null THEN "null_context" ELSE "closed_twice")

Written(k, again) ==
    [k EXCEPT !.outq = IF again THEN @ ELSE Tail(@), !.sent = @ \o Expects(<<Head(k.outq)>>)]

(* EPOLLOUT: the first waiting packet is written.  It may stay queued      *)
(* although it was written, when errno is still EAGAIN; bound: once.       *)
HandleOutput(c, again) ==
    /\ Running /\ conn[c].outq # <<>>
    /\ again => Message(Head(conn[c].outq)) \notin Range(conn[c].sent)
    /\ conn' = [conn EXCEPT ![c] = Written(@, again)]
    /\ UNCHANGED <<ctx, registry, subs, retained, last_id, parent, fault>>

TopicList == UNION {[1 .. k -> Topic] : k \in 1 .. MaxFilter}
Taken == [Conn -> 0 .. Cardinality(Topic)]

(* What the reactor handles besides the store timer.                       *)
Event ==
    \/ \E c \in Conn :
         \/ \E n \in 0 .. SndBuf :
              \/ ConnectBadId(c, n) \/ Pingreq(c, n)
              \/ \E i \in ClientId, clean \in BOOLEAN :
                   ConnectNew(c, i, clean, n) \/ ConnectKnown(c, i, clean, n)
              \/ \E ts \in TopicList : Subscribe(c, ts, n) \/ Unsubscribe(c, ts, n)
         \/ \E t \in Topic, flag \in RetainFlag, n0 \in 0 .. 1, n \in Taken, failed \in SUBSET Conn :
              Publish(c, t, flag, n0, n, failed)
         \/ Accept(c) \/ Close(c) \/ WriteError(c) \/ TooEarly(c) \/ Disconnect(c)
         \/ Puback(c) \/ PubackFirst(c)
         \/ \E again \in BOOLEAN : HandleOutput(c, again)
    \/ \E t \in Topic, flag \in RetainFlag, n \in Taken, failed \in SUBSET Conn :
         NotifyHttp(t, flag, n, failed) \/ NotifyParent(t, flag, n, failed)

Next == Event \/ \E cs \in SUBSET Conn : IdleClose(cs)

Spec == Init /\ [][Next]_vars

-----------------------------------------------------------------------------
TypeOK ==
    /\ conn \in [Conn -> Connection]
    /\ ctx \in [Ctx -> Context]
    /\ registry \in [ClientId -> Ctx \cup {Null}]
    /\ subs \in [Topic -> SUBSET Ctx]
    /\ retained \in [Topic -> {-m : m \in Msg} \cup {0}]
    /\ last_id \in 0 .. MaxMsg /\ parent \in 0 .. MaxParent
    /\ fault \in {"none", "null_context", "closed_twice", "iterator"}

(* A session's m_mqtt_connection is never dangling: it is an open          *)
(* connection whose session it is, and every session of an open connection *)
(* points back to it, through takeovers, refusals and failed writes.       *)
LinkOK ==
    /\ \A x \in Ctx : ctx[x].conn # Null =>
         conn[ctx[x].conn].open /\ conn[ctx[x].conn].ctx = x
    /\ \A c \in Conn : conn[c].ctx # Null => conn[c].open /\ ctx[conn[c].ctx].conn = c

(* The registry only leads to sessions of that client id, and what it      *)
(* keeps of a client that is away is a persistent session.                 *)
RegistryOK ==
    \A i \in ClientId : registry[i] # Null =>
        /\ ctx[registry[i]].id = i
        /\ Online(registry[i]) \/ ~ctx[registry[i]].clean

(* handle_close() of a clean session leaves no subscription behind: the    *)
(* list in the session covers every topic that holds it.                   *)
CleanLeavesNoTrace ==
    \A t \in Topic : \A x \in subs[t] :
        /\ t \in ctx[x].topics
        /\ Online(x) \/ ~ctx[x].clean

(* A message leaves the queue of a session only when the client has        *)
(* acknowledged this very message: until then it is sent again after every *)
(* CONNECT, whatever the socket queue dropped.                             *)
NoLoss == \A x \in Ctx : ctx[x].owed \subseteq Messages(ctx[x].queue) \cup ctx[x].acked

-----------------------------------------------------------------------------
(* change.log:29, "implement qos = 1/offline message(send_message_queue)": *)
(* messages kept for a client that is away are found at its next CONNECT.  *)
OfflineFound ==
    \A x \in Ctx : ctx[x].queue # <<>> /\ ~Online(x) => registry[ctx[x].id] = x
=============================================================================

---------------------------- MODULE QueueProofs -----------------------------
(***************************************************************************)
(* Proofs about what the queues of the broker core hold, over one step.    *)
(*                                                                         *)
(* Every handler takes its buffers from the world before it, or from the   *)
(* message it delivers, and keeps what registered sessions have queued     *)
(* (Carried): it is a map of worlds that does (From, in SessionProofs).    *)
(***************************************************************************)
EXTENDS SessionProofs

(* Steps that change no session and no registration.                       *)
LEMMA QuietCarried ==
    ASSUME SInv, NEW n, UNCHANGED <<ctx, registry>>, Below(conn', ctx, n)
    PROVE  Carried(n)
  BY Zenon DEF Carried, KeepsQueues

LEMMA AcceptCarried ==
    ASSUME SInv, NEW n, Below(conn, ctx, n), NEW c \in Conn, Accept(c)
    PROVE  Carried(n)
  <1>1. conn \in [Conn -> Connection] /\ conn[c] \in Connection
    BY StateFacts, Zenon
  <1>2. conn' = [conn EXCEPT ![c] = [conn[c] EXCEPT !.open = TRUE]] /\ UNCHANGED <<ctx, registry>>
    BY Zenon DEF Accept
  <1>3. [conn[c] EXCEPT !.open = TRUE].outq = conn[c].outq
    BY DEF Connection
  <1>4. \A d \in Conn : conn'[d].outq = conn[d].outq
    BY <1>2
  <1>5. Below(conn', ctx, n)
    BY <1>4, Zenon DEF Below
  <1> QED BY <1>2, <1>5, QuietCarried, Zenon

LEMMA HandleOutputCarried ==
    ASSUME SInv, NEW n, Below(conn, ctx, n), NEW c \in Conn, NEW again \in BOOLEAN, HandleOutput(c, again)
    PROVE  Carried(n)
  <1> DEFINE k == conn[c]
             s == k.sent \o Expects(<<Head(k.outq)>>)
             o == IF again THEN k.outq ELSE Tail(k.outq)
  <1>1. conn \in [Conn -> Connection] /\ k \in Connection /\ k.outq # <<>> /\ k.outq \in Seq(Old(n))
    BY StateFacts, Zenon DEF HandleOutput, Below
  <1>2. conn' = [conn EXCEPT ![c] = Written(k, again)] /\ UNCHANGED <<ctx, registry>>
    BY Zenon DEF HandleOutput
  <1>3. o \in Seq(Old(n))
    BY <1>1
  <1>4. Written(k, again) = [k EXCEPT !.outq = o, !.sent = s]
    BY Zenon DEF Written
  <1> HIDE DEF k, s, o
  <1>5. Written(k, again).outq = o
    BY <1>4 DEF Connection
  <1>6. Below(conn', ctx, n)
    BY <1>2, <1>3, <1>5 DEF Below
  <1> QED BY <1>2, <1>6, QuietCarried, Zenon

LEMMA PubackCarried ==
    ASSUME SInv, NEW n, Below(conn, ctx, n), NEW c \in Conn, Puback(c)
    PROVE  Carried(n)
  <1> DEFINE k == conn[c]
             m == Head(k.sent)
             x == k.ctx
  <1>1. /\ conn \in [Conn -> Connection] /\ k \in Connection /\ ctx \in [Ctx -> Context]
        /\ k.sent # <<>>
    BY StateFacts, Zenon DEF Puback
  <1>2. /\ conn' = [conn EXCEPT ![c] = [k EXCEPT !.sent = Tail(k.sent)]]
        /\ ctx' = [ctx EXCEPT ![x] = Acknowledged(@, m)] /\ registry' = registry
    BY Zenon DEF Puback
  <1> HIDE DEF k
  <1>3. m \in Msg
    BY <1>1 DEF Connection
  <1> HIDE DEF m, x
  <1>4. [k EXCEPT !.sent = Tail(k.sent)].outq = k.outq
    BY DEF Connection
  <1>5. \A d \in Conn : conn'[d].outq = conn[d].outq
    BY <1>2 DEF k
  <1>6. ASSUME NEW y \in Ctx
        PROVE  /\ ctx'[y].queue \in Seq(Old(n))
               /\ UniqueIds => Messages(ctx[y].queue) \subseteq Messages(ctx'[y].queue) \cup ctx'[y].acked
    <2>1. CASE y # x
      <3>1. ctx'[y] = ctx[y]
        BY <1>2, <2>1
      <3> QED BY <3>1, Zenon DEF Below
    <2>2. CASE y = x
      <3> DEFINE q == ctx[y].queue
      <3>1. ctx[y] \in Context /\ ctx'[y] = Acknowledged(ctx[y], m)
        BY <1>1, <1>2, <2>2, Zenon
      <3>2. ctx'[y].queue = ack_msg(q, m) /\ ctx'[y].acked = ctx[y].acked \cup {m}
        BY <3>1, Zenon DEF Acknowledged, Context
      <3>3. q \in Seq(Buffer) /\ q \in Seq(Old(n))
        BY <3>1, ContextFields, Zenon DEF Below
      <3> HIDE DEF q
      <3>4. ack_msg(q, m) \in Seq(Old(n))
        BY <3>3 DEF ack_msg
      <3> QED BY <1>3, <3>2, <3>3, <3>4, AckMsg, Zenon DEF q
    <2> QED BY <2>1, <2>2, Zenon
  <1>7. Below(conn', ctx', n)
    BY <1>5, <1>6, Zenon DEF Below
  <1>8. \A i \in ClientId : registry[i] # Null => registry[i] \in Ctx
    BY StateFacts, Zenon
  <1> QED BY <1>2, <1>6, <1>7, <1>8, Zenon DEF Carried, KeepsQueues

-----------------------------------------------------------------------------
(* The handlers, one by one.                                               *)
LEMMA CloseCarried ==
    ASSUME SInv, SInv', NEW n, Below(conn, ctx, n), NEW w, WInv(w), From(World, w, n),
           NEW c \in Conn, w.conn[c].ctx \in Ctx, Becomes(handle_close(w, c))
    PROVE  Carried(n)
  <1>1. WInvBut(w, w.conn[c].ctx)
    BY NoException, Zenon DEF WInv, WInvBut
  <1>2. From(w, handle_close(w, c), n)
    BY <1>1, CloseFrom, Zenon
  <1>3. From(World, handle_close(w, c), n)
    BY <1>2, FromFrom, Zenon
  <1> QED BY <1>3, BecomesFrom, Zenon

LEMMA TooEarlyCarried ==
    ASSUME SInv, SInv', NEW n, Below(conn, ctx, n), NEW c \in Conn, TooEarly(c) \/ PubackFirst(c)
    PROVE  Carried(n)
  <1>1. conn[c].open
    BY Zenon DEF TooEarly, PubackFirst
  <1>2. PICK w \in client_context(c) : Becomes(handle_close(w, c)) \/ Becomes(w)
    BY Zenon DEF TooEarly, PubackFirst
  <1>3. WInv(w) /\ w.conn[c].ctx \in Ctx
    BY <1>1, ContextInv, Zenon DEF SInv
  <1>4. From(World, w, n)
    BY ContextFrom, Zenon
  <1> QED BY <1>2, <1>3, <1>4, CloseCarried, BecomesFrom, Zenon

LEMMA CloseStepCarried ==
    ASSUME SInv, SInv', NEW n, Below(conn, ctx, n), NEW c \in Conn, Close(c), conn[c].ctx # Null
    PROVE  Carried(n)
  <1>1. World.conn[c].ctx \in Ctx /\ WInv(World)
    BY StateFacts, WorldParts, Zenon DEF SInv
  <1>2. Becomes(handle_close(World, c))
    BY Zenon DEF Close
  <1> QED BY <1>1, <1>2, FromSelf, CloseCarried, Zenon

LEMMA DisconnectCarried ==
    ASSUME SInv, SInv', NEW n, Below(conn, ctx, n), NEW c \in Conn, Disconnect(c)
    PROVE  Carried(n)
  <1>1. PICK w \in client_context(c) : Becomes(handle_close(Quit(w, c), c))
    BY Zenon DEF Disconnect, Quit, WithCtx
  <1>2. WInv(w) /\ w.conn[c].ctx \in Ctx
    BY ContextInv, Zenon DEF SInv, Disconnect
  <1> DEFINE v == Quit(w, c)
  <1>3. /\ WInvBut(v, v.conn[c].ctx) /\ v.conn = w.conn /\ v.registry = w.registry
        /\ \A x \in Ctx : v.ctx[x].queue = w.ctx[x].queue
    BY <1>2, DisconnectWorld, Zenon
  <1>4. \A i \in ClientId : registry[i] # Null => registry[i] \in Ctx
    BY StateFacts, Zenon
  <1> HIDE DEF v
  <1>5. From(w, v, n)
    BY <1>3, <1>4, Zenon DEF From, Below
  <1>6. From(v, handle_close(v, c), n)
    BY <1>2, <1>3, CloseFrom, Zenon
  <1>7. From(World, w, n)
    BY ContextFrom, Zenon
  <1>8. From(World, handle_close(v, c), n)
    BY <1>5, <1>6, <1>7, FromFrom, Zenon
  <1> QED BY <1>1, <1>8, BecomesFrom, Zenon DEF v

LEMMA OneReplyOld ==
    ASSUME NEW n \in Nat
    PROVE  <<Ctl>> \in Seq(Old(n))
  BY OldFacts

LEMMA ReplyCarried ==
    ASSUME SInv, SInv', NEW n \in Nat, Below(conn, ctx, n), NEW w, WInv(w), From(World, w, n),
           NEW c \in Conn, NEW packets \in Seq(Buffer \cup {Ctl}), NEW j \in Nat, j <= Len(packets),
           packets \in Seq(Old(n)),
           Refused(w.conn[c], packets, j) => w.conn[c].ctx \in Ctx,
           Becomes(Reply(w, c, packets, j))
    PROVE  Carried(n)
  <1>1. From(w, Reply(w, c, packets, j), n)
    BY ReplyFrom, Zenon
  <1>2. From(World, Reply(w, c, packets, j), n)
    BY <1>1, FromFrom, Zenon
  <1> QED BY <1>2, BecomesFrom, Zenon

LEMMA PingreqCarried ==
    ASSUME SInv, SInv', NEW n \in Nat, Below(conn, ctx, n), NEW c \in Conn, NEW j \in Nat, Pingreq(c, j),
           ~(Refused(conn[c], <<Ctl>>, j) /\ conn[c].ctx = Null)
    PROVE  Carried(n)
  <1> DEFINE p == <<Ctl>>
  <1>1. p \in Seq(Buffer \cup {Ctl}) /\ j <= Len(p) /\ Becomes(Reply(World, c, p, j))
    BY DEF Pingreq
  <1>2. p \in Seq(Old(n))
    BY OneReplyOld, Zenon
  <1>3. Refused(World.conn[c], p, j) => World.conn[c].ctx \in Ctx
    BY StateFacts, WorldParts, Zenon
  <1>4. WInv(World) /\ From(World, World, n)
    BY FromSelf, Zenon DEF SInv
  <1> HIDE DEF p
  <1> QED BY <1>1, <1>2, <1>3, <1>4, ReplyCarried, Zenon

LEMMA UnsubscribeCarried ==
    ASSUME SInv, SInv', NEW n \in Nat, Below(conn, ctx, n), NEW c \in Conn, NEW ts, NEW j \in Nat,
           Unsubscribe(c, ts, j)
    PROVE  Carried(n)
  <1> DEFINE p == <<Ctl>>
             w == Unlisted(c, ts)
  <1>1. p \in Seq(Buffer \cup {Ctl}) /\ j <= Len(p) /\ Becomes(Reply(w, c, p, j)) /\ conn[c].ctx # Null
    BY UnsubscribeParts
  <1>2. p \in Seq(Old(n))
    BY OneReplyOld, Zenon
  <1>3. WInv(w) /\ w.conn = conn /\ w.ctx = ctx /\ w.registry = registry
    BY UnsubscribeWorld, Zenon
  <1> HIDE DEF p, w
  <1>4. From(World, w, n)
    BY <1>3, WorldParts, Zenon DEF From
  <1>5. w.conn[c].ctx \in Ctx
    BY <1>1, <1>3, StateFacts, Zenon
  <1> QED BY <1>1, <1>2, <1>3, <1>4, <1>5, ReplyCarried, Zenon

LEMMA ConnAckCarried ==
    ASSUME SInv, SInv', NEW n \in Nat, Below(conn, ctx, n), NEW w, WInv(w), From(World, w, n),
           NEW c \in Conn, NEW j \in Nat, w.conn[c].ctx \in Ctx, ConnAck(w, c, j)
    PROVE  Carried(n)
  <1> DEFINE q == w.ctx[w.conn[c].ctx].queue
             packets == <<Ctl>> \o q
  <1>1. Below(w.conn, w.ctx, n)
    BY WorldParts, Zenon DEF From
  <1>2. q \in Seq(Old(n))
    BY <1>1, Zenon DEF Below
  <1>3. j <= Len(packets) /\ Becomes(Reply(w, c, packets, j))
    BY Zenon DEF ConnAck
  <1> HIDE DEF q
  <1>4. packets \in Seq(Old(n))
    BY <1>2, OneReplyOld
  <1> HIDE DEF packets
  <1>5. packets \in Seq(Buffer \cup {Ctl})
    BY <1>4, OldFacts
  <1> QED BY <1>3, <1>4, <1>5, ReplyCarried, Zenon

LEMMA ConnectBadIdCarried ==
    ASSUME SInv, SInv', NEW n \in Nat, Below(conn, ctx, n), NEW c \in Conn, NEW j \in Nat, ConnectBadId(c, j)
    PROVE  Carried(n)
  <1>1. PICK w \in client_context(c) : ConnAck(w, c, j)
    BY Zenon DEF ConnectBadId
  <1>2. WInv(w) /\ w.conn[c].ctx \in Ctx
    BY ContextInv, Zenon DEF SInv, ConnectBadId, Request
  <1>3. From(World, w, n)
    BY ContextFrom, Zenon
  <1> QED BY <1>1, <1>2, <1>3, ConnAckCarried, Zenon

LEMMA ConnectNewCarried ==
    ASSUME SInv, SInv', NEW n \in Nat, Below(conn, ctx, n), NEW c \in Conn, NEW i \in ClientId,
           NEW clean \in BOOLEAN, NEW j \in Nat, ConnectNew(c, i, clean, j)
    PROVE  Carried(n)
  <1>1. Request(c) /\ ~Connected(c) /\ registry[i] = Null
    BY Zenon DEF ConnectNew
  <1>2. PICK w \in client_context(c) :
            ConnAck(Registered(init(w, c, w.conn[c].ctx, i, clean), i, w.conn[c].ctx), c, j)
    BY Zenon DEF ConnectNew, Registered
  <1> DEFINE x == w.conn[c].ctx
             v == Registered(init(w, c, x, i, clean), i, x)
  <1>3. WInv(w) /\ WInv(v) /\ v.conn[c].ctx = x /\ x \in Ctx
    BY <1>1, ConnectNewWorld
  <1>4. From(World, w, n)
    BY ContextFrom, Zenon
  <1>5. From(w, v, n)
    <2> HIDE DEF x
    <2> QED BY <1>1, <1>3, InitFrom, Zenon
  <1>6. ConnAck(v, c, j)
    BY <1>2, Zenon
  <1> HIDE DEF v, x
  <1>7. From(World, v, n)
    BY <1>4, <1>5, FromFrom, Zenon
  <1> QED BY <1>3, <1>6, <1>7, ConnAckCarried, Zenon

LEMMA ConnectKnownCarried ==
    ASSUME SInv, SInv', NEW n \in Nat, Below(conn, ctx, n), NEW c \in Conn, NEW i \in ClientId,
           NEW clean \in BOOLEAN, NEW j \in Nat, ConnectKnown(c, i, clean, j)
    PROVE  Carried(n)
  <1> DEFINE x == registry[i]
             last == ctx[x].conn
             w == Vacated(i)
             v == init(w, c, x, i, clean)
  <1>1. Request(c) /\ ~Connected(c) /\ x # Null /\ ConnAck(v, c, j)
    BY Zenon DEF ConnectKnown, Vacated
  <1>2. /\ WInv(w) /\ x \in Ctx /\ WInv(v) /\ v.conn[c].ctx = x
        /\ last # Null => last \in Conn /\ conn[last].ctx = x
    BY <1>1, ConnectKnownWorld, Zenon
  <1>3. w = IF last # Null THEN handle_close(World, last) ELSE World
    BY Zenon DEF Vacated
  <1> HIDE DEF w, last, x
  <1>4. From(World, w, n)
    <2>1. CASE last = Null
      BY <1>3, <2>1, FromSelf, Zenon
    <2>2. CASE last # Null
      <3>1. WInvBut(World, World.conn[last].ctx) /\ World.conn[last].ctx \in Ctx
        BY <1>2, <2>2, NoException, WorldParts, Zenon DEF SInv, WInv, WInvBut
      <3> QED BY <1>2, <1>3, <2>2, <3>1, CloseFrom, Zenon
    <2> QED BY <2>1, <2>2, Zenon
  <1>5. From(w, v, n)
    BY <1>2, InitFrom, Zenon
  <1> HIDE DEF v
  <1>6. From(World, v, n)
    BY <1>4, <1>5, FromFrom, Zenon
  <1> QED BY <1>1, <1>2, <1>6, ConnAckCarried, Zenon

(* A new subscriber is given the retained messages.                        *)
LEMMA HeldOld ==
    ASSUME SInv, NEW n \in Nat, \A t \in Topic : retained[t] \in Old(n), NEW ts \in TopicList
    PROVE  HeldFor(ts) \in Seq(Old(n)) /\ HeldFor(ts) \in Seq(Buffer) /\ Range(ts) \in SUBSET Topic
  <1> DEFINE r == [j \in 1 .. Len(ts) |-> retained[ts[j]]]
  <1>1. PICK k \in 1 .. MaxFilter : ts \in [1 .. k -> Topic]
    BY Zenon DEF TopicList
  <1>2. k \in Nat /\ Len(ts) = k
    BY <1>1
  <1>3. r \in [1 .. k -> Old(n)]
    BY <1>1
  <1> HIDE DEF r
  <1>4. r \in Seq(Old(n))
    BY <1>3
  <1>5. Filter(r, Buffer) \in Seq(Old(n) \cap Buffer)
    BY <1>4, FilterProperties, Zenon
  <1>6. Filter(r, Buffer) \in Seq(Old(n))
    BY <1>5
  <1> QED BY <1>6, RetainedBuffers, Zenon DEF r, HeldFor

LEMMA ListedQueue ==
    ASSUME NEW k \in Context, NEW T, NEW l
    PROVE  Listed(k, T, l).queue = k.queue \o l
  BY Zenon DEF Listed, Context

LEMMA SubscribeCarried ==
    ASSUME SInv, SInv', NEW n \in Nat, Below(conn, ctx, n), \A t \in Topic : retained[t] \in Old(n),
           NEW c \in Conn, NEW ts \in TopicList, NEW j \in Nat, Subscribe(c, ts, j)
    PROVE  Carried(n)
  <1> DEFINE x == conn[c].ctx
             l == HeldFor(ts)
             packets == <<Ctl>> \o l
             k == put(conn[c], packets, j)
             y == Listed(ctx[x], Range(ts), l)
             w == Subscribed(c, ts, j)
  <1>1. /\ j <= Len(packets) /\ Connected(c)
        /\ Becomes(IF Refused(conn[c], <<Ctl>>, IF j > 0 THEN 1 ELSE 0) THEN handle_close(w, c) ELSE w)
    BY SubscribeParts, Zenon
  <1>2. /\ WInv(w) /\ w.conn[c].ctx # Null /\ w.registry = registry
        /\ w.conn = [conn EXCEPT ![c] = k] /\ w.ctx = [ctx EXCEPT ![x] = y]
    <2>1. j <= Len(<<Ctl>> \o HeldFor(ts)) /\ Connected(c)
      BY <1>1, Zenon
    <2> HIDE DEF l, packets, k, y, w, x
    <2>2. /\ WInv(Subscribed(c, ts, j)) /\ Subscribed(c, ts, j).conn[c].ctx # Null
          /\ Subscribed(c, ts, j).conn = [conn EXCEPT ![c] = put(conn[c], <<Ctl>> \o HeldFor(ts), j)]
          /\ Subscribed(c, ts, j).ctx
               = [ctx EXCEPT ![conn[c].ctx] = Listed(ctx[conn[c].ctx], Range(ts), HeldFor(ts))]
          /\ Subscribed(c, ts, j).registry = registry
      BY <2>1, SubscribeWorld
    <2> QED BY <2>2, Zenon DEF w, x, y, k, packets, l
  <1>3. conn \in [Conn -> Connection] /\ ctx \in [Ctx -> Context] /\ x \in Ctx
    BY <1>1, StateFacts, Zenon DEF Connected
  <1>4. l \in Seq(Old(n)) /\ l \in Seq(Buffer)
    BY HeldOld, Zenon
  <1> HIDE DEF l, w
  <1>5. packets \in Seq(Old(n))
    BY <1>4, OneReplyOld
  <1> HIDE DEF packets
  <1>6. k.outq \in Seq(Old(n))
    BY <1>1, <1>3, <1>5, PutOld, Zenon DEF Below
  <1>7. y.queue \in Seq(Old(n)) /\ Messages(ctx[x].queue) \subseteq Messages(y.queue)
    <2>1. ctx[x] \in Context /\ ctx[x].queue \in Seq(Old(n))
      BY <1>3, Zenon DEF Below
    <2>2. ctx[x].queue \in Seq(Buffer)
      BY <2>1, ContextFields, Zenon
    <2>3. y.queue = ctx[x].queue \o l
      BY <2>1, ListedQueue, Zenon
    <2>4. Messages(ctx[x].queue) \subseteq Messages(y.queue)
      BY <1>4, <2>2, <2>3, MessagesConcat, Zenon
    <2>5. ctx[x].queue \o l \in Seq(Old(n))
      BY <1>4, <2>1
    <2> HIDE DEF y
    <2> QED BY <2>3, <2>4, <2>5, Zenon
  <1> HIDE DEF k, y
  <1>8. Below(w.conn, w.ctx, n)
    BY <1>2, <1>3, <1>6, <1>7, Zenon DEF Below
  <1>9. \A i \in ClientId : registry[i] # Null => registry[i] \in Ctx
    BY StateFacts, Zenon
  <1>10. \A z \in Ctx : Messages(ctx[z].queue) \subseteq Messages(w.ctx[z].queue)
    BY <1>2, <1>3, <1>7, Zenon
  <1>11. From(World, w, n)
    BY <1>2, <1>8, <1>9, <1>10, WorldParts, Zenon DEF From
  <1>12. w.conn[c].ctx \in Ctx
    BY <1>2 DEF WInv, WInvBut, Coherent, Connection
  <1> QED BY <1>1, <1>2, <1>11, <1>12, CloseCarried, BecomesFrom, Zenon

(* PUBLISH and the notified messages.                                      *)
LEMMA RetainOld ==
    ASSUME SInv, NEW n \in Nat, NEW p \in Nat, n <= p, \A t \in Topic : retained[t] \in Old(n),
           NEW t \in Topic, NEW flag \in RetainFlag, NEW m \in Msg, m \in Own => m <= p
    PROVE  \A u \in Topic : Retain(t, flag, m)[u] \in Old(p)
  <1>1. retained \in [Topic -> {-k : k \in Msg} \cup {0}]
    BY Zenon DEF SInv, Rest
  <1>2. -m \in Old(p) /\ 0 \in Old(p) /\ \A u \in Topic : retained[u] \in Old(p)
    BY OldFacts, Zenon DEF Ctl
  <1>3. Retain(t, flag, m)[t] \in {retained[t], -m, 0}
    BY DEF Retain, RetainFlag
  <1>4. \A u \in Topic : u # t => Retain(t, flag, m)[u] = retained[u]
    BY DEF Retain
  <1> QED BY <1>2, <1>3, <1>4, Zenon

LEMMA PublishCarried ==
    ASSUME SInv, SInv', Below(conn, ctx, last_id), \A t \in Topic : retained[t] \in Old(last_id),
           NEW c \in Conn, NEW t \in Topic, NEW flag \in RetainFlag, NEW n0 \in 0 .. 1,
           NEW n \in Taken, NEW failed \in SUBSET Conn, Publish(c, t, flag, n0, n, failed),
           ~IteratorLost(Answered(c, n0), failed)
    PROVE  Carried(last_id') /\ \A u \in Topic : retained'[u] \in Old(last_id')
  <1> DEFINE p == last_id + 1
             w == Answered(c, n0)
             v == Fanout(w, p, Copies(t), n, failed)
             one == <<Ctl>>
  <1>1. /\ last_id < MaxMsg /\ conn[c].ctx # Null /\ Possible(w, Copies(t), n, failed, c)
        /\ Becomes(IF Refused(conn[c], <<Ctl>>, n0) THEN handle_close(v, c) ELSE v)
        /\ retained' = Retain(t, flag, p) /\ last_id' = p
    BY PublishParts, Zenon
  <1>2. last_id \in Nat /\ p \in Nat /\ last_id <= p
    BY DEF SInv, Rest
  <1>3. p \in Msg /\ WInv(v) /\ v.conn[c].ctx # Null
    BY <1>1, PublishWorld, Zenon
  <1>4. WInv(w) /\ LinkedIn(w)
    BY AnsweredWorld, Zenon
  <1>5. n0 \in Nat /\ n0 <= Len(one) /\ one \in Seq(Buffer \cup {Ctl}) /\ w = PutOn(World, c, one, n0)
    BY OneReply DEF Answered
  <1>6. one \in Seq(Old(p)) /\ p \in Old(p)
    BY <1>2, <1>3, OneReplyOld, OldFacts
  <1>7. Below(conn, ctx, p)
    BY <1>2, BelowMono, Zenon
  <1>8. \A u \in Topic : retained'[u] \in Old(p)
    BY <1>1, <1>2, <1>3, RetainOld
  <1> HIDE DEF p, w, one
  <1>9. From(World, w, p)
    BY <1>2, <1>5, <1>6, PutFrom, Zenon DEF SInv
  <1>10. Copies(t) \in [Ctx -> Nat] /\ n \in [Conn -> Nat]
    BY CopiesType, TakenType, Zenon
  <1>11. From(w, v, p)
    BY <1>1, <1>2, <1>3, <1>4, <1>6, <1>10, FanoutFrom, Zenon
  <1> HIDE DEF v
  <1>12. From(World, v, p)
    BY <1>9, <1>11, FromFrom, Zenon
  <1>13. v.conn[c].ctx \in Ctx
    BY <1>3, Zenon DEF WInv, WInvBut, Coherent, Connection
  <1>14. Carried(p)
    BY <1>1, <1>3, <1>7, <1>12, <1>13, CloseCarried, BecomesFrom, Zenon
  <1> QED BY <1>1, <1>8, <1>14, Zenon

LEMMA NotifiedCarried ==
    ASSUME SInv, SInv', Below(conn, ctx, last_id), \A t \in Topic : retained[t] \in Old(last_id),
           NEW t \in Topic, NEW flag \in RetainFlag, NEW n \in Taken, NEW failed \in SUBSET Conn,
           NEW m \in Msg, m \in Own => m = last_id + 1,
           Notified(m, t, flag, n, failed), ~IteratorLost(World, failed)
    PROVE  Carried(last_id') /\ \A u \in Topic : retained'[u] \in Old(last_id')
  <1> DEFINE p == IF m \in Own THEN m ELSE last_id
             copies == IF Mode = 0 THEN Copies(t) ELSE AllCopies
             v == Fanout(World, m, copies, n, failed)
  <1>1. /\ Possible(World, copies, n, failed, Null) /\ Becomes(v) /\ last_id' = p
        /\ retained' = IF Mode = 0 THEN Retain(t, flag, m) ELSE retained
    BY Zenon DEF Notified
  <1>2. last_id \in Nat /\ p \in Nat /\ last_id <= p /\ (m \in Own => m <= p)
    BY DEF SInv, Rest
  <1>3. copies \in [Ctx -> Nat] /\ n \in [Conn -> Nat]
    BY CopiesType, TakenType, Zenon
  <1> HIDE DEF p, copies
  <1>4. m \in Old(p) /\ \A u \in Topic : retained[u] \in Old(p)
    BY <1>2, OldFacts, Zenon
  <1>5. Below(conn, ctx, p)
    BY <1>2, BelowMono, Zenon
  <1>6. \A u \in Topic : Retain(t, flag, m)[u] \in Old(p)
    BY <1>2, RetainOld, Zenon
  <1>7. LinkedIn(World) /\ WInv(World)
    BY WorldParts, Zenon DEF SInv, Linked, LinkedIn
  <1>8. From(World, v, p)
    BY <1>1, <1>2, <1>3, <1>4, <1>7, FanoutFrom, Zenon
  <1> HIDE DEF v
  <1>9. Carried(p)
    BY <1>1, <1>5, <1>8, BecomesFrom, Zenon
  <1>10. \A u \in Topic : retained'[u] \in Old(p)
    BY <1>1, <1>4, <1>6, Zenon
  <1> QED BY <1>1, <1>9, <1>10, Zenon

-----------------------------------------------------------------------------
LEMMA FreshSame ==
    ASSUME Fresh, UNCHANGED <<retained, last_id>>, Carried(last_id)
    PROVE  Fresh' /\ KeepsQueues
  BY Zenon DEF Fresh, Carried

LEMMA EmptyFresh ==
    /\ Below(NoConn, NoCtx, 0)
    /\ \A t \in Topic : NoRetained[t] \in Old(0)
  <1>1. Closed.outq = <<>> /\ Freed.queue = <<>>
    BY Zenon DEF Closed, Freed, NewContext
  <1>2. <<>> \in Seq(Old(0))
    OBVIOUS
  <1>3. 0 \in Old(0)
    BY OldFacts, Zenon DEF Ctl
  <1> QED BY <1>1, <1>2, <1>3, Zenon DEF Below, NoConn, NoCtx, NoRetained

LEMMA CrashFresh ==
    ASSUME NEW why, Crash(why)
    PROVE  Fresh'
  BY EmptyFresh, Zenon DEF Crash, Fresh

(* Every event leaves the broker with old buffers only, and the sessions   *)
(* that stay registered with what they had queued.                         *)
LEMMA EventCarried ==
    ASSUME SInv, SInv', Fresh, Event
    PROVE  Fresh' /\ (fault' = "none" => KeepsQueues)
  <1> DEFINE Goal == Fresh' /\ (fault' = "none" => KeepsQueues)
  <1>1. last_id \in Nat /\ Below(conn, ctx, last_id) /\ \A t \in Topic : retained[t] \in Old(last_id)
    BY DEF SInv, Rest, Fresh
  <1>2. Carried(last_id) /\ UNCHANGED <<retained, last_id>> => Goal
    BY FreshSame, Zenon
  <1>3. Carried(last_id') /\ (\A t \in Topic : retained'[t] \in Old(last_id')) => Goal
    BY Zenon DEF Fresh, Carried
  <1>4. ASSUME NEW why \in {"null_context", "closed_twice", "iterator"}, Crash(why) PROVE Goal
    <2>1. fault' # "none"
      BY <1>4, Zenon DEF Crash
    <2> QED BY <1>4, <2>1, CrashFresh, Zenon
  <1> HIDE DEF Goal
  <1>5. ASSUME NEW c \in Conn, NEW n \in 0 .. SndBuf, ConnectBadId(c, n) PROVE Goal
    <2>1. n \in Nat /\ UNCHANGED <<retained, last_id>>
      BY <1>5, SizeAssumption DEF ConnectBadId, ConnAck
    <2> QED BY <1>1, <1>2, <1>5, <2>1, ConnectBadIdCarried, Zenon
  <1>6. ASSUME NEW c \in Conn, NEW n \in 0 .. SndBuf, Pingreq(c, n) PROVE Goal
    <2>1. n \in Nat
      OBVIOUS
    <2>2. CASE Refused(conn[c], <<Ctl>>, n) /\ conn[c].ctx = Null
      BY <1>4, <1>6, <2>2, Zenon DEF Pingreq
    <2>3. CASE ~(Refused(conn[c], <<Ctl>>, n) /\ conn[c].ctx = Null)
      <3>1. UNCHANGED <<retained, last_id>>
        BY <1>6, <2>3, Zenon DEF Pingreq
      <3>2. Carried(last_id)
        BY <1>1, <1>6, <2>3, PingreqCarried
      <3> QED BY <1>2, <3>1, <3>2, Zenon
    <2> QED BY <2>2, <2>3, Zenon
  <1>7. ASSUME NEW c \in Conn, NEW n \in 0 .. SndBuf, NEW i \in ClientId, NEW clean \in BOOLEAN,
               ConnectNew(c, i, clean, n) \/ ConnectKnown(c, i, clean, n)
        PROVE  Goal
    <2>1. n \in Nat
      OBVIOUS
    <2>2. UNCHANGED <<retained, last_id>>
      BY <1>7, Zenon DEF ConnectNew, ConnectKnown, ConnAck
    <2>3. Carried(last_id)
      BY <1>1, <1>7, <2>1, ConnectNewCarried, ConnectKnownCarried, Zenon
    <2> QED BY <1>2, <2>2, <2>3, Zenon
  <1>8. ASSUME NEW c \in Conn, NEW n \in 0 .. SndBuf, NEW ts \in TopicList,
               Subscribe(c, ts, n) \/ Unsubscribe(c, ts, n)
        PROVE  Goal
    <2>1. n \in Nat
      OBVIOUS
    <2>2. UNCHANGED <<retained, last_id>>
      BY <1>8, Zenon DEF Subscribe, Unsubscribe
    <2>3. Carried(last_id)
      BY <1>1, <1>8, <2>1, SubscribeCarried, UnsubscribeCarried, Zenon
    <2> QED BY <1>2, <2>2, <2>3, Zenon
  <1>9. ASSUME NEW c \in Conn, NEW t \in Topic, NEW flag \in RetainFlag, NEW n0 \in 0 .. 1,
               NEW n \in Taken, NEW failed \in SUBSET Conn, Publish(c, t, flag, n0, n, failed)
        PROVE  Goal
    <2>1. CASE IteratorLost(Answered(c, n0), failed)
      <3>1. Crash("iterator")
        BY <1>9, <2>1, Zenon DEF Publish, Answered, PutOn
      <3> QED BY <1>4, <3>1, Zenon
    <2>2. CASE ~IteratorLost(Answered(c, n0), failed)
      BY <1>1, <1>3, <1>9, <2>2, PublishCarried, Zenon
    <2> QED BY <2>1, <2>2, Zenon
  <1>10. ASSUME NEW c \in Conn, Close(c) PROVE Goal
    <2>1. CASE conn[c].ctx = Null
      BY <1>4, <1>10, <2>1, Zenon DEF Close
    <2>2. CASE conn[c].ctx # Null
      <3>1. UNCHANGED <<retained, last_id>>
        BY <1>10, <2>2, Zenon DEF Close
      <3> QED BY <1>1, <1>2, <1>10, <2>2, <3>1, CloseStepCarried, Zenon
    <2> QED BY <2>1, <2>2, Zenon
  <1>11. ASSUME NEW c \in Conn, WriteError(c) PROVE Goal
    BY <1>4, <1>11, Zenon DEF WriteError
  <1>12. ASSUME NEW c \in Conn, TooEarly(c) \/ PubackFirst(c) PROVE Goal
    <2>1. UNCHANGED <<retained, last_id>>
      BY <1>12, Zenon DEF TooEarly, PubackFirst
    <2> QED BY <1>1, <1>2, <1>12, <2>1, TooEarlyCarried, Zenon
  <1>13. ASSUME NEW c \in Conn, Disconnect(c) PROVE Goal
    <2>1. UNCHANGED <<retained, last_id>>
      BY <1>13, Zenon DEF Disconnect
    <2> QED BY <1>1, <1>2, <1>13, <2>1, DisconnectCarried, Zenon
  <1>14. ASSUME NEW c \in Conn, Accept(c) \/ Puback(c) PROVE Goal
    <2>1. UNCHANGED <<retained, last_id>>
      BY <1>14, Zenon DEF Accept, Puback
    <2> QED BY <1>1, <1>2, <1>14, <2>1, AcceptCarried, PubackCarried, Zenon
  <1>15. ASSUME NEW c \in Conn, NEW again \in BOOLEAN, HandleOutput(c, again) PROVE Goal
    <2>1. UNCHANGED <<retained, last_id>>
      BY <1>15, Zenon DEF HandleOutput
    <2> QED BY <1>1, <1>2, <1>15, <2>1, HandleOutputCarried, Zenon
  <1>16. ASSUME NEW t \in Topic, NEW flag \in RetainFlag, NEW n \in Taken, NEW failed \in SUBSET Conn,
                NotifyHttp(t, flag, n, failed) \/ NotifyParent(t, flag, n, failed)
         PROVE  Goal
    <2>1. PICK m \in Msg : (m \in Own => m = last_id + 1) /\ Notified(m, t, flag, n, failed)
      <3>1. CASE NotifyHttp(t, flag, n, failed)
        <4>1. last_id + 1 \in Msg
          BY <3>1, SizeAssumption DEF NotifyHttp, SInv, Rest, Msg
        <4> QED BY <3>1, <4>1, Zenon DEF NotifyHttp
      <3>2. CASE NotifyParent(t, flag, n, failed)
        <4>1. MaxMsg + parent + 1 \in Msg /\ MaxMsg + parent + 1 \notin Own
          BY <3>2, SizeAssumption DEF NotifyParent, SInv, Rest, Msg, Own
        <4> QED BY <3>2, <4>1, Zenon DEF NotifyParent
      <3> QED BY <1>16, <3>1, <3>2, Zenon
    <2>2. CASE IteratorLost(World, failed)
      <3>1. Crash("iterator")
        BY <2>1, <2>2, Zenon DEF Notified
      <3> QED BY <1>4, <3>1, Zenon
    <2>3. CASE ~IteratorLost(World, failed)
      BY <1>1, <1>3, <2>1, <2>3, NotifiedCarried, Zenon
    <2> QED BY <2>2, <2>3, Zenon
  <1>17. Goal
    BY <1>5, <1>6, <1>7, <1>8, <1>9, <1>10, <1>11, <1>12, <1>13, <1>14, <1>15, <1>16, Zenon DEF Event
  <1> QED BY <1>17, Zenon DEF Goal

=============================================================================

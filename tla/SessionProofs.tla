--------------------------- MODULE SessionProofs ----------------------------
(***************************************************************************)
(* The broker core keeps its invariant: every handler of the reactor       *)
(* thread maps a coherent world (WorldLemmas) to one.  From this follow,   *)
(* for any number of connections, sessions, client ids, topics and         *)
(* messages, the safety properties of Session.  The last part is about     *)
(* what the queues hold, for the maps that handlers are composed of.       *)
(***************************************************************************)
EXTENDS SessionLemmas

(* UNSUBSCRIBE takes a session out of the lists of some topics.            *)
Unlisted(c, ts) == WithSubs(World, del_client_context(subs, conn[c].ctx, Range(ts)))

LEMMA UnsubscribeWorld ==
    ASSUME SInv, NEW c \in Conn, NEW ts
    PROVE  /\ WInv(Unlisted(c, ts)) /\ Unlisted(c, ts).conn = conn /\ Unlisted(c, ts).ctx = ctx
           /\ Unlisted(c, ts).registry = registry
  <1> DEFINE vs == del_client_context(subs, conn[c].ctx, Range(ts))
             w == Unlisted(c, ts)
  <1>1. w = WithSubs(World, vs)
    BY Zenon DEF Unlisted
  <1>2. vs \in [Topic -> SUBSET Ctx] /\ \A t \in Topic : vs[t] \subseteq subs[t]
    BY StateFacts, Zenon DEF del_client_context
  <1> HIDE DEF vs, w
  <1>3. Update(conn, ctx, subs, {}, conn, ctx, vs)
    BY <1>2, StateFacts, Zenon DEF Update
  <1>4. Coherent(conn, ctx, registry, vs, Null)
    BY <1>3, StateFacts, UpdateCoherent, Zenon
  <1>5. IsWorld(w) /\ w.conn = conn /\ w.ctx = ctx /\ w.registry = registry /\ w.subs = vs
    BY <1>1, WorldParts, WorldExcept
  <1> QED BY <1>4, <1>5, Zenon DEF WInv, WInvBut, w

LEMMA UnsubscribeParts ==
    ASSUME NEW c, NEW ts, NEW n, Unsubscribe(c, ts, n)
    PROVE  /\ Becomes(Reply(Unlisted(c, ts), c, <<Ctl>>, n)) /\ n <= 1 /\ conn[c].ctx # Null
           /\ UNCHANGED <<retained, last_id, parent, fault>>
  <1>1. [World EXCEPT !.subs = del_client_context(@, conn[c].ctx, Range(ts))] = Unlisted(c, ts)
    BY WorldParts, Zenon DEF WithSubs, Unlisted
  <1> QED BY <1>1, Zenon DEF Unsubscribe, Connected

LEMMA UnsubscribeInv ==
    ASSUME SInv, NEW c \in Conn, NEW ts, NEW n \in Nat, Unsubscribe(c, ts, n)
    PROVE  SInv'
  <1>1. WInv(Reply(Unlisted(c, ts), c, <<Ctl>>, n))
    <2>1. n <= Len(<<Ctl>>)
      BY UnsubscribeParts, Zenon
    <2> QED BY <2>1, UnsubscribeParts, UnsubscribeWorld, OneReply, ReplyInv, Zenon
  <1> QED BY <1>1, UnsubscribeParts, BecomesStep, RestSame, Zenon

LEMMA ListedContext ==
    ASSUME NEW k \in Context, NEW T, T \subseteq Topic, NEW l \in Seq(Buffer)
    PROVE  /\ Listed(k, T, l) \in Context
           /\ Listed(k, T, l).conn = k.conn /\ Listed(k, T, l).status = k.status
           /\ Listed(k, T, l).id = k.id /\ Listed(k, T, l).clean = k.clean
           /\ \A t \in Topic : t \in Listed(k, T, l).topics <=> t \in k.topics \/ t \in T
           /\ Keeps(k) => Keeps(Listed(k, T, l))
  <1> DEFINE t == k.topics \cup T
             q == k.queue \o l
             o == k.owed \cup Messages(l)
             k1 == [k EXCEPT !.topics = t]
             k2 == [k1 EXCEPT !.queue = q]
             v == Listed(k, T, l)
  <1>1. k.topics \subseteq Topic /\ k.queue \in Seq(Buffer) /\ k.owed \subseteq Msg
    BY ContextFields, Zenon
  <1>2. t \in SUBSET Topic /\ q \in Seq(Buffer) /\ o \in SUBSET Msg
    BY <1>1, MessagesType
  <1>3. Messages(q) = Messages(k.queue) \cup Messages(l)
    BY <1>1, MessagesConcat, Zenon
  <1>4. v = [k2 EXCEPT !.owed = o]
    BY Zenon DEF Listed, Context
  <1>5. o \subseteq k.owed \cup Messages(l)
    BY Zenon
  <1> HIDE DEF q, o, v
  <1>6. k1 \in Context /\ k1.topics = t /\ k1.conn = k.conn /\ k1.status = k.status /\ k1.id = k.id
        /\ k1.clean = k.clean /\ k1.acked = k.acked
    BY Zenon DEF Context
  <1> HIDE DEF k1, t
  <1>7. k2 \in Context /\ k2.topics = t /\ k2.queue = q /\ k2.conn = k.conn /\ k2.status = k.status
        /\ k2.id = k.id /\ k2.clean = k.clean /\ k2.acked = k.acked
    BY <1>2, <1>6, Zenon DEF Context
  <1> HIDE DEF k2
  <1>8. v \in Context /\ v.topics = t /\ v.queue = q /\ v.conn = k.conn /\ v.status = k.status
        /\ v.id = k.id /\ v.clean = k.clean /\ v.acked = k.acked /\ v.owed = o
    BY <1>2, <1>4, <1>7, Zenon DEF Context
  <1>9. Keeps(k) => Keeps(v)
    BY <1>3, <1>5, <1>8, Zenon DEF Keeps
  <1>10. \A z \in Topic : z \in t <=> z \in k.topics \/ z \in T
    BY Zenon DEF t
  <1> QED BY <1>8, <1>9, <1>10, Zenon DEF v

LEMMA RetainedBuffers ==
    ASSUME SInv, NEW ts \in TopicList
    PROVE  /\ Range(ts) \in SUBSET Topic
           /\ Filter([j \in 1 .. Len(ts) |-> retained[ts[j]]], Buffer) \in Seq(Buffer)
  <1> DEFINE r == [j \in 1 .. Len(ts) |-> retained[ts[j]]]
  <1>1. PICK k \in 1 .. MaxFilter : ts \in [1 .. k -> Topic]
    BY Zenon DEF TopicList
  <1>2. k \in Nat /\ ts \in Seq(Topic) /\ Len(ts) = k /\ Range(ts) \in SUBSET Topic
    BY <1>1 DEF Range
  <1>3. \A j \in 1 .. Len(ts) : retained[ts[j]] \in Buffer \cup {0}
    BY <1>1 DEF SInv, Rest, Buffer
  <1>4. r \in [1 .. k -> Buffer \cup {0}]
    BY <1>2, <1>3, Zenon
  <1> HIDE DEF r
  <1>5. r \in Seq(Buffer \cup {0})
    BY <1>4
  <1>6. Filter(r, Buffer) \in Seq((Buffer \cup {0}) \cap Buffer)
    BY <1>5, FilterProperties, Zenon
  <1>7. Filter(r, Buffer) \in Seq(Buffer)
    BY <1>6, Zenon
  <1> QED BY <1>2, <1>7, Zenon DEF r

(* The retained messages of the topics, and the world after SUBACK.        *)
HeldFor(ts) == Filter([j \in 1 .. Len(ts) |-> retained[ts[j]]], Buffer)

Subscribed(c, ts, n) ==
    WithSubs(WithCtx(WithConn(World, [conn EXCEPT ![c] = put(@, <<Ctl>> \o HeldFor(ts), n)]),
                     [ctx EXCEPT ![conn[c].ctx] = Listed(@, Range(ts), HeldFor(ts))]),
             add_client_context(subs, conn[c].ctx, Range(ts)))

LEMMA SubscribeParts ==
    ASSUME NEW c, NEW ts, NEW n, Subscribe(c, ts, n)
    PROVE  /\ n <= Len(<<Ctl>> \o HeldFor(ts)) /\ Connected(c)
           /\ Becomes(IF Refused(conn[c], <<Ctl>>, IF n > 0 THEN 1 ELSE 0)
                      THEN handle_close(Subscribed(c, ts, n), c) ELSE Subscribed(c, ts, n))
           /\ UNCHANGED <<retained, last_id, parent, fault>>
  <1>1. Subscribed(c, ts, n) =
            [World EXCEPT
                !.conn[c] = put(@, <<Ctl>> \o HeldFor(ts), n),
                !.ctx[conn[c].ctx] = Listed(@, Range(ts), HeldFor(ts)),
                !.subs = add_client_context(@, conn[c].ctx, Range(ts))]
    BY Zenon DEF World, WithSubs, WithCtx, WithConn, Subscribed
  <1> QED BY <1>1, Zenon DEF Subscribe, HeldFor

LEMMA SubscribeWorld ==
    ASSUME SInv, NEW c \in Conn, NEW ts \in TopicList, NEW n \in Nat,
           n <= Len(<<Ctl>> \o HeldFor(ts)), Connected(c)
    PROVE  /\ WInv(Subscribed(c, ts, n)) /\ Subscribed(c, ts, n).conn[c].ctx # Null
           /\ Subscribed(c, ts, n).conn = [conn EXCEPT ![c] = put(@, <<Ctl>> \o HeldFor(ts), n)]
           /\ Subscribed(c, ts, n).ctx = [ctx EXCEPT ![conn[c].ctx] = Listed(@, Range(ts), HeldFor(ts))]
           /\ Subscribed(c, ts, n).registry = registry
  <1> DEFINE x == conn[c].ctx
             T == Range(ts)
             held == HeldFor(ts)
             packets == <<Ctl>> \o held
             vn == [conn EXCEPT ![c] = put(@, packets, n)]
             vx == [ctx EXCEPT ![x] = Listed(@, T, held)]
             vs == add_client_context(subs, x, T)
             w == WithSubs(WithCtx(WithConn(World, vn), vx), vs)
  <1>1. n <= Len(packets) /\ conn[c].open /\ x # Null /\ ctx[x].status = "CS_CONNECTED"
    BY Zenon DEF Connected
  <1>2. w = Subscribed(c, ts, n)
    BY Zenon DEF Subscribed
  <1>3. T \in SUBSET Topic /\ held \in Seq(Buffer)
    BY RetainedBuffers, Zenon DEF HeldFor
  <1>4. packets \in Seq(Buffer \cup {Ctl})
    <2> HIDE DEF held
    <2>1. held \in Seq(Buffer \cup {Ctl})
      BY <1>3
    <2> QED BY <2>1
  <1>5. /\ conn \in [Conn -> Connection] /\ ctx \in [Ctx -> Context] /\ subs \in [Topic -> SUBSET Ctx]
        /\ x \in Ctx /\ \A y \in Ctx : Keeps(ctx[y])
        /\ ctx[x].conn = c
    BY <1>1, StateFacts, Zenon DEF Coherent
  <1> HIDE DEF held, packets, T
  <1>6. vn \in [Conn -> Connection] /\ \A d \in Conn : vn[d].open = conn[d].open /\ vn[d].ctx = conn[d].ctx
    <2>1. /\ put(conn[c], packets, n) \in Connection /\ put(conn[c], packets, n).open = conn[c].open
          /\ put(conn[c], packets, n).ctx = conn[c].ctx
      BY <1>1, <1>4, <1>5, PutType, Zenon
    <2> QED BY <1>5, <2>1, Zenon
  <1> HIDE DEF x
  <1>7. /\ vx \in [Ctx -> Context]
        /\ \A y \in Ctx : /\ vx[y].conn = ctx[y].conn /\ vx[y].status = ctx[y].status
                          /\ vx[y].id = ctx[y].id /\ vx[y].clean = ctx[y].clean
                          /\ ctx[y].topics \subseteq vx[y].topics /\ Keeps(vx[y])
        /\ T \subseteq vx[x].topics
    <2>1. ctx[x] \in Context /\ Keeps(ctx[x]) /\ T \subseteq Topic /\ held \in Seq(Buffer)
      BY <1>3, <1>5, Zenon
    <2> HIDE DEF vx, vn, vs, w
    <2>2. /\ Listed(ctx[x], T, held) \in Context
          /\ Listed(ctx[x], T, held).conn = ctx[x].conn
          /\ Listed(ctx[x], T, held).status = ctx[x].status
          /\ Listed(ctx[x], T, held).id = ctx[x].id
          /\ Listed(ctx[x], T, held).clean = ctx[x].clean
          /\ \A t \in Topic : t \in Listed(ctx[x], T, held).topics <=> t \in ctx[x].topics \/ t \in T
          /\ Keeps(Listed(ctx[x], T, held))
      BY <2>1, ListedContext, Zenon
    <2>3. vx = [ctx EXCEPT ![x] = Listed(ctx[x], T, held)]
      BY Zenon DEF vx
    <2>4. ctx[x].topics \subseteq Topic
      BY <2>1, ContextFields, Zenon
    <2> QED BY <1>5, <2>1, <2>2, <2>3, <2>4, Zenon
  <1>8. vs \in [Topic -> SUBSET Ctx] /\ \A t \in Topic : \A y \in vs[t] : y \in subs[t] \/ (y = x /\ t \in T)
    BY <1>5, Zenon DEF add_client_context
  <1> HIDE DEF vn, vx, vs
  <1>9. Held(vn, vx, x)
    BY <1>1, <1>5, <1>6, <1>7, NullFacts DEF Held, x
  <1>10. Update(conn, ctx, subs, {}, vn, vx, vs)
    BY <1>6, <1>7, <1>8, <1>9, Zenon DEF Update
  <1>11. Coherent(vn, vx, registry, vs, Null)
    BY <1>10, StateFacts, UpdateCoherent, Zenon
  <1>12. IsWorld(w) /\ w.conn = vn /\ w.ctx = vx /\ w.registry = registry /\ w.subs = vs
    BY WorldParts, WorldExcept
  <1> HIDE DEF w
  <1>13. WInv(w) /\ w.conn[c].ctx # Null
    BY <1>1, <1>6, <1>11, <1>12, Zenon DEF WInv, WInvBut, x
  <1> QED BY <1>2, <1>12, <1>13, Zenon DEF vn, vx, x, T, held, packets

LEMMA SubscribeInv ==
    ASSUME SInv, NEW c \in Conn, NEW ts \in TopicList, NEW n \in Nat, Subscribe(c, ts, n)
    PROVE  SInv'
  <1> DEFINE w == Subscribed(c, ts, n)
  <1>1. WInv(w) /\ w.conn[c].ctx # Null
    BY SubscribeParts, SubscribeWorld, Zenon
  <1> HIDE DEF w
  <1>2. WInv(handle_close(w, c))
    BY <1>1, CloseOf, Zenon
  <1>3. CASE Refused(conn[c], <<Ctl>>, IF n > 0 THEN 1 ELSE 0)
    BY <1>2, <1>3, SubscribeParts, BecomesStep, RestSame, Zenon DEF w
  <1>4. CASE ~Refused(conn[c], <<Ctl>>, IF n > 0 THEN 1 ELSE 0)
    BY <1>1, <1>4, SubscribeParts, BecomesStep, RestSame, Zenon DEF w
  <1> QED BY <1>3, <1>4, Zenon
-----------------------------------------------------------------------------
(* publish().                                                              *)
LEMMA CopiesType ==
    ASSUME SInv, NEW t \in Topic
    PROVE  Copies(t) \in [Ctx -> Nat] /\ AllCopies \in [Ctx -> Nat]
  <1>1. \A x \in Ctx : Cardinality({u \in Topic : x \in subs[u]}) \in Nat
    BY SizeAssumption, Zenon
  <1> QED BY <1>1, Zenon DEF Copies, AllCopies

LEMMA TakenType ==
    ASSUME NEW n \in Taken
    PROVE  n \in [Conn -> Nat]
  <1>1. Cardinality(Topic) \in Nat
    BY SizeAssumption, Zenon
  <1> QED BY DEF Taken

LEMMA RetainType ==
    ASSUME SInv, NEW t \in Topic, NEW flag \in RetainFlag, NEW m \in Msg
    PROVE  Retain(t, flag, m) \in [Topic -> {-k : k \in Msg} \cup {0}]
  <1>1. retained \in [Topic -> {-k : k \in Msg} \cup {0}]
    BY Zenon DEF SInv, Rest
  <1>2. CASE flag = "none"
    <2>1. Retain(t, flag, m) = [retained EXCEPT ![t] = retained[t]]
      BY <1>2, Zenon DEF Retain
    <2> QED BY <1>1, <2>1, Zenon
  <1>3. CASE flag = "set"
    <2>1. Retain(t, flag, m) = [retained EXCEPT ![t] = -m]
      BY <1>3, Zenon DEF Retain
    <2> QED BY <1>1, <2>1, Zenon
  <1>4. CASE flag = "clear"
    <2>1. Retain(t, flag, m) = [retained EXCEPT ![t] = 0]
      BY <1>4, Zenon DEF Retain
    <2> QED BY <1>1, <2>1, Zenon
  <1> QED BY <1>2, <1>3, <1>4, Zenon DEF RetainFlag

LEMMA NotifiedInv ==
    ASSUME SInv, NEW t \in Topic, NEW flag \in RetainFlag, NEW n \in Taken, NEW failed \in SUBSET Conn,
           NEW m \in Msg, Notified(m, t, flag, n, failed)
    PROVE  SInv'
  <1> DEFINE copies == IF Mode = 0 THEN Copies(t) ELSE AllCopies
             v == Fanout(World, m, copies, n, failed)
  <1>1. copies \in [Ctx -> Nat] /\ n \in [Conn -> Nat]
    BY CopiesType, TakenType, Zenon
  <1>2. Possible(World, copies, n, failed, Null)
    BY Zenon DEF Notified
  <1>3. CASE IteratorLost(World, failed)
    BY <1>3, CrashInv, Zenon DEF Notified
  <1>4. CASE ~IteratorLost(World, failed)
    <2>1. /\ Becomes(v) /\ retained' = IF Mode = 0 THEN Retain(t, flag, m) ELSE retained
          /\ last_id' = IF m \in Own THEN m ELSE last_id
          /\ parent' = IF m \in Own THEN parent ELSE m - MaxMsg
      BY <1>4, Zenon DEF Notified
    <2> HIDE DEF copies
    <2>2. LinkedIn(World)
      BY WorldParts, Zenon DEF SInv, Linked, LinkedIn
    <2>3. WInv(v)
      BY <1>1, <1>2, <1>4, <2>2, FanoutInv, Zenon DEF SInv
    <2>4. retained' \in [Topic -> {-k : k \in Msg} \cup {0}]
      BY <2>1, RetainType, Zenon DEF SInv, Rest
    <2>5. last_id' \in 0 .. MaxMsg /\ parent' \in 0 .. MaxParent
      BY <2>1, SizeAssumption DEF SInv, Rest, Own, Msg
    <2>6. Rest'
      BY <2>4, <2>5, Zenon DEF Rest
    <2> QED BY <2>1, <2>3, <2>6, BecomesStep, Zenon
  <1> QED BY <1>3, <1>4, Zenon

LEMMA NotifyInv ==
    ASSUME SInv, NEW t \in Topic, NEW flag \in RetainFlag, NEW n \in Taken, NEW failed \in SUBSET Conn,
           NotifyHttp(t, flag, n, failed) \/ NotifyParent(t, flag, n, failed)
    PROVE  SInv'
  <1>1. last_id \in 0 .. MaxMsg /\ parent \in 0 .. MaxParent
    BY Zenon DEF SInv, Rest
  <1>2. CASE NotifyHttp(t, flag, n, failed)
    <2>1. last_id + 1 \in Msg /\ Notified(last_id + 1, t, flag, n, failed)
      BY <1>1, <1>2, SizeAssumption DEF NotifyHttp, Msg
    <2> QED BY <2>1, NotifiedInv, Zenon
  <1>3. CASE NotifyParent(t, flag, n, failed)
    <2>1. MaxMsg + parent + 1 \in Msg /\ Notified(MaxMsg + parent + 1, t, flag, n, failed)
      BY <1>1, <1>3, SizeAssumption DEF NotifyParent, Msg
    <2> QED BY <2>1, NotifiedInv, Zenon
  <1> QED BY <1>2, <1>3, Zenon

(* PUBLISH: PUBACK is put, then the message is given to the subscribers.   *)
Answered(c, n0) == PutOn(World, c, <<Ctl>>, n0)

LEMMA PublishParts ==
    ASSUME NEW c, NEW t, NEW flag, NEW n0, NEW n, NEW failed, Publish(c, t, flag, n0, n, failed)
    PROVE  /\ last_id < MaxMsg /\ conn[c].ctx # Null
           /\ Possible(Answered(c, n0), Copies(t), n, failed, c)
           /\ IteratorLost(Answered(c, n0), failed) => Crash("iterator")
           /\ ~IteratorLost(Answered(c, n0), failed) =>
                /\ Becomes(IF Refused(conn[c], <<Ctl>>, n0)
                           THEN handle_close(Fanout(Answered(c, n0), last_id + 1, Copies(t), n, failed), c)
                           ELSE Fanout(Answered(c, n0), last_id + 1, Copies(t), n, failed))
                /\ retained' = Retain(t, flag, last_id + 1) /\ last_id' = last_id + 1
                /\ parent' = parent /\ fault' = fault
  <1>1. Answered(c, n0) = [World EXCEPT !.conn[c] = put(@, <<Ctl>>, n0)]
    BY Zenon DEF PutOn, Answered
  <1> QED BY <1>1, Zenon DEF Publish, Connected

LEMMA AnsweredWorld ==
    ASSUME SInv, NEW c \in Conn, NEW n0 \in 0 .. 1
    PROVE  /\ WInv(Answered(c, n0)) /\ LinkedIn(Answered(c, n0)) /\ Answered(c, n0).ctx = ctx
           /\ \A d \in Conn : Answered(c, n0).conn[d].ctx = conn[d].ctx
  <1> DEFINE p == <<Ctl>>
             w == Answered(c, n0)
  <1>1. n0 \in Nat /\ n0 <= Len(p) /\ p \in Seq(Buffer \cup {Ctl}) /\ w = PutOn(World, c, p, n0)
    BY DEF Answered
  <1> HIDE DEF p, w
  <1>2. WInv(w) /\ w.ctx = World.ctx /\ \A d \in Conn : w.conn[d].ctx = World.conn[d].ctx
    BY <1>1, PutInv DEF SInv
  <1>3. \A x \in Ctx : ctx[x].conn \in Conn \cup {Null}
    BY StateFacts, ContextFields, Zenon
  <1>4. LinkedIn(w)
    BY <1>2, <1>3, WorldParts DEF SInv, Linked, LinkedIn
  <1> QED BY <1>2, <1>4, WorldParts, Zenon DEF w

LEMMA PublishWorld ==
    ASSUME SInv, NEW c \in Conn, NEW t \in Topic, NEW n0 \in 0 .. 1, NEW n \in Taken, NEW failed \in SUBSET Conn,
           last_id < MaxMsg, conn[c].ctx # Null,
           Possible(Answered(c, n0), Copies(t), n, failed, c), ~IteratorLost(Answered(c, n0), failed)
    PROVE  /\ last_id + 1 \in Msg
           /\ WInv(Fanout(Answered(c, n0), last_id + 1, Copies(t), n, failed))
           /\ Fanout(Answered(c, n0), last_id + 1, Copies(t), n, failed).conn[c].ctx # Null
  <1> DEFINE w == Answered(c, n0)
             m == last_id + 1
             v == Fanout(w, m, Copies(t), n, failed)
  <1>1. m \in Msg
    BY SizeAssumption DEF SInv, Rest, Msg
  <1>2. WInv(w) /\ LinkedIn(w) /\ \A d \in Conn : w.conn[d].ctx = conn[d].ctx
    BY AnsweredWorld, Zenon
  <1>3. Copies(t) \in [Ctx -> Nat] /\ n \in [Conn -> Nat] /\ c \notin failed
    BY CopiesType, TakenType, Zenon DEF Possible
  <1> HIDE DEF w, m
  <1>4. Possible(w, Copies(t), n, failed, c) /\ ~IteratorLost(w, failed)
    BY Zenon DEF w
  <1>5. WInv(v) /\ \A d \in Conn : d \notin failed => v.conn[d].ctx = w.conn[d].ctx
    BY <1>1, <1>2, <1>3, <1>4, FanoutInv
  <1> HIDE DEF v
  <1> QED BY <1>1, <1>2, <1>3, <1>5, Zenon DEF v, w, m

LEMMA PublishInv ==
    ASSUME SInv, NEW c \in Conn, NEW t \in Topic, NEW flag \in RetainFlag, NEW n0 \in 0 .. 1,
           NEW n \in Taken, NEW failed \in SUBSET Conn, Publish(c, t, flag, n0, n, failed)
    PROVE  SInv'
  <1> DEFINE v == Fanout(Answered(c, n0), last_id + 1, Copies(t), n, failed)
  <1>1. CASE IteratorLost(Answered(c, n0), failed)
    BY <1>1, PublishParts, CrashInv, Zenon
  <1>2. CASE ~IteratorLost(Answered(c, n0), failed)
    <2>1. WInv(v) /\ v.conn[c].ctx # Null /\ last_id + 1 \in Msg
      BY <1>2, PublishParts, PublishWorld, Zenon
    <2>2. /\ Becomes(IF Refused(conn[c], <<Ctl>>, n0) THEN handle_close(v, c) ELSE v)
          /\ retained' = Retain(t, flag, last_id + 1) /\ last_id' = last_id + 1 /\ parent' = parent
          /\ last_id < MaxMsg
      BY <1>2, PublishParts, Zenon
    <2> HIDE DEF v
    <2>3. WInv(handle_close(v, c))
      BY <2>1, CloseOf, Zenon
    <2>4. Rest'
      <3>1. retained' \in [Topic -> {-k : k \in Msg} \cup {0}]
        BY <2>1, <2>2, RetainType, Zenon
      <3>2. last_id' \in 0 .. MaxMsg
        BY <2>2, SizeAssumption DEF SInv, Rest
      <3> QED BY <2>2, <3>1, <3>2, Zenon DEF Rest, SInv
    <2>5. CASE Refused(conn[c], <<Ctl>>, n0)
      BY <2>2, <2>3, <2>4, <2>5, BecomesStep, Zenon
    <2>6. CASE ~Refused(conn[c], <<Ctl>>, n0)
      BY <2>1, <2>2, <2>4, <2>6, BecomesStep, Zenon
    <2> QED BY <2>5, <2>6, Zenon
  <1> QED BY <1>1, <1>2, Zenon
-----------------------------------------------------------------------------
(* Every step of the reactor thread preserves the invariant.               *)
LEMMA EventInv == SInv /\ Event => SInv'
  <1> SUFFICES ASSUME SInv, Event PROVE SInv'
    BY Zenon
  <1>1. ASSUME NEW c \in Conn, NEW n \in 0 .. SndBuf, ConnectBadId(c, n) \/ Pingreq(c, n)
        PROVE  SInv'
    BY <1>1, ConnectBadIdInv, PingreqInv
  <1>2. ASSUME NEW c \in Conn, NEW n \in 0 .. SndBuf, NEW i \in ClientId, NEW clean \in BOOLEAN,
               ConnectNew(c, i, clean, n) \/ ConnectKnown(c, i, clean, n)
        PROVE  SInv'
    <2>1. n \in Nat
      OBVIOUS
    <2> QED BY <1>2, <2>1, ConnectNewInv, ConnectKnownInv, Zenon
  <1>3. ASSUME NEW c \in Conn, NEW n \in 0 .. SndBuf, NEW ts \in TopicList,
               Subscribe(c, ts, n) \/ Unsubscribe(c, ts, n)
        PROVE  SInv'
    BY <1>3, SubscribeInv, UnsubscribeInv
  <1>4. ASSUME NEW c \in Conn, NEW t \in Topic, NEW flag \in RetainFlag, NEW n0 \in 0 .. 1,
               NEW n \in Taken, NEW failed \in SUBSET Conn, Publish(c, t, flag, n0, n, failed)
        PROVE  SInv'
    BY <1>4, PublishInv, Zenon
  <1>5. ASSUME NEW c \in Conn,
               Accept(c) \/ Close(c) \/ WriteError(c) \/ TooEarly(c) \/ Disconnect(c)
                 \/ Puback(c) \/ PubackFirst(c)
        PROVE  SInv'
    <2>1. WriteError(c) => SInv'
      BY CrashInv, Zenon DEF WriteError
    <2> QED BY <1>5, <2>1, AcceptInv, CloseStep, TooEarlyInv, DisconnectInv, PubackInv, PubackFirstInv, Zenon
  <1>6. ASSUME NEW c \in Conn, NEW again \in BOOLEAN, HandleOutput(c, again)
        PROVE  SInv'
    BY <1>6, HandleOutputInv, Zenon
  <1>7. ASSUME NEW t \in Topic, NEW flag \in RetainFlag, NEW n \in Taken, NEW failed \in SUBSET Conn,
               NotifyHttp(t, flag, n, failed) \/ NotifyParent(t, flag, n, failed)
        PROVE  SInv'
    BY <1>7, NotifyInv, Zenon
  <1> QED BY <1>1, <1>2, <1>3, <1>4, <1>5, <1>6, <1>7, Zenon DEF Event

LEMMA UnchangedInv == SInv /\ UNCHANGED vars => SInv'
  <1> SUFFICES ASSUME SInv, UNCHANGED vars PROVE SInv'
    BY Zenon
  <1>1. World' = World
    BY Zenon DEF vars, World
  <1> QED BY <1>1, Zenon DEF SInv, Linked, Rest, vars

LEMMA StepInv == SInv /\ [Next]_vars => SInv'
  BY EventInv, UnchangedInv, IdleCloseInv, Zenon DEF Next

(* The worlds of the broker are coherent, through every handler.           *)
THEOREM SessionInvariance == Spec => []SInv
  BY InitSInv, StepInv, PTL DEF Spec

(* The process only ever stops in one of the three known ways.             *)
Fault == fault \in {"none", "null_context", "closed_twice", "iterator"}

LEMMA FaultStep == Fault /\ [Next]_vars => Fault'
  <1> SUFFICES ASSUME Fault, [Next]_vars PROVE Fault'
    BY Zenon
  <1> USE DEF Fault
  <1>1. \A why \in {"null_context", "closed_twice", "iterator"} : Crash(why) => Fault'
    BY Zenon DEF Crash
  <1>2. fault' = fault \/ \E why \in {"null_context", "closed_twice", "iterator"} : Crash(why)
    <2>1. ASSUME NEW c \in Conn, NEW n \in 0 .. SndBuf,
                 ConnectBadId(c, n) \/ Pingreq(c, n)
                   \/ (\E i \in ClientId, clean \in BOOLEAN : ConnectNew(c, i, clean, n) \/ ConnectKnown(c, i, clean, n))
                   \/ (\E ts \in TopicList : Subscribe(c, ts, n) \/ Unsubscribe(c, ts, n))
          PROVE  fault' = fault \/ Crash("null_context")
      <3> DEFINE Same == fault' = fault
      <3>a. \A w : ConnAck(w, c, n) => Same
        BY Zenon DEF ConnAck
      <3> HIDE DEF Same
      <3>1. ConnectBadId(c, n) => Same
        BY <3>a, Zenon DEF ConnectBadId
      <3>2. Pingreq(c, n) => fault' = fault \/ Crash("null_context")
        BY Zenon DEF Pingreq
      <3>3. \A i \in ClientId, clean \in BOOLEAN :
              (ConnectNew(c, i, clean, n) => Same) /\ (ConnectKnown(c, i, clean, n) => Same)
        BY <3>a, Zenon DEF ConnectNew, ConnectKnown
      <3>4. \A ts \in TopicList : (Subscribe(c, ts, n) => fault' = fault) /\ (Unsubscribe(c, ts, n) => fault' = fault)
        BY Zenon DEF Subscribe, Unsubscribe
      <3> QED BY <2>1, <3>1, <3>2, <3>3, <3>4, Zenon DEF Same
    <2>2. ASSUME NEW c \in Conn, NEW t \in Topic, NEW flag \in RetainFlag, NEW n0 \in 0 .. 1,
                 NEW n \in Taken, NEW failed \in SUBSET Conn, Publish(c, t, flag, n0, n, failed)
          PROVE  fault' = fault \/ Crash("iterator")
      BY <2>2, Zenon DEF Publish
    <2>3. ASSUME NEW c \in Conn,
                 Accept(c) \/ Close(c) \/ WriteError(c) \/ TooEarly(c) \/ Disconnect(c)
                   \/ Puback(c) \/ PubackFirst(c) \/ (\E again \in BOOLEAN : HandleOutput(c, again))
          PROVE  fault' = fault \/ Crash("null_context") \/ Crash("closed_twice")
      BY <2>3, Zenon DEF Accept, Close, WriteError, TooEarly, Disconnect, Puback, PubackFirst, HandleOutput
    <2>4. ASSUME NEW t \in Topic, NEW flag \in RetainFlag, NEW n \in Taken, NEW failed \in SUBSET Conn,
                 NotifyHttp(t, flag, n, failed) \/ NotifyParent(t, flag, n, failed)
          PROVE  fault' = fault \/ Crash("iterator")
      BY <2>4, Zenon DEF NotifyHttp, NotifyParent, Notified
    <2>5. ASSUME NEW cs \in SUBSET Conn, IdleClose(cs) PROVE fault' = fault
      BY <2>5, Zenon DEF IdleClose
    <2>6. CASE UNCHANGED vars
      BY <2>6, Zenon DEF vars
    <2> QED BY <2>1, <2>2, <2>3, <2>4, <2>5, <2>6, Zenon DEF Next, Event
  <1> QED BY <1>1, <1>2, Zenon

(* Connections, sessions, the registry and the subscriber lists stay well  *)
(* formed in every reachable state.                                        *)
THEOREM TypeCorrect == Spec => []TypeOK
  <1>1. Init => Fault
    BY Zenon DEF Init, Fault
  <1>2. SInv /\ Fault => TypeOK
    BY StateFacts, Zenon DEF SInv, Rest, Fault, TypeOK
  <1> QED BY <1>1, <1>2, FaultStep, SessionInvariance, PTL DEF Spec

LEMMA InvLinks == SInv => LinkOK
  <1> SUFFICES ASSUME SInv PROVE LinkOK
    BY Zenon
  <1>1. \A c \in Conn : conn[c].ctx # Null => conn[c].open /\ ctx[conn[c].ctx].conn = c
    BY StateFacts, Zenon DEF Coherent
  <1>2. ASSUME NEW x \in Ctx, ctx[x].conn # Null
        PROVE  conn[ctx[x].conn].open /\ conn[ctx[x].conn].ctx = x
    <2>1. conn[ctx[x].conn].ctx = x /\ ctx[x].conn \in Conn
      BY <1>2, StateFacts, ContextFields, Zenon DEF SInv, Linked
    <2> QED BY <1>1, <2>1, NullFacts, Zenon
  <1> QED BY <1>1, <1>2, Zenon DEF LinkOK

(* No session ever points to a deleted connection, and no connection to a  *)
(* session that has forgotten it: handle_close(), the takeover by CONNECT, *)
(* a failed write and the idle timer undo both directions of the link.     *)
THEOREM LinkOKHolds == Spec => []LinkOK
  BY InvLinks, SessionInvariance, PTL

LEMMA InvRegistry == SInv => RegistryOK
  <1> SUFFICES ASSUME SInv, NEW i \in ClientId, registry[i] # Null
               PROVE  ctx[registry[i]].id = i /\ (Online(registry[i]) \/ ~ctx[registry[i]].clean)
    BY Zenon DEF RegistryOK
  <1>1. ctx[registry[i]].id = i /\ Held(conn, ctx, registry[i])
    BY StateFacts, NoException, Zenon DEF Coherent
  <1> QED BY <1>1, Zenon DEF Held, Online

(* The registry leads to sessions of that client id only, and keeps none   *)
(* of a client with a clean session that is away.                          *)
THEOREM RegistryOKHolds == Spec => []RegistryOK
  BY InvRegistry, SessionInvariance, PTL

LEMMA InvSubscribers == SInv => CleanLeavesNoTrace
  <1> SUFFICES ASSUME SInv, NEW t \in Topic, NEW x \in subs[t]
               PROVE  t \in ctx[x].topics /\ (Online(x) \/ ~ctx[x].clean)
    BY Zenon DEF CleanLeavesNoTrace
  <1>1. t \in ctx[x].topics /\ Held(conn, ctx, x)
    BY StateFacts, NoException, Zenon DEF Coherent
  <1> QED BY <1>1, Zenon DEF Held, Online

(* A clean session that is closed is a subscriber of no topic: the list of *)
(* topics in the session never misses one that holds it.                   *)
THEOREM CleanLeavesNoTraceHolds == Spec => []CleanLeavesNoTrace
  BY InvSubscribers, SessionInvariance, PTL

(* Up to 2^16 messages of one broker have different ids on the wire.       *)
LEMMA IdsAreUnique ==
    ASSUME MaxParent = 0, MaxMsg < WireMod
    PROVE  UniqueIds
  <1>1. \A b \in Buffer : Message(b) \in 1 .. MaxMsg
    BY MessageFacts, SizeAssumption DEF Msg
  <1>2. \A b \in Buffer : msg_id(b) = Message(b)
    <2>1. ASSUME NEW b \in Buffer PROVE Message(b) % WireMod = Message(b)
      BY <1>1, SizeAssumption
    <2> QED BY <1>1, <2>1, Zenon DEF msg_id, mbuf_id, Own
  <1> QED BY <1>2, Zenon DEF UniqueIds

LEMMA InvQueues ==
    ASSUME UniqueIds
    PROVE  SInv => NoLoss
  BY StateFacts, Zenon DEF Keeps, NoLoss

(* While no two messages share an id on the wire, a message that publish() *)
(* queued in a session leaves it only when the client has acknowledged it: *)
(* takeovers, full send queues, failed writes and PUBACKs in any order     *)
(* lose nothing.                                                           *)
THEOREM NoLossHolds ==
    ASSUME UniqueIds
    PROVE  Spec => []NoLoss
  BY InvQueues, SessionInvariance, PTL

(* In particular for a broker without a parent, before its ids wrap.       *)
COROLLARY NoLossBeforeWrap ==
    ASSUME MaxParent = 0, MaxMsg < WireMod
    PROVE  Spec => []NoLoss
  BY IdsAreUnique, NoLossHolds, Zenon

-----------------------------------------------------------------------------
(* World v comes from world w by a handler: it has no buffers but old ones *)
(* and those up to n, and the registered sessions are the same and have    *)
(* all they had in their queues.                                           *)
From(w, v, n) ==
    /\ Below(w.conn, w.ctx, n) => Below(v.conn, v.ctx, n)
    /\ \A i \in ClientId : registry[i] # Null =>
         /\ v.registry[i] \in {Null, w.registry[i]}
         /\ Messages(w.ctx[registry[i]].queue) \subseteq Messages(v.ctx[registry[i]].queue)

LEMMA FromFrom ==
    ASSUME NEW u, NEW w, NEW v, NEW n, From(u, w, n), From(w, v, n)
    PROVE  From(u, v, n)
  BY Zenon DEF From

LEMMA FromSelf ==
    ASSUME NEW w, NEW n
    PROVE  From(w, w, n)
  BY Zenon DEF From

LEMMA BelowMono ==
    ASSUME NEW cn, NEW cx, NEW n \in Nat, NEW p \in Nat, n <= p, Below(cn, cx, n)
    PROVE  Below(cn, cx, p)
  BY OldFacts DEF Below

LEMMA PutOld ==
    ASSUME NEW k \in Connection, NEW n \in Nat, NEW packets \in Seq(Old(n)),
           NEW j \in Nat, j <= Len(packets), k.outq \in Seq(Old(n))
    PROVE  put(k, packets, j).outq \in Seq(Old(n))
  <1> DEFINE waiting == k.outq \o SubSeq(packets, j + 1, Len(packets))
             out == SubSeq(waiting, 1, IF Len(waiting) < MaxOut THEN Len(waiting) ELSE MaxOut)
             sent == k.sent \o Expects(SubSeq(packets, 1, j))
  <1>1. waiting \in Seq(Old(n))
    OBVIOUS
  <1>2. out \in Seq(Old(n))
    <2>1. MaxOut \in Nat
      BY SizeAssumption, Zenon
    <2> HIDE DEF waiting
    <2> QED BY <1>1, <2>1
  <1>3. put(k, packets, j) = [k EXCEPT !.sent = sent, !.outq = out]
    BY Zenon DEF put
  <1> HIDE DEF out, sent
  <1> QED BY <1>2, <1>3, Zenon DEF Connection

(* The parts of a world of the right types.                                *)
LEMMA Parts ==
    ASSUME NEW w, NEW y, WInvBut(w, y)
    PROVE  /\ IsWorld(w)
           /\ w.conn \in [Conn -> Connection] /\ w.ctx \in [Ctx -> Context]
           /\ w.registry \in [ClientId -> Ctx \cup {Null}] /\ w.subs \in [Topic -> SUBSET Ctx]
  BY Zenon DEF WInvBut, Coherent

LEMMA CloseFrom ==
    ASSUME SInv, NEW w, NEW c \in Conn, w.conn[c].ctx \in Ctx, WInvBut(w, w.conn[c].ctx), NEW n
    PROVE  From(w, handle_close(w, c), n)
  <1> DEFINE x == w.conn[c].ctx
             v == handle_close(w, c)
  <1>1. /\ v.conn = [w.conn EXCEPT ![c] = Closed]
        /\ v.ctx = [w.ctx EXCEPT ![x].conn = Null]
        /\ v.registry = IF w.ctx[x].clean THEN del_client_id(w.registry, w.ctx[x].id) ELSE w.registry
    BY Zenon DEF handle_close
  <1>2. /\ w.conn \in [Conn -> Connection] /\ w.ctx \in [Ctx -> Context]
        /\ w.registry \in [ClientId -> Ctx \cup {Null}]
    BY Parts, Zenon
  <1> HIDE DEF v, x
  <1>3. \A y \in Ctx : v.ctx[y].queue = w.ctx[y].queue
    <2>1. w.ctx[x] \in Context /\ x \in Ctx
      BY <1>2, Zenon DEF x
    <2>2. [w.ctx[x] EXCEPT !.conn = Null].queue = w.ctx[x].queue
      OBVIOUS
    <2>3. v.ctx = [w.ctx EXCEPT ![x] = [w.ctx[x] EXCEPT !.conn = Null]]
      BY <1>1, Zenon
    <2> QED BY <2>3
  <1>4. Closed.outq \in Seq(Old(n))
    BY DEF Closed
  <1>5. \A d \in Conn : v.conn[d] = IF d = c THEN Closed ELSE w.conn[d]
    BY <1>1, <1>2, Zenon
  <1>6. \A i \in ClientId : v.registry[i] \in {Null, w.registry[i]}
    BY <1>1 DEF del_client_id
  <1>7. Below(w.conn, w.ctx, n) => Below(v.conn, v.ctx, n)
    BY <1>3, <1>4, <1>5, Zenon DEF Below
  <1>8. \A i \in ClientId : registry[i] # Null => registry[i] \in Ctx
    BY StateFacts, Zenon
  <1> QED BY <1>3, <1>6, <1>7, <1>8, Zenon DEF From, v

LEMMA PutFrom ==
    ASSUME SInv, NEW w, WInv(w), NEW c \in Conn, NEW packets \in Seq(Buffer \cup {Ctl}),
           NEW j \in Nat, j <= Len(packets), NEW n \in Nat,
           Below(w.conn, w.ctx, n) => packets \in Seq(Old(n))
    PROVE  From(w, PutOn(w, c, packets, j), n)
  <1> DEFINE v == PutOn(w, c, packets, j)
             k == put(w.conn[c], packets, j)
  <1>1. v.ctx = w.ctx /\ v.registry = w.registry
    BY PutInv
  <1>2. IsWorld(w) /\ w.conn \in [Conn -> Connection]
    BY Parts, Zenon DEF WInv
  <1>3. v.conn = [w.conn EXCEPT ![c] = k]
    BY DEF PutOn, IsWorld
  <1> HIDE DEF v
  <1>4. Below(w.conn, w.ctx, n) => k.outq \in Seq(Old(n))
    BY <1>2, PutOld, Zenon DEF Below
  <1> HIDE DEF k
  <1>5. Below(w.conn, w.ctx, n) => Below(v.conn, v.ctx, n)
    BY <1>1, <1>2, <1>3, <1>4, Zenon DEF Below
  <1> QED BY <1>1, <1>5, Zenon DEF From, v

LEMMA ReplyFrom ==
    ASSUME SInv, NEW w, WInv(w), NEW c \in Conn, NEW packets \in Seq(Buffer \cup {Ctl}),
           NEW j \in Nat, j <= Len(packets), NEW n \in Nat,
           Below(w.conn, w.ctx, n) => packets \in Seq(Old(n)),
           Refused(w.conn[c], packets, j) => w.conn[c].ctx \in Ctx
    PROVE  From(w, Reply(w, c, packets, j), n)
  <1> DEFINE v == PutOn(w, c, packets, j)
  <1>1. WInv(v) /\ v.conn[c].ctx = w.conn[c].ctx
    BY PutInv
  <1>2. WInvBut(v, v.conn[c].ctx)
    BY <1>1, NoException, Zenon DEF WInv, WInvBut
  <1>3. Reply(w, c, packets, j) = IF Refused(w.conn[c], packets, j) THEN handle_close(v, c) ELSE v
    BY Zenon DEF Reply, PutOn
  <1>4. From(w, v, n)
    BY PutFrom, Zenon
  <1> HIDE DEF v
  <1>5. Refused(w.conn[c], packets, j) => From(v, handle_close(v, c), n)
    BY <1>1, <1>2, CloseFrom, Zenon
  <1> QED BY <1>3, <1>4, <1>5, FromFrom, Zenon

LEMMA NewFrom ==
    ASSUME SInv, NEW c \in Conn, NEW x \in Ctx, x \notin Referenced(World), NEW g \in BOOLEAN, NEW n
    PROVE  From(World, MakeContext(World, c, x, g), n)
  <1> DEFINE v == MakeContext(World, c, x, g)
             k == [conn[c] EXCEPT !.ctx = x]
  <1>1. /\ v.conn = [conn EXCEPT ![c] = k]
        /\ v.ctx = [ctx EXCEPT ![x] = NewContext(c, g)]
        /\ v.registry = registry
    BY Zenon DEF MakeContext, World
  <1>2. conn \in [Conn -> Connection] /\ ctx \in [Ctx -> Context] /\ conn[c] \in Connection
    BY StateFacts, Zenon
  <1>3. k.outq = conn[c].outq
    OBVIOUS
  <1>4. NewContext(c, g).queue = <<>>
    BY Zenon DEF NewContext
  <1> HIDE DEF v, k
  <1>5. /\ \A d \in Conn : v.conn[d].outq = conn[d].outq
        /\ \A y \in Ctx : v.ctx[y].queue = IF y = x THEN <<>> ELSE ctx[y].queue
    BY <1>1, <1>2, <1>3, <1>4, Zenon
  <1>6. Below(World.conn, World.ctx, n) => Below(v.conn, v.ctx, n)
    <2>1. <<>> \in Seq(Old(n))
      OBVIOUS
    <2> QED BY <1>5, <2>1, WorldParts, Zenon DEF Below
  <1>7. \A i \in ClientId : registry[i] # Null => registry[i] \in Ctx /\ registry[i] # x
    BY StateFacts, Refers, WorldParts, Zenon DEF SInv
  <1>8. From(World, v, n)
    BY <1>1, <1>6, <1>7, WorldParts DEF From
  <1> QED BY <1>8, Zenon DEF v

LEMMA ContextFrom ==
    ASSUME SInv, NEW c \in Conn, NEW w \in client_context(c), NEW n
    PROVE  From(World, w, n)
  <1>1. CASE conn[c].ctx # Null
    BY <1>1, FromSelf DEF client_context
  <1>2. CASE conn[c].ctx = Null
    <2>1. PICK x \in Ctx \ Referenced(World), g \in BOOLEAN : w = MakeContext(World, c, x, g)
      BY <1>2 DEF client_context
    <2> QED BY <2>1, NewFrom, Zenon
  <1> QED BY <1>1, <1>2, Zenon

(* init(), and the registration of a client id that had none.              *)
LEMMA InitFrom ==
    ASSUME SInv, NEW w, WInv(w), NEW c \in Conn, NEW x \in Ctx, NEW i \in ClientId,
           NEW clean \in BOOLEAN, NEW n
    PROVE  /\ From(w, init(w, c, x, i, clean), n)
           /\ init(w, c, x, i, clean).ctx[x].queue = w.ctx[x].queue
           /\ registry[i] = Null => From(w, Registered(init(w, c, x, i, clean), i, x), n)
           /\ Registered(init(w, c, x, i, clean), i, x).ctx = init(w, c, x, i, clean).ctx
  <1> DEFINE v == init(w, c, x, i, clean)
             u == Registered(v, i, x)
             k == [w.conn[c] EXCEPT !.ctx = x]
             y == Initialised(w.ctx[x], i, clean, c)
  <1>1. /\ IsWorld(w) /\ w.conn \in [Conn -> Connection] /\ w.ctx \in [Ctx -> Context]
        /\ w.registry \in [ClientId -> Ctx \cup {Null}]
    BY Parts, Zenon DEF WInv
  <1>2. /\ v.conn = [w.conn EXCEPT ![c] = k] /\ v.ctx = [w.ctx EXCEPT ![x] = y]
        /\ v.registry = w.registry
    BY DEF init, Initialised, IsWorld
  <1>3. u.conn = v.conn /\ u.ctx = v.ctx /\ u.registry = [w.registry EXCEPT ![i] = x]
    BY DEF Registered, init, IsWorld
  <1>4. k.outq = w.conn[c].outq /\ y.queue = w.ctx[x].queue
    <2>1. w.conn[c] \in Connection /\ w.ctx[x] \in Context
      BY <1>1, Zenon
    <2> QED BY <2>1, InitContext
  <1> HIDE DEF v, u, k, y
  <1>5. /\ \A d \in Conn : v.conn[d].outq = w.conn[d].outq
        /\ \A z \in Ctx : v.ctx[z].queue = w.ctx[z].queue
    BY <1>2, <1>4
  <1>6. Below(w.conn, w.ctx, n) => Below(v.conn, v.ctx, n)
    BY <1>5, Zenon DEF Below
  <1>7. \A j \in ClientId : registry[j] # Null => registry[j] \in Ctx
    BY StateFacts, Zenon
  <1>8. From(w, v, n)
    BY <1>2, <1>5, <1>6 DEF From
  <1>9. registry[i] = Null => From(w, u, n)
    BY <1>1, <1>3, <1>5, <1>6, <1>7, Zenon DEF From
  <1> QED BY <1>3, <1>5, <1>8, <1>9, Zenon DEF v, u

(* publish() of a message of at most n.                                    *)
LEMMA CopiesOld ==
    ASSUME NEW n \in Nat, NEW m \in Old(n), NEW k \in Nat
    PROVE  [j \in 1 .. k |-> m] \in Seq(Old(n))
  OBVIOUS

LEMMA FanoutFrom ==
    ASSUME SInv, NEW w, WInv(w), LinkedIn(w), NEW m \in Msg, NEW copies \in [Ctx -> Nat], NEW n \in [Conn -> Nat],
           NEW failed \in SUBSET Conn, NEW self, Possible(w, copies, n, failed, self),
           NEW p \in Nat, m \in Old(p)
    PROVE  From(w, Fanout(w, m, copies, n, failed), p)
  <1> DEFINE v == Fanout(w, m, copies, n, failed)
             list(x) == [j \in 1 .. copies[x] |-> m]
             readers(d) == {x \in Ctx : copies[x] > 0 /\ w.ctx[x].conn = d}
             vn == [d \in Conn |->
                        IF d \in failed THEN Closed
                        ELSE IF readers(d) = {} THEN w.conn[d]
                        ELSE put(w.conn[d], list(CHOOSE x \in readers(d) : TRUE), n[d])]
             owed(x) == IF copies[x] > 0 THEN w.ctx[x].owed \cup {m} ELSE w.ctx[x].owed
             left(x) == IF w.ctx[x].conn \in failed THEN Null ELSE w.ctx[x].conn
             vx == [x \in Ctx |-> Received(w.ctx[x], list(x), owed(x), left(x))]
  <1>1. IsWorld(w) /\ w.conn \in [Conn -> Connection] /\ w.ctx \in [Ctx -> Context]
    BY Parts, Zenon DEF WInv
  <1>2. v.conn = vn /\ v.ctx = vx /\ v.registry = w.registry
    BY DEF Fanout, Received, IsWorld
  <1>3. ASSUME NEW d \in Conn, Below(w.conn, w.ctx, p)
        PROVE  vn[d].outq \in Seq(Old(p))
    <2>1. CASE d \in failed
      <3>1. Closed.outq \in Seq(Old(p))
        BY DEF Closed
      <3> QED BY <2>1, <3>1, Zenon
    <2>2. CASE d \notin failed /\ readers(d) = {}
      BY <1>3, <2>2, Zenon DEF Below
    <2>3. CASE d \notin failed /\ readers(d) # {}
      <3> DEFINE x == CHOOSE x \in readers(d) : TRUE
      <3>1. x \in Ctx /\ copies[x] > 0 /\ w.ctx[x].conn = d
        <4>1. x \in readers(d)
          BY <2>3, Zenon
        <4> QED BY <4>1, Zenon
      <3>2. vn[d] = put(w.conn[d], list(x), n[d])
        BY <2>3, Zenon
      <3> HIDE DEF x, vn
      <3>3. n[d] <= copies[x]
        <4>1. CASE n[d] > 0
          <5>1. PICK y \in Ctx : w.ctx[y].conn = d /\ n[d] <= copies[y]
            BY <4>1, Zenon DEF Possible
          <5>2. w.conn[d].ctx = y /\ w.conn[d].ctx = x
            BY <3>1, <5>1, NullFacts, Zenon DEF LinkedIn
          <5> QED BY <5>1, <5>2, Zenon
        <4>2. CASE ~(n[d] > 0)
          <5>1. n[d] \in Nat /\ copies[x] \in Nat
            BY <3>1, Zenon
          <5> QED BY <3>1, <4>2
        <4> QED BY <4>1, <4>2, Zenon
      <3>4. list(x) \in Seq(Old(p)) /\ Len(list(x)) = copies[x]
        BY <3>1, CopiesOf, CopiesOld, Zenon
      <3> HIDE DEF list
      <3>5. /\ n[d] \in Nat /\ w.conn[d] \in Connection /\ n[d] <= Len(list(x))
            /\ w.conn[d].outq \in Seq(Old(p))
        BY <1>1, <1>3, <3>3, <3>4, Zenon DEF Below
      <3> QED BY <3>2, <3>4, <3>5, PutOld, Zenon
    <2> HIDE DEF vn, readers
    <2> QED BY <2>1, <2>2, <2>3, Zenon
  <1>4. ASSUME NEW x \in Ctx
        PROVE  /\ Below(w.conn, w.ctx, p) => vx[x].queue \in Seq(Old(p))
               /\ Messages(w.ctx[x].queue) \subseteq Messages(vx[x].queue)
    <2>1. w.ctx[x] \in Context /\ copies[x] \in Nat
      BY <1>1, Zenon
    <2>2. list(x) \in Seq(Buffer) /\ list(x) \in Seq(Old(p))
      BY <2>1, CopiesOf, CopiesOld, Zenon
    <2>3. w.ctx[x].queue \in Seq(Buffer)
      BY <2>1, ContextFields, Zenon
    <2>4. vx[x] = Received(w.ctx[x], list(x), owed(x), left(x))
      BY Zenon
    <2> HIDE DEF vx, list, owed, left
    <2>5. vx[x].queue = w.ctx[x].queue \o list(x)
      BY <2>1, <2>4, Zenon DEF Received, Context
    <2>6. Messages(w.ctx[x].queue) \subseteq Messages(vx[x].queue)
      BY <2>2, <2>3, <2>5, MessagesConcat, Zenon
    <2>7. w.ctx[x].queue \in Seq(Old(p)) => vx[x].queue \in Seq(Old(p))
      BY <2>2, <2>5
    <2> QED BY <2>6, <2>7, Zenon DEF Below
  <1> HIDE DEF v, vn, vx
  <1>5. Below(w.conn, w.ctx, p) => Below(v.conn, v.ctx, p)
    BY <1>2, <1>3, <1>4, Zenon DEF Below
  <1>6. \A i \in ClientId : registry[i] # Null => registry[i] \in Ctx
    BY StateFacts, Zenon
  <1>7. From(w, v, p)
    BY <1>2, <1>4, <1>5, <1>6, Zenon DEF From
  <1> QED BY <1>7, Zenon DEF v

(* The idle connections are closed.                                        *)
LEMMA CloseIdleFrom ==
    ASSUME SInv, NEW cs \in SUBSET Conn, Idle(cs), NEW n
    PROVE  /\ From(World, CloseIdle(cs), n)
           /\ \A i \in ClientId : registry[i] # Null /\ ~ctx[registry[i]].clean =>
                CloseIdle(cs).registry[i] = registry[i]
  <1> DEFINE v == CloseIdle(cs)
             closed == {conn[c].ctx : c \in cs}
             cleaned == {x \in closed : ctx[x].clean}
  <1>1. /\ \A d \in Conn : v.conn[d] = IF d \in cs THEN Closed ELSE conn[d]
        /\ \A x \in Ctx : v.ctx[x] = IF x \in closed THEN [ctx[x] EXCEPT !.conn = Null] ELSE ctx[x]
        /\ \A i \in ClientId : v.registry[i] = IF \E x \in cleaned : ctx[x].id = i THEN Null ELSE registry[i]
    BY Zenon DEF CloseIdle
  <1>2. conn \in [Conn -> Connection] /\ ctx \in [Ctx -> Context]
    BY StateFacts, Zenon
  <1> HIDE DEF v
  <1>3. ASSUME NEW x \in Ctx PROVE v.ctx[x].queue = ctx[x].queue
    <2>1. ctx[x] \in Context
      BY <1>2, Zenon
    <2>2. [ctx[x] EXCEPT !.conn = Null].queue = ctx[x].queue
      OBVIOUS
    <2> QED BY <1>1, <2>2, Zenon
  <1>4. Closed.outq \in Seq(Old(n))
    BY DEF Closed
  <1>5. Below(World.conn, World.ctx, n) => Below(v.conn, v.ctx, n)
    BY <1>1, <1>3, <1>4, WorldParts, Zenon DEF Below
  <1>6. \A i \in ClientId : registry[i] # Null => registry[i] \in Ctx
    BY StateFacts, Zenon
  <1>7. From(World, v, n)
    BY <1>1, <1>3, <1>5, <1>6, WorldParts, Zenon DEF From
  <1>8. ASSUME NEW i \in ClientId, registry[i] # Null, ~ctx[registry[i]].clean,
               NEW x \in cleaned, ctx[x].id = i
        PROVE  FALSE
    <2>1. PICK c \in cs : x = conn[c].ctx
      BY Zenon
    <2>2. PICK j \in ClientId : registry[j] # Null /\ c = ctx[registry[j]].conn /\ c # Null
      BY Zenon DEF Idle
    <2>3. ctx[registry[j]].id = j /\ Held(conn, ctx, registry[j])
      BY <2>2, StateFacts, Zenon DEF Coherent
    <2>4. x = registry[j]
      BY <2>1, <2>2, <2>3, Zenon DEF Held
    <2> QED BY <1>8, <2>3, <2>4, Zenon
  <1> QED BY <1>1, <1>7, <1>8, Zenon DEF v

-----------------------------------------------------------------------------
(* A step of the broker: no buffer is newer than n, and a session that     *)
(* stays registered keeps what is queued and not acknowledged.             *)
KeepsQueues ==
    \A i \in ClientId : registry[i] # Null /\ registry'[i] # Null =>
        /\ registry'[i] = registry[i]
        /\ UniqueIds => Messages(ctx[registry[i]].queue)
                          \subseteq Messages(ctx'[registry[i]].queue) \cup ctx'[registry[i]].acked

Carried(n) == Below(conn', ctx', n) /\ KeepsQueues

LEMMA BecomesFrom ==
    ASSUME SInv, SInv', NEW v, NEW n, From(World, v, n), Below(conn, ctx, n), Becomes(v)
    PROVE  Carried(n)
  <1>1. /\ conn' = v.conn /\ registry' = v.registry
        /\ \A x \in Ctx : ctx'[x] = IF x \in Referenced(v) THEN v.ctx[x] ELSE Freed
    BY Zenon DEF Becomes
  <1>2. Below(v.conn, v.ctx, n)
    BY WorldParts, Zenon DEF From
  <1>3. Below(conn', ctx', n)
    <2>1. Freed.queue \in Seq(Old(n))
      BY DEF Freed, NewContext
    <2> QED BY <1>1, <1>2, <2>1, Zenon DEF Below
  <1>4. registry' \in [ClientId -> Ctx \cup {Null}]
    BY Zenon DEF SInv, WInv, WInvBut, World, Coherent
  <1>5. ASSUME NEW i \in ClientId, registry[i] # Null, registry'[i] # Null
        PROVE  /\ registry'[i] = registry[i]
               /\ Messages(ctx[registry[i]].queue) \subseteq Messages(ctx'[registry[i]].queue)
    <2>1. registry'[i] = registry[i] /\ registry[i] \in Ctx
      BY <1>1, <1>5, StateFacts, WorldParts, Zenon DEF From
    <2>2. registry[i] \in Referenced(v)
      BY <1>1, <1>4, <2>1, Zenon DEF Referenced, Range
    <2> QED BY <1>1, <1>5, <2>1, <2>2, WorldParts, Zenon DEF From
  <1> QED BY <1>3, <1>5, Zenon DEF Carried, KeepsQueues
=============================================================================

--------------------------- MODULE SessionLemmas ----------------------------
(***************************************************************************)
(* The invariant of worlds (WorldLemmas) is kept by the closing of idle    *)
(* connections and by the delivery of a message to the subscribers of its  *)
(* topic.  From these the state of the broker has its invariant (SInv)     *)
(* before and after the handlers that answer no request, PINGREQ and       *)
(* CONNECT.                                                                *)
(***************************************************************************)
EXTENDS WorldLemmas

(* store_client_info() closes the connections of several sessions.         *)
LEMMA IdleFacts ==
    ASSUME WInv(World), NEW cs \in SUBSET Conn, Idle(cs), NEW c \in cs
    PROVE  conn[c].ctx \in Ctx /\ ctx[conn[c].ctx].conn = c
  <1>1. Coherent(conn, ctx, registry, subs, Null)
    BY Zenon DEF WInv, WInvBut, World
  <1>2. PICK i \in ClientId : registry[i] # Null /\ c = ctx[registry[i]].conn /\ c # Null
    BY Zenon DEF Idle
  <1>3. registry[i] \in Ctx /\ Held(conn, ctx, registry[i])
    BY <1>1, <1>2, Zenon DEF Coherent
  <1> QED BY <1>2, <1>3, Zenon DEF Held

LEMMA CloseIdleInv ==
    ASSUME WInv(World), NEW cs \in SUBSET Conn, Idle(cs)
    PROVE  WInv(CloseIdle(cs))
  <1> DEFINE closed == {conn[c].ctx : c \in cs}
             cleaned == {x \in closed : ctx[x].clean}
             vn == [c \in Conn |-> IF c \in cs THEN Closed ELSE conn[c]]
             vx == [x \in Ctx |-> IF x \in closed THEN [ctx[x] EXCEPT !.conn = Null] ELSE ctx[x]]
             vr == [i \in ClientId |-> IF \E x \in cleaned : ctx[x].id = i THEN Null ELSE registry[i]]
             vs == [t \in Topic |-> subs[t] \ {x \in cleaned : t \in ctx[x].topics}]
  <1>1. Coherent(conn, ctx, registry, subs, Null)
    BY Zenon DEF WInv, WInvBut, World
  <1>2. /\ conn \in [Conn -> Connection] /\ ctx \in [Ctx -> Context]
        /\ registry \in [ClientId -> Ctx \cup {Null}] /\ subs \in [Topic -> SUBSET Ctx]
        /\ \A x \in Ctx : Keeps(ctx[x])
    BY <1>1, Zenon DEF Coherent
  <1>3. /\ closed \subseteq Ctx /\ \A d \in cs : conn[d].ctx \in closed
        /\ \A x \in Ctx : ctx[x].conn \in cs /\ conn[ctx[x].conn].ctx = x => x \in closed
    BY IdleFacts, Zenon
  <1>4. /\ vn \in [Conn -> Connection]
        /\ \A d \in cs : vn[d] = Closed
        /\ \A d \in Conn : d \notin cs => vn[d] = conn[d]
    <2>1. Closed \in Connection
      BY DEF Closed, Connection
    <2> QED BY <1>2, <2>1, Zenon
  <1>5. \A x \in closed : ctx[x].conn \in cs
    BY IdleFacts, Zenon
  <1>6. vx \in [Ctx -> Context]
        /\ \A x \in Ctx : /\ x \notin closed => vx[x] = ctx[x]
                          /\ x \in closed => vx[x].conn = Null
                          /\ vx[x].clean = ctx[x].clean /\ vx[x].id = ctx[x].id
                          /\ vx[x].topics = ctx[x].topics /\ Keeps(vx[x])
    <2>1. ASSUME NEW x \in Ctx
          PROVE  /\ vx[x] \in Context
                 /\ x \notin closed => vx[x] = ctx[x]
                 /\ x \in closed => vx[x].conn = Null
                 /\ vx[x].clean = ctx[x].clean /\ vx[x].id = ctx[x].id
                 /\ vx[x].topics = ctx[x].topics /\ Keeps(vx[x])
      <3>1. ctx[x] \in Context /\ Keeps(ctx[x])
        BY <1>2, Zenon
      <3>2. vx[x] = IF x \in closed THEN [ctx[x] EXCEPT !.conn = Null] ELSE ctx[x]
        BY Zenon
      <3> HIDE DEF vx, closed
      <3> QED BY <3>1, <3>2, SetConn
    <2>2. vx = [x \in Ctx |-> vx[x]]
      BY Zenon
    <2> HIDE DEF vx, closed
    <2> QED BY <2>1, <2>2, Zenon
  <1>7. /\ vr \in [ClientId -> Ctx \cup {Null}] /\ vs \in [Topic -> SUBSET Ctx]
        /\ \A i \in ClientId : vr[i] # Null =>
             vr[i] = registry[i] /\ \A x \in closed : ctx[x].clean => ctx[x].id # i
        /\ \A t \in Topic : \A x \in vs[t] :
             x \in subs[t] /\ ~(x \in closed /\ ctx[x].clean /\ t \in ctx[x].topics)
    BY <1>2, Zenon
  <1>8. WInv(CloseIdle(cs)) <=> Coherent(vn, vx, vr, vs, Null)
    BY Zenon DEF CloseIdle, WInv, WInvBut, IsWorld
  <1> HIDE DEF vn, vx, vr, vs, closed, cleaned
  <1>9. ASSUME NEW d \in Conn, vn[d].ctx # Null
        PROVE  vn[d].open /\ vx[vn[d].ctx].conn = d
    <2>1. d \notin cs /\ vn[d] = conn[d]
      BY <1>4, <1>9 DEF Closed
    <2>2. conn[d].open /\ ctx[conn[d].ctx].conn = d /\ conn[d].ctx \in Ctx
      BY <1>1, <1>9, <2>1 DEF Coherent, Connection
    <2>3. conn[d].ctx \notin closed
      BY <1>5, <2>1, <2>2, Zenon
    <2> QED BY <1>6, <2>1, <2>2, <2>3
  <1>10. ASSUME NEW x \in Ctx, Held(conn, ctx, x), ~(x \in closed /\ ctx[x].clean)
         PROVE  Held(vn, vx, x)
    <2>1. CASE x \in closed
      BY <1>6, <1>10, <2>1, Zenon DEF Held
    <2>2. CASE x \notin closed
      <3>1. vx[x] = ctx[x] /\ ctx[x].conn \in Conn \cup {Null}
        BY <1>6, <2>2, ContextFields, Zenon
      <3>2. ctx[x].conn # Null => ctx[x].conn \notin cs
        BY <1>3, <1>10, <2>2, Zenon DEF Held
      <3> QED BY <1>4, <1>10, <3>1, <3>2, Zenon DEF Held
    <2> QED BY <2>1, <2>2, Zenon
  <1>11. ASSUME NEW i \in ClientId, vr[i] # Null
         PROVE  vx[vr[i]].id = i /\ Held(vn, vx, vr[i])
    <2>1. vr[i] = registry[i] /\ \A x \in closed : ctx[x].clean => ctx[x].id # i
      BY <1>7, <1>11, Zenon
    <2>2. registry[i] \in Ctx /\ ctx[registry[i]].id = i /\ Held(conn, ctx, registry[i])
      BY <1>1, <1>11, <2>1 DEF Coherent
    <2> QED BY <1>6, <1>10, <2>1, <2>2, Zenon
  <1>12. ASSUME NEW t \in Topic, NEW x \in vs[t]
         PROVE  t \in vx[x].topics /\ Held(vn, vx, x)
    <2>1. x \in subs[t] /\ ~(x \in closed /\ ctx[x].clean /\ t \in ctx[x].topics)
      BY <1>7, Zenon
    <2>2. x \in Ctx /\ t \in ctx[x].topics /\ Held(conn, ctx, x)
      BY <1>1, <2>1, NoException, Zenon DEF Coherent
    <2> QED BY <1>6, <1>10, <2>1, <2>2, Zenon
  <1>13. Coherent(vn, vx, vr, vs, Null)
    BY <1>4, <1>6, <1>7, <1>9, <1>11, <1>12, Zenon DEF Coherent
  <1> QED BY <1>8, <1>13, Zenon
-----------------------------------------------------------------------------
(* publish(): what is queued in a session is owed to its client.           *)
LEMMA MessagesConcat ==
    ASSUME NEW a \in Seq(Buffer), NEW b \in Seq(Buffer)
    PROVE  a \o b \in Seq(Buffer) /\ Messages(a \o b) = Messages(a) \cup Messages(b)
  <1>1. Range(a \o b) = Range(a) \cup Range(b)
    <2> DEFINE s == a \o b
    <2>1. /\ s \in Seq(Buffer) /\ DOMAIN s = 1 .. Len(a) + Len(b)
          /\ DOMAIN a = 1 .. Len(a) /\ DOMAIN b = 1 .. Len(b) /\ Len(a) \in Nat /\ Len(b) \in Nat
      OBVIOUS
    <2>2. /\ \A j \in 1 .. Len(a) : s[j] = a[j] /\ j \in 1 .. Len(a) + Len(b)
          /\ \A j \in 1 .. Len(b) : s[Len(a) + j] = b[j] /\ Len(a) + j \in 1 .. Len(a) + Len(b)
      OBVIOUS
    <2>3. \A j \in 1 .. Len(a) + Len(b) :
             s[j] = IF j <= Len(a) THEN a[j] ELSE b[j - Len(a)]
      OBVIOUS
    <2> HIDE DEF s
    <2>4. Range(s) \subseteq Range(a) \cup Range(b)
      <3>1. ASSUME NEW j \in 1 .. Len(a) + Len(b) PROVE s[j] \in Range(a) \cup Range(b)
        <4>1. CASE j <= Len(a)
          <5>1. j \in DOMAIN a /\ s[j] = a[j]
            BY <2>3, <4>1
          <5> QED BY <5>1, Zenon DEF Range
        <4>2. CASE ~(j <= Len(a))
          <5>1. j - Len(a) \in DOMAIN b /\ s[j] = b[j - Len(a)]
            BY <2>3, <4>2
          <5> QED BY <5>1, Zenon DEF Range
        <4> QED BY <4>1, <4>2, Zenon
      <3>2. Range(s) = {s[j] : j \in 1 .. Len(a) + Len(b)}
        BY <2>1, Zenon DEF Range
      <3> QED BY <3>1, <3>2, Zenon
    <2>5. Range(a) \cup Range(b) \subseteq Range(s)
      BY <2>1, <2>2, Zenon DEF Range
    <2> QED BY <2>4, <2>5, Zenon DEF s
  <1> QED BY <1>1 DEF Messages

LEMMA MessagesType ==
    ASSUME NEW a \in Seq(Buffer)
    PROVE  Messages(a) \subseteq Msg
  <1>1. Range(a) \subseteq Buffer
    BY DEF Range
  <1>2. \A b \in Range(a) : Message(b) \in Msg
    BY <1>1, MessageFacts, Zenon
  <1> QED BY <1>2, Zenon DEF Messages

LEMMA CopiesOf ==
    ASSUME NEW m \in Msg, NEW k \in Nat
    PROVE  /\ [j \in 1 .. k |-> m] \in Seq(Buffer) /\ Len([j \in 1 .. k |-> m]) = k
           /\ k > 0 => m \in Messages([j \in 1 .. k |-> m])
  <1> DEFINE l == [j \in 1 .. k |-> m]
  <1>1. m \in Buffer /\ Message(m) = m
    BY MessageFacts, Zenon
  <1>2. l \in [1 .. k -> Buffer] /\ l \in Seq(Buffer) /\ Len(l) = k
    BY <1>1
  <1>3. k > 0 => m \in Range(l)
    BY DEF Range
  <1> HIDE DEF l
  <1>4. k > 0 => m \in Messages(l)
    BY <1>1, <1>3, Zenon DEF Messages
  <1> QED BY <1>2, <1>4, Zenon DEF l

(* The session after l was queued in it, owed and conn being new.          *)
Received(k, l, owed, d) == [k EXCEPT !.queue = @ \o l, !.owed = owed, !.conn = d]

LEMMA ReceivedContext ==
    ASSUME NEW k \in Context, NEW l \in Seq(Buffer), NEW owed \in SUBSET Msg, NEW d \in Conn \cup {Null},
           owed \subseteq k.owed \cup Messages(l)
    PROVE  /\ Received(k, l, owed, d) \in Context
           /\ Received(k, l, owed, d).conn = d /\ Received(k, l, owed, d).status = k.status
           /\ Received(k, l, owed, d).id = k.id /\ Received(k, l, owed, d).clean = k.clean
           /\ Received(k, l, owed, d).topics = k.topics
           /\ Keeps(k) => Keeps(Received(k, l, owed, d))
  <1> DEFINE v == Received(k, l, owed, d)
  <1>1. /\ v.conn = d /\ v.status = k.status /\ v.id = k.id /\ v.clean = k.clean
        /\ v.topics = k.topics /\ v.queue = k.queue \o l /\ v.owed = owed /\ v.acked = k.acked
    BY Zenon DEF Context, Received
  <1>2. v \in Context
    <2> DEFINE q == k.queue \o l
               k1 == [k EXCEPT !.queue = q]
               k2 == [k1 EXCEPT !.owed = owed]
    <2>1. v = [k2 EXCEPT !.conn = d]
      BY Zenon DEF Received
    <2>q. q \in Seq(Buffer)
      BY ContextFields
    <2> HIDE DEF q, v
    <2>2. k1 \in Context
      BY <2>q, Zenon DEF Context
    <2> HIDE DEF k1
    <2>3. k2 \in Context
      BY <2>2, Zenon DEF Context
    <2> HIDE DEF k2
    <2> QED BY <2>1, <2>3, SetConn, Zenon
  <1>3. Messages(v.queue) = Messages(k.queue) \cup Messages(l)
    BY <1>1, ContextFields, MessagesConcat, Zenon
  <1> HIDE DEF v
  <1>4. Keeps(k) => Keeps(v)
    BY <1>1, <1>3, Zenon DEF Keeps
  <1> QED BY <1>1, <1>2, <1>4, Zenon DEF v
LinkedIn(w) == \A x \in Ctx : w.ctx[x].conn # Null => w.conn[w.ctx[x].conn].ctx = x

LEMMA FanoutInv ==
    ASSUME NEW w, WInv(w), LinkedIn(w), NEW m \in Msg, NEW copies \in [Ctx -> Nat], NEW n \in [Conn -> Nat],
           NEW failed \in SUBSET Conn, NEW self, Possible(w, copies, n, failed, self),
           ~IteratorLost(w, failed)
    PROVE  /\ WInv(Fanout(w, m, copies, n, failed))
           /\ \A d \in Conn : d \notin failed => Fanout(w, m, copies, n, failed).conn[d].ctx = w.conn[d].ctx
  <1> DEFINE v == Fanout(w, m, copies, n, failed)
             list(x) == [j \in 1 .. copies[x] |-> m]
             readers(d) == {x \in Ctx : copies[x] > 0 /\ w.ctx[x].conn = d}
             vn == [d \in Conn |->
                        IF d \in failed THEN Closed
                        ELSE IF readers(d) = {} THEN w.conn[d]
                        ELSE put(w.conn[d], list(CHOOSE x \in readers(d) : TRUE), n[d])]
             owed(x) == IF copies[x] > 0 THEN w.ctx[x].owed \cup {m} ELSE w.ctx[x].owed
             left(x) == IF w.ctx[x].conn \in failed THEN Null ELSE w.ctx[x].conn
             vx == [x \in Ctx |-> Received(w.ctx[x], list(x), owed(x), left(x))]
  <1>1. IsWorld(w) /\ Coherent(w.conn, w.ctx, w.registry, w.subs, Null)
    BY Zenon DEF WInv, WInvBut
  <1>2. /\ w.conn \in [Conn -> Connection] /\ w.ctx \in [Ctx -> Context]
        /\ w.subs \in [Topic -> SUBSET Ctx] /\ \A x \in Ctx : Keeps(w.ctx[x])
    BY <1>1, Zenon DEF Coherent
  <1>3. v = WithCtx(WithConn(w, vn), vx)
    BY Zenon DEF Fanout, WithCtx, WithConn, Received, IsWorld
  <1>4. ASSUME NEW d \in Conn
        PROVE  /\ vn[d] \in Connection
               /\ d \in failed => vn[d] = Closed
               /\ d \notin failed => vn[d].open = w.conn[d].open /\ vn[d].ctx = w.conn[d].ctx
    <2>1. CASE d \in failed
      <3>1. Closed \in Connection
        BY DEF Closed, Connection
      <3> QED BY <2>1, <3>1, Zenon
    <2>2. CASE d \notin failed /\ readers(d) = {}
      BY <1>2, <2>2, Zenon
    <2>3. CASE d \notin failed /\ readers(d) # {}
      <3> DEFINE x == CHOOSE x \in readers(d) : TRUE
      <3>1. x \in Ctx /\ copies[x] > 0 /\ w.ctx[x].conn = d
        <4>1. x \in readers(d)
          BY <2>3, Zenon
        <4> QED BY <4>1, Zenon
      <3>2. vn[d] = put(w.conn[d], list(x), n[d])
        BY <2>3, Zenon
      <3> HIDE DEF x, vn
      <3>3. n[d] <= copies[x]
        <4>1. CASE n[d] > 0
          <5>1. PICK y \in Ctx : w.ctx[y].conn = d /\ n[d] <= copies[y]
            BY <4>1, Zenon DEF Possible
          <5>2. w.conn[d].ctx = y /\ w.conn[d].ctx = x
            BY <3>1, <5>1, NullFacts, Zenon DEF LinkedIn
          <5> QED BY <5>1, <5>2, Zenon
        <4>2. CASE ~(n[d] > 0)
          <5>1. n[d] \in Nat /\ copies[x] \in Nat
            BY <3>1, Zenon
          <5> QED BY <3>1, <4>2
        <4> QED BY <4>1, <4>2, Zenon
      <3>4. list(x) \in Seq(Buffer) /\ Len(list(x)) = copies[x]
        BY <3>1, CopiesOf, Zenon
      <3>5. list(x) \in Seq(Buffer \cup {Ctl})
        BY <3>4
      <3> HIDE DEF list
      <3>6. n[d] \in Nat /\ w.conn[d] \in Connection /\ n[d] <= Len(list(x))
        BY <1>2, <3>3, <3>4, Zenon
      <3>7. vn[d] \in Connection /\ vn[d].open = w.conn[d].open /\ vn[d].ctx = w.conn[d].ctx
        BY <3>2, <3>5, <3>6, PutType
      <3> QED BY <2>3, <3>7, Zenon
    <2> HIDE DEF vn, readers
    <2> QED BY <2>1, <2>2, <2>3, Zenon
  <1>5. ASSUME NEW x \in Ctx
        PROVE  /\ vx[x] \in Context /\ vx[x].conn = left(x) /\ vx[x].status = w.ctx[x].status
               /\ vx[x].id = w.ctx[x].id /\ vx[x].clean = w.ctx[x].clean
               /\ vx[x].topics = w.ctx[x].topics /\ Keeps(vx[x])
    <2>1. w.ctx[x] \in Context /\ Keeps(w.ctx[x]) /\ copies[x] \in Nat
      BY <1>2, Zenon
    <2>2. list(x) \in Seq(Buffer) /\ (copies[x] > 0 => m \in Messages(list(x)))
      BY CopiesOf, Zenon
    <2>3. w.ctx[x].owed \subseteq Msg /\ w.ctx[x].conn \in Conn \cup {Null}
      BY <2>1, ContextFields, Zenon
    <2>4. owed(x) \in SUBSET Msg /\ owed(x) \subseteq w.ctx[x].owed \cup Messages(list(x))
      BY <2>2, <2>3, Zenon
    <2>5. left(x) \in Conn \cup {Null}
      BY <2>3, Zenon
    <2>6. vx[x] = Received(w.ctx[x], list(x), owed(x), left(x))
      BY Zenon
    <2> HIDE DEF vx, list, owed, left
    <2> QED BY <2>1, <2>2, <2>4, <2>5, <2>6, ReceivedContext
  <1>6. vn \in [Conn -> Connection] /\ vx \in [Ctx -> Context]
    <2>1. vn = [d \in Conn |-> vn[d]] /\ vx = [x \in Ctx |-> vx[x]]
      OBVIOUS
    <2> HIDE DEF vn, vx
    <2> QED BY <1>4, <1>5, <2>1, Zenon
  <1>7. ASSUME NEW x \in Ctx, NEW d \in failed, w.conn[d].ctx = x
        PROVE  ~w.ctx[x].clean
    BY <1>7, Zenon DEF IteratorLost
  <1> HIDE DEF v, vn, vx
  <1>8. Update(w.conn, w.ctx, w.subs, failed, vn, vx, w.subs)
    BY <1>2, <1>4, <1>5, <1>6, <1>7, Zenon DEF Update
  <1>9. Coherent(vn, vx, w.registry, w.subs, Null)
    BY <1>1, <1>8, UpdateCoherent, Zenon
  <1>10. IsWorld(v) /\ v.conn = vn /\ v.ctx = vx /\ v.registry = w.registry /\ v.subs = w.subs
    BY <1>1, <1>3, WorldExcept
  <1> QED BY <1>4, <1>9, <1>10, Zenon DEF WInv, WInvBut, v

-----------------------------------------------------------------------------
(* The inductive invariant.                                                *)
Rest ==
    /\ retained \in [Topic -> {-m : m \in Msg} \cup {0}]
    /\ last_id \in 0 .. MaxMsg /\ parent \in 0 .. MaxParent

SInv == WInv(World) /\ Linked /\ Rest

LEMMA WorldParts ==
    /\ World.conn = conn /\ World.ctx = ctx /\ World.registry = registry /\ World.subs = subs
    /\ IsWorld(World)
  BY Zenon DEF World, IsWorld

LEMMA StateFacts ==
    ASSUME SInv
    PROVE  /\ Coherent(conn, ctx, registry, subs, Null)
           /\ conn \in [Conn -> Connection] /\ ctx \in [Ctx -> Context]
           /\ registry \in [ClientId -> Ctx \cup {Null}] /\ subs \in [Topic -> SUBSET Ctx]
           /\ \A x \in Ctx : Keeps(ctx[x])
           /\ \A c \in Conn : conn[c].ctx \in Ctx \cup {Null}
  <1>1. Coherent(conn, ctx, registry, subs, Null)
    BY WorldParts, Zenon DEF SInv, WInv, WInvBut
  <1>2. conn \in [Conn -> Connection]
    BY <1>1, Zenon DEF Coherent
  <1>3. \A c \in Conn : conn[c].ctx \in Ctx \cup {Null}
    BY <1>2, Zenon DEF Connection
  <1> QED BY <1>1, <1>3, Zenon DEF Coherent

LEMMA BecomesStep ==
    ASSUME NEW w, WInv(w), Becomes(w), Rest'
    PROVE  SInv'
  BY BecomesInv, Zenon DEF SInv

LEMMA QuietStep ==
    ASSUME SInv, Update(conn, ctx, subs, {}, conn', ctx', subs'), registry' = registry, Rest'
    PROVE  SInv'
  <1>1. Coherent(conn', ctx', registry, subs', Null)
    BY StateFacts, UpdateCoherent, Zenon
  <1>2. WInv(World)'
    <2>1. World' = [conn |-> conn', ctx |-> ctx', registry |-> registry', subs |-> subs']
      BY Zenon DEF World
    <2> QED BY <1>1, <2>1, Zenon DEF WInv, WInvBut, IsWorld
  <1>3. Linked'
    <2>1. ASSUME NEW x \in Ctx, ctx'[x].conn # Null PROVE conn'[ctx'[x].conn].ctx = x
      <3>1. ctx'[x].conn = ctx[x].conn /\ ctx[x].conn \in Conn \cup {Null}
        BY ContextFields, Zenon DEF Update
      <3> QED BY <2>1, <3>1, Zenon DEF Update, SInv, Linked
    <2> QED BY <2>1, Zenon DEF Linked
  <1> QED BY <1>2, <1>3, Zenon DEF SInv

LEMMA RestSame ==
    ASSUME SInv, UNCHANGED <<retained, last_id, parent>>
    PROVE  Rest'
  BY Zenon DEF SInv, Rest

-----------------------------------------------------------------------------
(* The buffers of messages that a broker whose last id is n may have.      *)
Old(n) == {b \in Buffer \cup {Ctl} : Message(b) \in Own => Message(b) <= n}

Below(cn, cx, n) ==
    /\ \A x \in Ctx : cx[x].queue \in Seq(Old(n))
    /\ \A c \in Conn : cn[c].outq \in Seq(Old(n))

(* The broker has no buffer of a message with an id it has yet to give.    *)
Fresh == Below(conn, ctx, last_id) /\ \A t \in Topic : retained[t] \in Old(last_id)

LEMMA OldFacts ==
    ASSUME NEW n \in Nat
    PROVE  /\ Ctl \in Old(n) /\ Old(n) \subseteq Buffer \cup {Ctl}
           /\ \A p \in Nat : n <= p => Old(n) \subseteq Old(p)
           /\ \A m \in Msg : m \notin Own \/ m <= n => m \in Old(n) /\ -m \in Old(n)
  <1>1. \A b \in Buffer : Message(b) \in Nat
    BY MessageFacts, Zenon
  <1>2. Message(Ctl) = 0 /\ 0 \notin Own
    BY MessageFacts DEF Own
  <1>3. \A m \in Msg : m \in Buffer /\ -m \in Buffer /\ Message(m) = m /\ Message(-m) = m
    BY MessageFacts, Zenon DEF Buffer
  <1>4. ASSUME NEW p \in Nat, n <= p PROVE Old(n) \subseteq Old(p)
    BY <1>1, <1>2, <1>4 DEF Old
  <1> QED BY <1>2, <1>3, <1>4, Zenon DEF Old

-----------------------------------------------------------------------------
LEMMA EmptyCoherent ==
    /\ Coherent(NoConn, NoCtx, NoClient, NoSub, Null)
    /\ \A x \in Ctx : NoCtx[x].conn = Null
  <1>1. Closed \in Connection /\ Closed.ctx = Null
    BY DEF Closed, Connection
  <1>2. Freed \in Context
    BY NewContextType, Zenon DEF Freed
  <1>3. Keeps(Freed)
    BY NewContextType, Zenon DEF Freed
  <1>4. Freed.conn = Null
    BY NewContextType, Zenon DEF Freed
  <1> QED BY <1>1, <1>2, <1>3, <1>4, Zenon DEF Coherent, NoConn, NoCtx, NoClient, NoSub

LEMMA EmptyInv ==
    ASSUME conn = NoConn, ctx = NoCtx, registry = NoClient, subs = NoSub
    PROVE  WInv(World) /\ Linked
  BY EmptyCoherent, WorldParts, Zenon DEF WInv, WInvBut, Linked

LEMMA EmptyInvPrime ==
    ASSUME conn' = NoConn, ctx' = NoCtx, registry' = NoClient, subs' = NoSub
    PROVE  WInv(World)' /\ Linked'
  <1>1. World' = [conn |-> conn', ctx |-> ctx', registry |-> registry', subs |-> subs']
    BY Zenon DEF World
  <1> QED BY <1>1, EmptyCoherent, Zenon DEF WInv, WInvBut, IsWorld, Linked

LEMMA RestEmpty == NoRetained \in [Topic -> {-m : m \in Msg} \cup {0}] /\ 0 \in 0 .. MaxMsg /\ 0 \in 0 .. MaxParent
  BY SizeAssumption DEF NoRetained

LEMMA InitSInv == Init => SInv
  BY EmptyInv, RestEmpty, Zenon DEF Init, SInv, Rest

LEMMA CrashInv ==
    ASSUME NEW why, Crash(why)
    PROVE  SInv'
  BY EmptyInvPrime, RestEmpty, Zenon DEF Crash, SInv, Rest

LEMMA SetOpen ==
    ASSUME NEW k \in Connection, NEW b \in BOOLEAN
    PROVE  /\ [k EXCEPT !.open = b] \in Connection
           /\ [k EXCEPT !.open = b].open = b /\ [k EXCEPT !.open = b].ctx = k.ctx
  BY Zenon DEF Connection

LEMMA AcceptInv ==
    ASSUME SInv, NEW c \in Conn, Accept(c)
    PROVE  SInv'
  <1>1. conn \in [Conn -> Connection] /\ conn[c] \in Connection /\ conn' = [conn EXCEPT ![c].open = TRUE]
    BY StateFacts, Zenon DEF Accept
  <1>2. /\ [conn[c] EXCEPT !.open = TRUE] \in Connection
        /\ [conn[c] EXCEPT !.open = TRUE].open = TRUE
        /\ [conn[c] EXCEPT !.open = TRUE].ctx = conn[c].ctx
    BY <1>1, SetOpen, Zenon
  <1>3. /\ conn' \in [Conn -> Connection]
        /\ \A d \in Conn : (conn[d].open => conn'[d].open) /\ conn'[d].ctx = conn[d].ctx
    BY <1>1, <1>2, Zenon
  <1>4. UNCHANGED <<ctx, registry, subs, retained, last_id, parent>>
    BY Zenon DEF Accept
  <1>5. Update(conn, ctx, subs, {}, conn', ctx', subs')
    BY <1>3, <1>4, StateFacts, Zenon DEF Update
  <1> QED BY <1>4, <1>5, QuietStep, RestSame, Zenon
-----------------------------------------------------------------------------
(* PUBACK.  The message that leaves the queue is the one that the client   *)
(* acknowledges, if no two messages share an id on the wire.               *)
LEMMA TailMessages ==
    ASSUME NEW q \in Seq(Buffer), q # <<>>
    PROVE  /\ Head(q) \in Buffer /\ Tail(q) \in Seq(Buffer)
           /\ Messages(q) \subseteq Messages(Tail(q)) \cup {Message(Head(q))}
  <1>1. /\ Head(q) \in Buffer /\ Tail(q) \in Seq(Buffer) /\ Head(q) = q[1]
        /\ DOMAIN q = 1 .. Len(q) /\ DOMAIN Tail(q) = 1 .. Len(q) - 1 /\ Len(q) \in Nat \ {0}
        /\ \A j \in 1 .. Len(q) : j # 1 => j - 1 \in 1 .. Len(q) - 1 /\ Tail(q)[j - 1] = q[j]
    OBVIOUS
  <1>2. ASSUME NEW j \in 1 .. Len(q) PROVE q[j] \in Range(Tail(q)) \cup {Head(q)}
    <2>1. CASE j = 1
      BY <2>1
    <2>2. CASE j # 1
      <3>1. j - 1 \in DOMAIN Tail(q) /\ Tail(q)[j - 1] = q[j]
        BY <2>2
      <3> QED BY <3>1, Zenon DEF Range
    <2> QED BY <2>2
  <1>3. Range(q) \subseteq Range(Tail(q)) \cup {Head(q)}
    BY <1>2 DEF Range
  <1> QED BY <1>3 DEF Messages

LEMMA AckMsg ==
    ASSUME NEW q \in Seq(Buffer), NEW m \in Msg
    PROVE  /\ ack_msg(q, m) \in Seq(Buffer)
           /\ UniqueIds => Messages(q) \subseteq Messages(ack_msg(q, m)) \cup {m}
  <1>1. CASE q # <<>> /\ msg_id(Head(q)) = msg_id(m)
    <2>1. ack_msg(q, m) = Tail(q)
      BY <1>1, Zenon DEF ack_msg
    <2>2. UniqueIds => Message(Head(q)) = m
      <3>1. m \in Buffer /\ Message(m) = m
        BY MessageFacts, Zenon
      <3> QED BY <1>1, <3>1 DEF UniqueIds
    <2> QED BY <1>1, <2>1, <2>2, TailMessages, Zenon
  <1>2. CASE ~(q # <<>> /\ msg_id(Head(q)) = msg_id(m))
    BY <1>2, Zenon DEF ack_msg
  <1> QED BY <1>1, <1>2, Zenon

LEMMA AcknowledgedContext ==
    ASSUME NEW k \in Context, NEW m \in Msg
    PROVE  /\ Acknowledged(k, m) \in Context
           /\ Acknowledged(k, m).conn = k.conn /\ Acknowledged(k, m).status = k.status
           /\ Acknowledged(k, m).id = k.id /\ Acknowledged(k, m).clean = k.clean
           /\ Acknowledged(k, m).topics = k.topics
           /\ Keeps(k) => Keeps(Acknowledged(k, m))
  <1> DEFINE q == ack_msg(k.queue, m)
             a == k.acked \cup {m}
             k1 == [k EXCEPT !.queue = q]
             v == Acknowledged(k, m)
  <1>1. k.queue \in Seq(Buffer) /\ k.acked \subseteq Msg
    BY ContextFields, Zenon
  <1>2. q \in Seq(Buffer) /\ (UniqueIds => Messages(k.queue) \subseteq Messages(q) \cup {m})
    BY <1>1, AckMsg, Zenon
  <1>3. v = [k1 EXCEPT !.acked = a]
    BY Zenon DEF Acknowledged, Context
  <1>4. a \in SUBSET Msg
    BY <1>1, Zenon
  <1>a. m \in a /\ k.acked \subseteq a
    BY Zenon
  <1> HIDE DEF q, a, v
  <1>5. k1 \in Context /\ k1.queue = q /\ k1.conn = k.conn /\ k1.status = k.status /\ k1.id = k.id
        /\ k1.clean = k.clean /\ k1.topics = k.topics /\ k1.owed = k.owed
    BY <1>2, Zenon DEF Context
  <1> HIDE DEF k1
  <1>6. v \in Context /\ v.queue = q /\ v.conn = k.conn /\ v.status = k.status /\ v.id = k.id
        /\ v.clean = k.clean /\ v.topics = k.topics /\ v.owed = k.owed /\ v.acked = a
    BY <1>3, <1>4, <1>5, Zenon DEF Context
  <1>7. Keeps(k) => Keeps(v)
    BY <1>2, <1>6, <1>a, Zenon DEF Keeps
  <1> QED BY <1>6, <1>7, Zenon DEF v

LEMMA SetSent ==
    ASSUME NEW k \in Connection, NEW s \in Seq(Msg)
    PROVE  /\ [k EXCEPT !.sent = s] \in Connection
           /\ [k EXCEPT !.sent = s].open = k.open /\ [k EXCEPT !.sent = s].ctx = k.ctx
  BY Zenon DEF Connection

LEMMA PubackInv ==
    ASSUME SInv, NEW c \in Conn, Puback(c)
    PROVE  SInv'
  <1> DEFINE k == conn[c]
             s == Tail(k.sent)
             m == Head(k.sent)
             x == k.ctx
  <1>1. /\ conn \in [Conn -> Connection] /\ k \in Connection /\ k.sent \in Seq(Msg) /\ k.sent # <<>>
        /\ x \in Ctx \cup {Null} /\ ctx \in [Ctx -> Context] /\ \A y \in Ctx : Keeps(ctx[y])
    <2>1. conn \in [Conn -> Connection] /\ k.sent # <<>> /\ ctx \in [Ctx -> Context] /\ \A y \in Ctx : Keeps(ctx[y])
      BY StateFacts, Zenon DEF Puback
    <2>2. k \in Connection
      BY <2>1, Zenon
    <2> HIDE DEF k
    <2> QED BY <2>1, <2>2, Zenon DEF Connection
  <1>2. s \in Seq(Msg) /\ m \in Msg
    BY <1>1
  <1>3. /\ conn' = [conn EXCEPT ![c] = [k EXCEPT !.sent = s]]
        /\ ctx' = [ctx EXCEPT ![x] = Acknowledged(@, m)]
        /\ UNCHANGED <<registry, subs, retained, last_id, parent>>
    BY Zenon DEF Puback
  <1> HIDE DEF k, s, m, x
  <1>4. /\ conn' \in [Conn -> Connection]
        /\ \A d \in Conn : conn'[d].open = conn[d].open /\ conn'[d].ctx = conn[d].ctx
    <2>1. /\ [k EXCEPT !.sent = s] \in Connection
          /\ [k EXCEPT !.sent = s].open = k.open /\ [k EXCEPT !.sent = s].ctx = k.ctx
      BY <1>1, <1>2, SetSent, Zenon
    <2> QED BY <1>1, <1>3, <2>1, Zenon DEF k
  <1>5. ctx' \in [Ctx -> Context] /\ \A y \in Ctx : ctx'[y] = IF y = x THEN Acknowledged(ctx[y], m) ELSE ctx[y]
    <2>1. CASE x \in Ctx
      <3>1. Acknowledged(ctx[x], m) \in Context
        BY <1>1, <1>2, <2>1, AcknowledgedContext, Zenon
      <3> QED BY <1>1, <1>3, <2>1, <3>1, Zenon
    <2>2. CASE x = Null
      BY <1>1, <1>3, <2>2, NullFacts, Zenon
    <2> QED BY <1>1, <2>1, <2>2, Zenon
  <1>6. ASSUME NEW y \in Ctx
        PROVE  /\ ctx'[y].conn = ctx[y].conn /\ ctx'[y].status = ctx[y].status
               /\ ctx'[y].id = ctx[y].id /\ ctx'[y].clean = ctx[y].clean
               /\ ctx'[y].topics = ctx[y].topics /\ Keeps(ctx'[y])
    <2>1. ctx[y] \in Context /\ Keeps(ctx[y])
      BY <1>1, Zenon
    <2> QED BY <1>2, <1>5, <2>1, AcknowledgedContext
  <1>7. Update(conn, ctx, subs, {}, conn', ctx', subs')
    BY <1>3, <1>4, <1>5, <1>6, StateFacts, Zenon DEF Update
  <1> QED BY <1>3, <1>7, QuietStep, RestSame, Zenon
LEMMA WrittenType ==
    ASSUME NEW k \in Connection, k.outq # <<>>, NEW again \in BOOLEAN
    PROVE  /\ Written(k, again) \in Connection
           /\ Written(k, again).open = k.open /\ Written(k, again).ctx = k.ctx
  <1> DEFINE o == IF again THEN k.outq ELSE Tail(k.outq)
             e == Expects(<<Head(k.outq)>>)
             s == k.sent \o e
             k1 == [k EXCEPT !.outq = o]
  <1>1. k.outq \in Seq(Buffer \cup {Ctl}) /\ k.sent \in Seq(Msg)
    BY Zenon DEF Connection
  <1>2. o \in Seq(Buffer \cup {Ctl}) /\ <<Head(k.outq)>> \in Seq(Buffer \cup {Ctl})
    BY <1>1
  <1>3. e \in Seq(Msg)
    BY <1>2, ExpectsType, Zenon
  <1> HIDE DEF e
  <1>4. s \in Seq(Msg)
    BY <1>1, <1>3
  <1>5. Written(k, again) = [k1 EXCEPT !.sent = s]
    BY Zenon DEF Written, e, Connection
  <1> HIDE DEF o, s
  <1>6. k1 \in Connection /\ k1.open = k.open /\ k1.ctx = k.ctx
    BY <1>2, Zenon DEF Connection
  <1> HIDE DEF k1
  <1> QED BY <1>4, <1>5, <1>6, SetSent, Zenon

LEMMA HandleOutputInv ==
    ASSUME SInv, NEW c \in Conn, NEW again \in BOOLEAN, HandleOutput(c, again)
    PROVE  SInv'
  <1>1. conn \in [Conn -> Connection] /\ conn[c] \in Connection /\ conn[c].outq # <<>>
    BY StateFacts, Zenon DEF HandleOutput
  <1>2. conn' = [conn EXCEPT ![c] = Written(@, again)]
        /\ UNCHANGED <<ctx, registry, subs, retained, last_id, parent>>
    BY Zenon DEF HandleOutput
  <1>3. /\ conn' \in [Conn -> Connection]
        /\ \A d \in Conn : conn'[d].open = conn[d].open /\ conn'[d].ctx = conn[d].ctx
    BY <1>1, <1>2, WrittenType, Zenon
  <1>4. Update(conn, ctx, subs, {}, conn', ctx', subs')
    BY <1>2, <1>3, StateFacts, Zenon DEF Update
  <1> QED BY <1>2, <1>4, QuietStep, RestSame, Zenon

-----------------------------------------------------------------------------
(* Closing.                                                                *)
LEMMA CloseOf ==
    ASSUME NEW w, WInv(w), NEW c \in Conn, w.conn[c].ctx # Null
    PROVE  WInv(handle_close(w, c))
  <1>1. WInvBut(w, w.conn[c].ctx)
    BY NoException, Zenon DEF WInv, WInvBut
  <1> QED BY <1>1, CloseInv, Zenon

LEMMA PubackFirstInv ==
    ASSUME SInv, NEW c \in Conn, PubackFirst(c)
    PROVE  SInv'
  <1>1. PICK w \in client_context(c) : Becomes(w)
    BY Zenon DEF PubackFirst
  <1>2. WInv(w)
    BY ContextInv, Zenon DEF SInv, PubackFirst
  <1> QED BY <1>1, <1>2, BecomesStep, RestSame, Zenon DEF PubackFirst

LEMMA TooEarlyInv ==
    ASSUME SInv, NEW c \in Conn, TooEarly(c)
    PROVE  SInv'
  <1>1. PICK w \in client_context(c) : Becomes(handle_close(w, c))
    BY Zenon DEF TooEarly
  <1>2. WInv(w) /\ w.conn[c].ctx # Null
    BY ContextInv, NullFacts, Zenon DEF SInv, TooEarly
  <1>3. WInv(handle_close(w, c))
    BY <1>2, CloseOf, Zenon
  <1> QED BY <1>1, <1>3, BecomesStep, RestSame, Zenon DEF TooEarly

LEMMA CloseStep ==
    ASSUME SInv, NEW c \in Conn, Close(c)
    PROVE  SInv'
  <1>1. CASE conn[c].ctx = Null
    BY <1>1, CrashInv, Zenon DEF Close
  <1>2. CASE conn[c].ctx # Null
    <2>1. WInv(handle_close(World, c))
      BY <1>2, CloseOf, WorldParts, Zenon DEF SInv
    <2> QED BY <1>2, <2>1, BecomesStep, RestSame, Zenon DEF Close
  <1> QED BY <1>1, <1>2, Zenon

LEMMA IdleCloseInv ==
    ASSUME SInv, NEW cs \in SUBSET Conn, IdleClose(cs)
    PROVE  SInv'
  <1>1. WInv(CloseIdle(cs))
    BY CloseIdleInv, Zenon DEF SInv, IdleClose
  <1> QED BY <1>1, BecomesStep, RestSame, Zenon DEF IdleClose

(* DISCONNECT: the session is closed with the status that it lost.         *)
LEMMA StatusCoherent ==
    ASSUME NEW cn, NEW cx, NEW rg, NEW sb, Coherent(cn, cx, rg, sb, Null),
           NEW x \in Ctx, NEW s \in Status
    PROVE  Coherent(cn, [cx EXCEPT ![x].status = s], rg, sb, x)
  <1> DEFINE k == [cx[x] EXCEPT !.status = s]
             vx == [cx EXCEPT ![x] = k]
  <1>1. /\ cn \in [Conn -> Connection] /\ cx \in [Ctx -> Context]
        /\ rg \in [ClientId -> Ctx \cup {Null}] /\ sb \in [Topic -> SUBSET Ctx]
    BY Zenon DEF Coherent
  <1>2. k \in Context /\ k.conn = cx[x].conn /\ k.id = cx[x].id /\ k.topics = cx[x].topics /\ Keeps(k)
    <2>1. cx[x] \in Context /\ Keeps(cx[x])
      BY Zenon DEF Coherent
    <2>2. k \in Context /\ k.conn = cx[x].conn /\ k.id = cx[x].id /\ k.topics = cx[x].topics
          /\ k.owed = cx[x].owed /\ k.queue = cx[x].queue /\ k.acked = cx[x].acked
      BY <2>1, Zenon DEF Context
    <2> HIDE DEF k
    <2> QED BY <2>1, <2>2, Zenon DEF Keeps
  <1> HIDE DEF k
  <1>3. vx \in [Ctx -> Context] /\ vx[x] = k /\ \A y \in Ctx : y # x => vx[y] = cx[y]
    BY <1>1, <1>2, Zenon
  <1> HIDE DEF vx
  <1>4. \A y \in Ctx : y # x => (Held(cn, cx, y) => Held(cn, vx, y))
    BY <1>3, Zenon DEF Held
  <1>5. \A y \in Ctx : vx[y].conn = cx[y].conn /\ vx[y].id = cx[y].id /\ vx[y].topics = cx[y].topics
    BY <1>2, <1>3, Zenon
  <1>6. \A d \in Conn : cn[d].ctx # Null => cn[d].open /\ vx[cn[d].ctx].conn = d
    BY <1>1, <1>5, Zenon DEF Coherent, Connection
  <1>7. \A i \in ClientId : rg[i] # Null => vx[rg[i]].id = i /\ (rg[i] # x => Held(cn, vx, rg[i]))
    <2>1. \A i \in ClientId : rg[i] # Null => rg[i] \in Ctx /\ cx[rg[i]].id = i /\ Held(cn, cx, rg[i])
      BY DEF Coherent
    <2> QED BY <1>4, <1>5, <2>1, Zenon
  <1>8. \A t \in Topic : \A y \in sb[t] : t \in vx[y].topics /\ (y # x => Held(cn, vx, y))
    <2>1. \A t \in Topic : \A y \in sb[t] : y \in Ctx /\ t \in cx[y].topics /\ Held(cn, cx, y)
      BY <1>1, NoException DEF Coherent
    <2> QED BY <1>4, <1>5, <2>1, Zenon
  <1>9. Coherent(cn, vx, rg, sb, x)
    <2>1. \A y \in Ctx : Keeps(vx[y])
      BY <1>2, <1>3, Zenon DEF Coherent
    <2> QED BY <1>1, <1>3, <1>6, <1>7, <1>8, <2>1, Zenon DEF Coherent
  <1> QED BY <1>9, Zenon DEF vx, k

Quit(w, c) == WithCtx(w, [w.ctx EXCEPT ![w.conn[c].ctx].status = "CS_DISCONNECTED"])

LEMMA DisconnectWorld ==
    ASSUME NEW w, WInv(w), NEW c, w.conn[c].ctx \in Ctx
    PROVE  /\ WInvBut(Quit(w, c), w.conn[c].ctx)
           /\ Quit(w, c).conn = w.conn /\ Quit(w, c).registry = w.registry
           /\ \A x \in Ctx : Quit(w, c).ctx[x].queue = w.ctx[x].queue
  <1> DEFINE x == w.conn[c].ctx
             vx == [w.ctx EXCEPT ![x].status = "CS_DISCONNECTED"]
             v == Quit(w, c)
  <1>1. IsWorld(w) /\ Coherent(w.conn, w.ctx, w.registry, w.subs, Null) /\ w.ctx \in [Ctx -> Context]
    BY Zenon DEF WInv, WInvBut, Coherent
  <1>2. Coherent(w.conn, vx, w.registry, w.subs, x)
    <2>1. "CS_DISCONNECTED" \in Status /\ x \in Ctx
      BY Zenon DEF Status
    <2> HIDE DEF x
    <2> QED BY <1>1, <2>1, StatusCoherent, Zenon
  <1>3. \A y \in Ctx : vx[y].queue = w.ctx[y].queue
    BY DEF Context
  <1>4. v = WithCtx(w, vx)
    BY Zenon DEF Quit
  <1> HIDE DEF vx, v, x
  <1>5. IsWorld(v) /\ v.conn = w.conn /\ v.ctx = vx /\ v.registry = w.registry /\ v.subs = w.subs
    BY <1>1, <1>4, WorldExcept
  <1> QED BY <1>2, <1>3, <1>5, Zenon DEF WInvBut, v, x

LEMMA DisconnectInv ==
    ASSUME SInv, NEW c \in Conn, Disconnect(c)
    PROVE  SInv'
  <1>1. PICK w \in client_context(c) : Becomes(handle_close(Quit(w, c), c))
    BY Zenon DEF Disconnect, Quit, WithCtx
  <1>2. WInv(w) /\ w.conn[c].ctx \in Ctx
    BY ContextInv, Zenon DEF SInv, Disconnect
  <1>3. WInv(handle_close(Quit(w, c), c))
    BY <1>2, DisconnectWorld, CloseInv, NullFacts, Zenon
  <1> QED BY <1>1, <1>3, BecomesStep, RestSame, Zenon DEF Disconnect
-----------------------------------------------------------------------------
(* Requests.                                                               *)
LEMMA OneReply == <<Ctl>> \in Seq(Buffer \cup {Ctl}) /\ Len(<<Ctl>>) = 1
  OBVIOUS

LEMMA PingreqInv ==
    ASSUME SInv, NEW c \in Conn, NEW n \in Nat, Pingreq(c, n)
    PROVE  SInv'
  <1>1. CASE Refused(conn[c], <<Ctl>>, n) /\ conn[c].ctx = Null
    BY <1>1, CrashInv, Zenon DEF Pingreq
  <1>2. CASE ~(Refused(conn[c], <<Ctl>>, n) /\ conn[c].ctx = Null)
    <2>1. WInv(Reply(World, c, <<Ctl>>, n))
      <3>1. n <= Len(<<Ctl>>)
        BY Zenon DEF Pingreq
      <3>2. Refused(World.conn[c], <<Ctl>>, n) => World.conn[c].ctx # Null
        BY <1>2, WorldParts, Zenon
      <3> QED BY <3>1, <3>2, OneReply, ReplyInv, Zenon DEF SInv
    <2>2. Becomes(Reply(World, c, <<Ctl>>, n)) /\ UNCHANGED <<retained, last_id, parent>>
      BY <1>2, Zenon DEF Pingreq
    <2> QED BY <2>1, <2>2, BecomesStep, RestSame, Zenon
  <1> QED BY <1>1, <1>2, Zenon

LEMMA ConnAckInv ==
    ASSUME SInv, NEW c \in Conn, NEW n \in Nat, NEW w, WInv(w), w.conn[c].ctx \in Ctx, ConnAck(w, c, n)
    PROVE  SInv'
  <1> DEFINE q == w.ctx[w.conn[c].ctx].queue
             packets == <<Ctl>> \o q
  <1>1. q \in Seq(Buffer)
    <2>1. w.ctx[w.conn[c].ctx] \in Context
      BY Zenon DEF WInv, WInvBut, Coherent
    <2> QED BY <2>1, ContextFields, Zenon
  <1>2. packets \in Seq(Buffer \cup {Ctl})
    <2> HIDE DEF q
    <2>1. q \in Seq(Buffer \cup {Ctl})
      BY <1>1
    <2> QED BY <2>1
  <1>3. n <= Len(packets) /\ Becomes(Reply(w, c, packets, n)) /\ UNCHANGED <<retained, last_id, parent>>
    BY Zenon DEF ConnAck
  <1> HIDE DEF packets
  <1>4. WInv(Reply(w, c, packets, n))
    BY <1>2, <1>3, ReplyInv, NullFacts, Zenon
  <1> QED BY <1>3, <1>4, BecomesStep, RestSame, Zenon

LEMMA ConnectBadIdInv ==
    ASSUME SInv, NEW c \in Conn, NEW n \in Nat, ConnectBadId(c, n)
    PROVE  SInv'
  <1>1. PICK w \in client_context(c) : ConnAck(w, c, n)
    BY Zenon DEF ConnectBadId
  <1>2. WInv(w) /\ w.conn[c].ctx \in Ctx
    BY ContextInv, Zenon DEF SInv, ConnectBadId, Request
  <1> QED BY <1>1, <1>2, ConnAckInv, Zenon

(* A session that is not in the state CS_CONNECTED and has a connection is *)
(* in no table: it can be registered.                                      *)
LEMMA ConnectNewWorld ==
    ASSUME SInv, NEW c \in Conn, NEW i \in ClientId, NEW clean \in BOOLEAN, Request(c), ~Connected(c),
           NEW w \in client_context(c), NEW x, x = w.conn[c].ctx
    PROVE  /\ WInv(w) /\ x \in Ctx
           /\ WInv(Registered(init(w, c, x, i, clean), i, x))
           /\ Registered(init(w, c, x, i, clean), i, x).conn[c].ctx = x
  <1>1. WInv(w) /\ x \in Ctx /\ w.conn[c].open /\ w.ctx[x].status # "CS_CONNECTED"
    BY ContextInv, Zenon DEF SInv, Request
  <1>2. Coherent(w.conn, w.ctx, w.registry, w.subs, Null)
    BY <1>1, Zenon DEF WInv, WInvBut
  <1>3. w.ctx[x].conn = c
    BY <1>1, <1>2, NullFacts, Zenon DEF Coherent
  <1>4. \A j \in ClientId : w.registry[j] # x
    BY <1>1, <1>2, <1>3, NullFacts, NoException DEF Held
  <1> QED BY <1>1, <1>3, <1>4, InitInv

LEMMA ConnectNewInv ==
    ASSUME SInv, NEW c \in Conn, NEW i \in ClientId, NEW clean \in BOOLEAN, NEW n \in Nat,
           ConnectNew(c, i, clean, n)
    PROVE  SInv'
  <1>1. Request(c) /\ ~Connected(c)
    BY Zenon DEF ConnectNew
  <1>2. PICK w \in client_context(c) :
            ConnAck(Registered(init(w, c, w.conn[c].ctx, i, clean), i, w.conn[c].ctx), c, n)
    BY Zenon DEF ConnectNew, Registered
  <1> DEFINE x == w.conn[c].ctx
             v == Registered(init(w, c, x, i, clean), i, x)
  <1>3. WInv(v) /\ v.conn[c].ctx = x /\ x \in Ctx
    BY <1>1, ConnectNewWorld
  <1>4. ConnAck(v, c, n)
    BY <1>2, Zenon
  <1> HIDE DEF v
  <1> QED BY <1>3, <1>4, ConnAckInv, Zenon

LEMMA CloseParts ==
    ASSUME NEW c, NEW x, x = conn[c].ctx
    PROVE  /\ handle_close(World, c).conn = [conn EXCEPT ![c] = Closed]
           /\ handle_close(World, c).ctx = [ctx EXCEPT ![x].conn = Null]
           /\ handle_close(World, c).registry =
                IF ctx[x].clean THEN del_client_id(registry, ctx[x].id) ELSE registry
  BY WorldParts, Zenon DEF handle_close

(* The world in which the session of client id i is taken over: nobody has *)
(* the session any more.                                                   *)
Vacated(i) ==
    IF ctx[registry[i]].conn # Null THEN handle_close(World, ctx[registry[i]].conn) ELSE World

LEMMA ConnectKnownWorld ==
    ASSUME SInv, NEW c \in Conn, NEW i \in ClientId, NEW clean \in BOOLEAN, Request(c), ~Connected(c),
           registry[i] # Null
    PROVE  /\ WInv(Vacated(i)) /\ registry[i] \in Ctx
           /\ ctx[registry[i]].conn # Null =>
                ctx[registry[i]].conn \in Conn /\ conn[ctx[registry[i]].conn].ctx = registry[i]
           /\ WInv(init(Vacated(i), c, registry[i], i, clean))
           /\ init(Vacated(i), c, registry[i], i, clean).conn[c].ctx = registry[i]
  <1> DEFINE x == registry[i]
             last == ctx[x].conn
             w == Vacated(i)
  <1>1. conn[c].open /\ ~Connected(c) /\ x # Null
    BY Zenon DEF Request
  <1>2. w = IF last # Null THEN handle_close(World, last) ELSE World
    BY Zenon DEF Vacated
  <1> HIDE DEF w
  <1>3. x \in Ctx /\ ctx[x].id = i /\ Held(conn, ctx, x) /\ last \in Conn \cup {Null}
    BY <1>1, StateFacts, NoException, ContextFields, Zenon DEF Coherent
  <1>4. conn[c].ctx # Null => ctx[conn[c].ctx].status # "CS_CONNECTED"
    BY <1>1, Zenon DEF Connected
  <1>5. \A j \in ClientId : registry[j] = x => j = i
    BY <1>3, StateFacts, Zenon DEF Coherent
  <1>6. /\ WInv(w) /\ w.conn[c].open /\ w.ctx[x].conn = Null
        /\ w.conn[c].ctx # Null => w.ctx[w.conn[c].ctx].status # "CS_CONNECTED"
        /\ \A j \in ClientId : w.registry[j] = x => j = i
    <2>1. CASE last = Null
      <3>1. w = World
        BY <1>2, <2>1, Zenon
      <3> QED BY <1>1, <1>4, <1>5, <2>1, <3>1, WorldParts, Zenon DEF SInv
    <2>2. CASE last # Null
      <3>1. conn[last].ctx = x /\ ctx[x].status = "CS_CONNECTED" /\ last \in Conn
        BY <1>3, <2>2, Zenon DEF Held
      <3>2. last # c
        BY <1>4, <3>1, Zenon
      <3>3. w = handle_close(World, last)
        BY <1>2, <2>2, Zenon
      <3>4. WInv(w)
        BY <3>1, <3>3, WorldParts, CloseOf, Zenon DEF SInv
      <3>5. /\ w.conn = [conn EXCEPT ![last] = Closed] /\ w.ctx = [ctx EXCEPT ![x].conn = Null]
            /\ w.registry = IF ctx[x].clean THEN del_client_id(registry, ctx[x].id) ELSE registry
        <4> HIDE DEF w, last, x
        <4> QED BY <3>1, <3>3, CloseParts, Zenon
      <3> HIDE DEF w, last, x
      <3>6. w.conn[c] = conn[c] /\ w.ctx[x].conn = Null
        BY <1>3, <3>2, <3>5, StateFacts
      <3>7. ASSUME conn[c].ctx # Null PROVE w.ctx[conn[c].ctx] = ctx[conn[c].ctx]
        <4>1. conn[c].ctx \in Ctx /\ conn[c].ctx # x
          BY <1>4, <3>1, <3>7, StateFacts, Zenon
        <4> QED BY <3>5, <4>1
      <3>8. \A j \in ClientId : w.registry[j] = x => j = i
        BY <1>1, <1>5, <3>5 DEF del_client_id
      <3> QED BY <1>1, <1>4, <3>4, <3>6, <3>7, <3>8, Zenon
    <2> QED BY <2>1, <2>2, Zenon
  <1> HIDE DEF w, x, last
  <1>7. WInv(init(w, c, x, i, clean)) /\ init(w, c, x, i, clean).conn[c].ctx = x
    BY <1>3, <1>6, InitInv
  <1>8. last # Null => last \in Conn /\ conn[last].ctx = x
    BY <1>3, Zenon DEF Held, last
  <1> QED BY <1>3, <1>6, <1>7, <1>8, Zenon DEF w, x, last

LEMMA ConnectKnownInv ==
    ASSUME SInv, NEW c \in Conn, NEW i \in ClientId, NEW clean \in BOOLEAN, NEW n \in Nat,
           ConnectKnown(c, i, clean, n)
    PROVE  SInv'
  <1>1. /\ Request(c) /\ ~Connected(c) /\ registry[i] # Null
        /\ ConnAck(init(Vacated(i), c, registry[i], i, clean), c, n)
    BY Zenon DEF ConnectKnown, Vacated
  <1> QED BY <1>1, ConnectKnownWorld, ConnAckInv, Zenon
=============================================================================

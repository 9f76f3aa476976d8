---------------------------- MODULE WorldLemmas -----------------------------
(***************************************************************************)
(* Proofs about the broker core, for any number of connections, sessions,  *)
(* client ids, topics and messages.  The handlers are maps of the world,   *)
(* so the invariant is one of worlds (WInv): here, the maps that handlers  *)
(* are composed of preserve it, CONNECT and the deletion of the sessions   *)
(* that nobody refers to any more (Becomes) included.                      *)
(***************************************************************************)
EXTENDS Session, WellFoundedInduction, TLAPS

-----------------------------------------------------------------------------
(* Induction over the natural numbers in a first-order form, and facts     *)
(* about the lists of module Lists that are proved with it.                *)
LEMMA Minimal ==
    ASSUME NEW R, IsWellFoundedOn(R, Nat), NEW T, T \subseteq Nat, T # {}
    PROVE  \E x \in T : \A y \in T : ~ (<<y, x>> \in R)
  BY WFMin, Zenon

LEMMA LeastBy ==
    ASSUME NEW R, IsWellFoundedOn(R, Nat), \A x, y \in Nat : x < y => <<x, y>> \in R,
           NEW T, T \subseteq Nat, T # {}
    PROVE  \E n \in T : \A m \in T : n <= m
  <1>1. PICK x \in T : \A y \in T : ~ (<<y, x>> \in R)
    BY Minimal, Zenon
  <1>2. ASSUME NEW y \in T PROVE x <= y
    <2>1. x \in Nat /\ y \in Nat
      BY Zenon
    <2>2. ~(y < x)
      BY <1>1, Zenon
    <2> QED BY <2>2
  <1> QED BY <1>2, Zenon

(* A set of natural numbers has a least element.                           *)
LEMMA Least ==
    ASSUME NEW T, T \subseteq Nat, T # {}
    PROVE  \E n \in T : \A m \in T : n <= m
  <1>1. \A x, y \in Nat : x < y => <<x, y>> \in OpToRel(<, Nat)
    BY Zenon DEF OpToRel
  <1> QED BY <1>1, LeastBy, NatLessThanWellFounded, Zenon

(* Induction: a set with 0 and with the successors of its elements has all *)
(* natural numbers.                                                        *)
LEMMA SetInduction ==
    ASSUME NEW S, 0 \in S, \A n \in Nat : n \in S => n + 1 \in S
    PROVE  \A n \in Nat : n \in S
  <1> SUFFICES ASSUME NEW k \in Nat, k \notin S PROVE FALSE
    BY Zenon
  <1> DEFINE T == Nat \ S
  <1>1. T \subseteq Nat /\ T # {}
    BY Zenon
  <1>2. PICK n \in T : \A m \in T : n <= m
    <2> HIDE DEF T
    <2> QED BY <1>1, Least, Zenon
  <1>3. n # 0 /\ n - 1 \in Nat /\ n - 1 \notin T
    BY <1>2
  <1> QED BY <1>2

-----------------------------------------------------------------------------
(* F is the function that Filter computes over the prefixes of s up to n.  *)
Filtering(F, s, keep, n) ==
    F = [i \in 0 .. n |-> IF i = 0 THEN <<>>
                          ELSE IF s[i] \in keep THEN Append(F[i - 1], s[i]) ELSE F[i - 1]]

(* There is such a function, so that the definition of Filter makes sense. *)
LEMMA FilteringExists ==
    ASSUME NEW s, NEW keep
    PROVE  \A n \in Nat : \E F : Filtering(F, s, keep, n)
  <1> DEFINE S == {n \in Nat : \E F : Filtering(F, s, keep, n)}
  <1>1. 0 \in S
    <2>1. Filtering([i \in 0 .. 0 |-> <<>>], s, keep, 0)
      BY DEF Filtering
    <2> QED BY <2>1, Zenon
  <1>2. ASSUME NEW n \in Nat, n \in S PROVE n + 1 \in S
    <2>1. PICK F : Filtering(F, s, keep, n)
      BY <1>2, Zenon
    <2> DEFINE G == [i \in 0 .. n + 1 |->
                       IF i = n + 1 THEN IF s[i] \in keep THEN Append(F[n], s[i]) ELSE F[n]
                       ELSE F[i]]
    <2>2. ASSUME NEW i \in 0 .. n
          PROVE  F[i] = IF i = 0 THEN <<>> ELSE IF s[i] \in keep THEN Append(F[i - 1], s[i]) ELSE F[i - 1]
      BY <2>1, Zenon DEF Filtering
    <2>3. ASSUME NEW i \in 0 .. n + 1
          PROVE  G[i] = IF i = 0 THEN <<>> ELSE IF s[i] \in keep THEN Append(G[i - 1], s[i]) ELSE G[i - 1]
      <3>1. CASE i = n + 1
        <4>1. i # 0 /\ i - 1 = n /\ G[i - 1] = F[n]
          BY <3>1
        <4> QED BY <3>1
      <3>2. CASE i # n + 1 /\ i # 0
        <4>1. i \in 0 .. n /\ i - 1 \in 0 .. n /\ G[i] = F[i] /\ G[i - 1] = F[i - 1]
          BY <3>2
        <4> HIDE DEF G
        <4> QED BY <2>2, <4>1, Zenon
      <3>3. CASE i = 0
        <4>1. i \in 0 .. n /\ G[i] = F[i]
          BY <3>3
        <4> HIDE DEF G
        <4> QED BY <2>2, <3>3, <4>1, Zenon
      <3> QED BY <3>2, <3>3
    <2>4. Filtering(G, s, keep, n + 1)
      <3>1. G = [i \in 0 .. n + 1 |-> G[i]]
        BY Zenon
      <3> HIDE DEF G
      <3> QED BY <3>1 DEF Filtering
    <2> QED BY <2>4
  <1>3. \A n \in Nat : n \in S
    <2> HIDE DEF S
    <2> QED BY <1>1, <1>2, SetInduction, Zenon
  <1> QED BY <1>3, Zenon

(* What each turn of Filter does.                                          *)
LEMMA FilterFunction ==
    ASSUME NEW T, NEW s \in Seq(T), NEW keep
    PROVE  \E F : /\ Filter(s, keep) = F[Len(s)]
                  /\ F[0] = <<>>
                  /\ \A i \in 1 .. Len(s) :
                        F[i] = IF s[i] \in keep THEN Append(F[i - 1], s[i]) ELSE F[i - 1]
  <1> DEFINE F == CHOOSE G : Filtering(G, s, keep, Len(s))
  <1>1. Len(s) \in Nat
    OBVIOUS
  <1>2. Filtering(F, s, keep, Len(s))
    BY <1>1, FilteringExists, Zenon
  <1>3. Filter(s, keep) = F[Len(s)]
    BY Zenon DEF Filter, Filtering
  <1> HIDE DEF F
  <1>4. \A i \in 0 .. Len(s) :
           F[i] = IF i = 0 THEN <<>> ELSE IF s[i] \in keep THEN Append(F[i - 1], s[i]) ELSE F[i - 1]
    BY <1>2, Zenon DEF Filtering
  <1>5. F[0] = <<>>
    BY <1>4
  <1>6. ASSUME NEW i \in 1 .. Len(s)
        PROVE  F[i] = IF s[i] \in keep THEN Append(F[i - 1], s[i]) ELSE F[i - 1]
    <2>1. i \in 0 .. Len(s) /\ i # 0
      OBVIOUS
    <2> QED BY <1>4
  <1> QED BY <1>3, <1>5, <1>6, Zenon

(* Appending an element adds it to the range.                              *)
LEMMA AppendRange ==
    ASSUME NEW T, NEW s \in Seq(T), NEW e \in T
    PROVE  Append(s, e) \in Seq(T) /\ Range(Append(s, e)) = Range(s) \cup {e}
  <1>1. /\ Append(s, e) \in Seq(T) /\ Len(Append(s, e)) = Len(s) + 1
        /\ \A i \in 1 .. Len(s) : Append(s, e)[i] = s[i]
        /\ Append(s, e)[Len(s) + 1] = e
    OBVIOUS
  <1>2. DOMAIN s = 1 .. Len(s) /\ DOMAIN Append(s, e) = 1 .. Len(s) + 1 /\ Len(s) \in Nat
    OBVIOUS
  <1>3. 1 .. Len(s) + 1 = (1 .. Len(s)) \cup {Len(s) + 1}
    OBVIOUS
  <1> QED BY <1>1 DEF Range

(* The filtered list has the elements of the list that are in keep.        *)
LEMMA FilterProperties ==
    ASSUME NEW T, NEW s \in Seq(T), NEW keep
    PROVE  /\ Filter(s, keep) \in Seq(T \cap keep)
           /\ Range(Filter(s, keep)) = Range(s) \cap keep
           /\ Len(Filter(s, keep)) <= Len(s)
  <1>1. PICK F : /\ Filter(s, keep) = F[Len(s)]
                 /\ F[0] = <<>>
                 /\ \A i \in 1 .. Len(s) :
                       F[i] = IF s[i] \in keep THEN Append(F[i - 1], s[i]) ELSE F[i - 1]
    BY FilterFunction
  <1> DEFINE Good(n) == /\ F[n] \in Seq(T \cap keep)
                        /\ Range(F[n]) = {s[j] : j \in 1 .. n} \cap keep
                        /\ Len(F[n]) <= n
             S == {n \in Nat : n <= Len(s) => Good(n)}
  <1>2. 0 \in S
    <2>1. <<>> \in Seq(T \cap keep) /\ Range(<<>>) = {} /\ Len(<<>>) = 0
      BY DEF Range
    <2>2. {s[j] : j \in 1 .. 0} = {}
      OBVIOUS
    <2>3. Good(0)
      BY <1>1, <2>1
    <2> HIDE DEF Good
    <2> QED BY <2>3, Zenon
  <1>3. ASSUME NEW n \in Nat, n \in S PROVE n + 1 \in S
    <2> SUFFICES ASSUME n + 1 <= Len(s) PROVE Good(n + 1)
      OBVIOUS
    <2>1. Good(n) /\ n + 1 \in 1 .. Len(s) /\ n + 1 - 1 = n
      BY <1>3
    <2>2. s[n + 1] \in T
      OBVIOUS
    <2>3. F[n + 1] = IF s[n + 1] \in keep THEN Append(F[n], s[n + 1]) ELSE F[n]
      BY <1>1
    <2>4. {s[j] : j \in 1 .. n + 1} = {s[j] : j \in 1 .. n} \cup {s[n + 1]}
      <3>1. 1 .. n + 1 = (1 .. n) \cup {n + 1}
        OBVIOUS
      <3> QED OBVIOUS
    <2>5. CASE s[n + 1] \in keep
      <3>1. /\ Append(F[n], s[n + 1]) \in Seq(T \cap keep)
            /\ Range(Append(F[n], s[n + 1])) = Range(F[n]) \cup {s[n + 1]}
        BY <2>1, <2>2, <2>5, AppendRange
      <3>2. Len(Append(F[n], s[n + 1])) <= n + 1
        BY <2>1
      <3> QED BY <2>1, <2>3, <3>1
    <2>6. CASE s[n + 1] \notin keep
      <3>1. Len(F[n]) <= n + 1
        BY <2>1
      <3> QED BY <2>1, <2>3, <2>6
    <2> QED BY <2>5, <2>6, Zenon
  <1>4. \A n \in Nat : n \in S
    <2> HIDE DEF S
    <2> QED BY <1>2, <1>3, SetInduction, Zenon
  <1>5. Good(Len(s))
    <2>1. Len(s) \in Nat
      OBVIOUS
    <2>2. Len(s) \in S
      <3> HIDE DEF S
      <3> QED BY <1>4
    <2> HIDE DEF Good
    <2> QED BY <2>2
  <1>6. Range(s) = {s[j] : j \in 1 .. Len(s)}
    <2>1. DOMAIN s = 1 .. Len(s)
      OBVIOUS
    <2> QED BY <2>1, Zenon DEF Range
  <1> QED BY <1>1, <1>5, <1>6, Zenon

-----------------------------------------------------------------------------
(* A session that the registry or a topic holds: it is persistent, or it   *)
(* is linked with a connection that has sent CONNECT.                      *)
Held(cn, cx, x) ==
    IF cx[x].conn = Null THEN ~cx[x].clean
    ELSE cn[cx[x].conn].ctx = x /\ cx[x].status = "CS_CONNECTED"

(* No two messages that a broker handles have the same id on the wire.     *)
UniqueIds == \A a, b \in Buffer : msg_id(a) = msg_id(b) => Message(a) = Message(b)

(* What NoLoss says of one session.                                        *)
Keeps(k) == UniqueIds => k.owed \subseteq Messages(k.queue) \cup k.acked

(* The invariant of a world, by its parts, but for what Held says of y.    *)
Coherent(cn, cx, rg, sb, y) ==
    /\ cn \in [Conn -> Connection] /\ cx \in [Ctx -> Context]
    /\ rg \in [ClientId -> Ctx \cup {Null}] /\ sb \in [Topic -> SUBSET Ctx]
    /\ \A x \in Ctx : Keeps(cx[x])
    /\ \A c \in Conn : cn[c].ctx # Null => cn[c].open /\ cx[cn[c].ctx].conn = c
    /\ \A i \in ClientId : rg[i] # Null => cx[rg[i]].id = i /\ (rg[i] # y => Held(cn, cx, rg[i]))
    /\ \A t \in Topic : \A x \in sb[t] : t \in cx[x].topics /\ (x # y => Held(cn, cx, x))

IsWorld(w) == w = [conn |-> w.conn, ctx |-> w.ctx, registry |-> w.registry, subs |-> w.subs]

WInvBut(w, y) == IsWorld(w) /\ Coherent(w.conn, w.ctx, w.registry, w.subs, y)
WInv(w) == WInvBut(w, Null)

LEMMA NullFacts == Null \notin Conn /\ Null \notin Ctx /\ Null \notin ClientId
  BY NullAssumption, Zenon

(* Null is not a session, so that it is no exception.                      *)
LEMMA NoException ==
    ASSUME NEW cn, NEW cx, NEW rg, NEW sb, Coherent(cn, cx, rg, sb, Null)
    PROVE  /\ \A i \in ClientId : rg[i] # Null => Held(cn, cx, rg[i])
           /\ \A t \in Topic : \A x \in sb[t] : Held(cn, cx, x)
           /\ \A y : Coherent(cn, cx, rg, sb, y)
  <1>1. \A t \in Topic : \A x \in sb[t] : x # Null
    BY NullFacts DEF Coherent
  <1>2. /\ \A i \in ClientId : rg[i] # Null => Held(cn, cx, rg[i])
        /\ \A t \in Topic : \A x \in sb[t] : Held(cn, cx, x)
    BY <1>1, Zenon DEF Coherent
  <1> QED BY <1>2, Zenon DEF Coherent

-----------------------------------------------------------------------------
(* Messages, packets and put().                                            *)
LEMMA MessageFacts ==
    /\ Msg \subseteq Buffer /\ Msg \subseteq Nat \ {0} /\ 0 \notin Buffer /\ Buffer \subseteq Int
    /\ \A b \in Buffer : Message(b) \in Msg
    /\ Message(Ctl) = 0
    /\ \A m \in Msg : Message(m) = m /\ Message(-m) = m
  BY DEF Msg, Buffer, Message, Ctl

LEMMA ExpectsType ==
    ASSUME NEW packets \in Seq(Buffer \cup {Ctl})
    PROVE  Expects(packets) \in Seq(Msg)
  <1> DEFINE ms == [j \in 1 .. Len(packets) |-> Message(packets[j])]
  <1>1. ms \in Seq(Msg \cup {0})
    <2>1. ASSUME NEW j \in 1 .. Len(packets) PROVE Message(packets[j]) \in Msg \cup {0}
      <3>1. packets[j] \in Buffer \cup {Ctl}
        OBVIOUS
      <3> QED BY <3>1, MessageFacts, Zenon
    <2>2. ms \in [1 .. Len(packets) -> Msg \cup {0}]
      BY <2>1, Zenon
    <2> HIDE DEF ms
    <2> QED BY <2>2
  <1>2. Expects(packets) \in Seq((Msg \cup {0}) \cap (Msg \ Qos0))
    <2>1. Expects(packets) = Filter(ms, Msg \ Qos0)
      BY Zenon DEF Expects
    <2> HIDE DEF ms
    <2> QED BY <1>1, <2>1, FilterProperties
  <1> QED BY <1>2

LEMMA PutType ==
    ASSUME NEW k \in Connection, NEW packets \in Seq(Buffer \cup {Ctl}),
           NEW n \in Nat, n <= Len(packets)
    PROVE  /\ put(k, packets, n) \in Connection
           /\ put(k, packets, n).open = k.open
           /\ put(k, packets, n).ctx = k.ctx
  <1> DEFINE waiting == k.outq \o SubSeq(packets, n + 1, Len(packets))
             out == SubSeq(waiting, 1, IF Len(waiting) < MaxOut THEN Len(waiting) ELSE MaxOut)
             sent == k.sent \o Expects(SubSeq(packets, 1, n))
  <1>1. SubSeq(packets, 1, n) \in Seq(Buffer \cup {Ctl}) /\ SubSeq(packets, n + 1, Len(packets)) \in Seq(Buffer \cup {Ctl})
    OBVIOUS
  <1>2. k.outq \in Seq(Buffer \cup {Ctl}) /\ k.sent \in Seq(Msg)
    BY Zenon DEF Connection
  <1>3. waiting \in Seq(Buffer \cup {Ctl})
    BY <1>2
  <1>4. out \in Seq(Buffer \cup {Ctl})
    <2>1. MaxOut \in Nat
      BY SizeAssumption, Zenon
    <2> HIDE DEF waiting
    <2> QED BY <1>3, <2>1
  <1>5. sent \in Seq(Msg)
    <2>1. Expects(SubSeq(packets, 1, n)) \in Seq(Msg)
      BY <1>1, ExpectsType, Zenon
    <2> QED BY <1>2, <2>1
  <1>6. put(k, packets, n) = [k EXCEPT !.sent = sent, !.outq = out]
    BY Zenon DEF put
  <1> HIDE DEF out, sent
  <1> QED BY <1>4, <1>5, <1>6, Zenon DEF Connection

(* Updates of the fields of a session.                                     *)
LEMMA ContextFields ==
    ASSUME NEW k \in Context
    PROVE  /\ k.status \in Status /\ k.id \in ClientId \cup {Null} /\ k.clean \in BOOLEAN
           /\ k.conn \in Conn \cup {Null} /\ k.topics \subseteq Topic /\ k.queue \in Seq(Buffer)
           /\ k.owed \subseteq Msg /\ k.acked \subseteq Msg
           /\ DOMAIN k = {"status", "id", "clean", "conn", "topics", "queue", "owed", "acked"}
  BY Zenon DEF Context

LEMMA SetConn ==
    ASSUME NEW k \in Context, NEW d \in Conn \cup {Null}
    PROVE  /\ [k EXCEPT !.conn = d] \in Context
           /\ [k EXCEPT !.conn = d].conn = d
           /\ [k EXCEPT !.conn = d].status = k.status /\ [k EXCEPT !.conn = d].id = k.id
           /\ [k EXCEPT !.conn = d].clean = k.clean /\ [k EXCEPT !.conn = d].topics = k.topics
           /\ [k EXCEPT !.conn = d].queue = k.queue /\ [k EXCEPT !.conn = d].owed = k.owed
           /\ [k EXCEPT !.conn = d].acked = k.acked
           /\ Keeps(k) => Keeps([k EXCEPT !.conn = d])
  BY Zenon DEF Context, Keeps

(* The session that init() makes of k.                                     *)
Initialised(k, i, clean, c) ==
    [k EXCEPT !.status = "CS_CONNECTED", !.id = i, !.clean = clean, !.conn = c]

LEMMA InitContext ==
    ASSUME NEW k \in Context, NEW i \in ClientId, NEW clean \in BOOLEAN, NEW c \in Conn
    PROVE  /\ Initialised(k, i, clean, c) \in Context
           /\ Initialised(k, i, clean, c).status = "CS_CONNECTED"
           /\ Initialised(k, i, clean, c).id = i
           /\ Initialised(k, i, clean, c).clean = clean
           /\ Initialised(k, i, clean, c).conn = c
           /\ Initialised(k, i, clean, c).topics = k.topics
           /\ Initialised(k, i, clean, c).queue = k.queue
           /\ Keeps(k) => Keeps(Initialised(k, i, clean, c))
  <1> DEFINE v == Initialised(k, i, clean, c)
  <1>1. /\ v.status = "CS_CONNECTED" /\ v.id = i /\ v.clean = clean /\ v.conn = c
        /\ v.topics = k.topics /\ v.queue = k.queue /\ v.owed = k.owed /\ v.acked = k.acked
    BY Zenon DEF Context, Initialised
  <1>2. [k EXCEPT !.status = "CS_CONNECTED"] \in Context
    BY Zenon DEF Context, Status
  <1>3. v \in Context
    <2> DEFINE k1 == [k EXCEPT !.status = "CS_CONNECTED"]
               k2 == [k1 EXCEPT !.id = i]
               k3 == [k2 EXCEPT !.clean = clean]
    <2>1. v = [k3 EXCEPT !.conn = c]
      BY Zenon DEF Initialised
    <2>2. k1 \in Context
      BY <1>2, Zenon
    <2> HIDE DEF k1
    <2>3. k2 \in Context
      BY <2>2, Zenon DEF Context
    <2> HIDE DEF k2
    <2>4. k3 \in Context
      BY <2>3, Zenon DEF Context
    <2> HIDE DEF k3
    <2> QED BY <2>1, <2>4, SetConn, Zenon
  <1> QED BY <1>1, <1>3, Zenon DEF Keeps

LEMMA SetCtx ==
    ASSUME NEW k \in Connection, NEW x \in Ctx
    PROVE  /\ [k EXCEPT !.ctx = x] \in Connection
           /\ [k EXCEPT !.ctx = x].ctx = x /\ [k EXCEPT !.ctx = x].open = k.open
           /\ [k EXCEPT !.ctx = x].outq = k.outq /\ [k EXCEPT !.ctx = x].sent = k.sent
  BY Zenon DEF Connection

-----------------------------------------------------------------------------
(* handle_close() of a connection whose session is x.  Nothing that the    *)
(* registry or a topic still holds is a clean session without a connection.*)
LEMMA CloseCoherent ==
    ASSUME NEW cn, NEW cx, NEW rg, NEW sb, NEW c \in Conn, NEW x, x = cn[c].ctx, x # Null,
           Coherent(cn, cx, rg, sb, x)
    PROVE  Coherent([cn EXCEPT ![c] = Closed], [cx EXCEPT ![x].conn = Null],
                    IF cx[x].clean THEN del_client_id(rg, cx[x].id) ELSE rg,
                    IF cx[x].clean THEN del_client_context(sb, x, cx[x].topics) ELSE sb, Null)
  <1> DEFINE vn == [cn EXCEPT ![c] = Closed]
             vx == [cx EXCEPT ![x].conn = Null]
             vr == IF cx[x].clean THEN del_client_id(rg, cx[x].id) ELSE rg
             vs == IF cx[x].clean THEN del_client_context(sb, x, cx[x].topics) ELSE sb
  <1>1. /\ cn \in [Conn -> Connection] /\ cx \in [Ctx -> Context]
        /\ rg \in [ClientId -> Ctx \cup {Null}] /\ sb \in [Topic -> SUBSET Ctx]
        /\ x \in Ctx /\ cx[x].conn = c
    BY Zenon DEF Coherent, Connection
  <1>2. vn \in [Conn -> Connection] /\ vx \in [Ctx -> Context]
    <2>1. Closed \in Connection
      BY DEF Closed, Connection
    <2>2. vn \in [Conn -> Connection]
      BY <1>1, <2>1, Zenon
    <2>3. [cx[x] EXCEPT !.conn = Null] \in Context
      BY <1>1, SetConn, Zenon
    <2> QED BY <1>1, <2>2, <2>3, Zenon
  <1>3. vr \in [ClientId -> Ctx \cup {Null}] /\ vs \in [Topic -> SUBSET Ctx]
    BY <1>1, Zenon DEF del_client_id, del_client_context
  <1>4. /\ \A d \in Conn : vn[d] = IF d = c THEN Closed ELSE cn[d]
        /\ \A y \in Ctx : y # x => vx[y] = cx[y]
        /\ vx[x].conn = Null /\ vx[x].clean = cx[x].clean /\ vx[x].id = cx[x].id
        /\ vx[x].topics = cx[x].topics
    BY <1>1, Zenon DEF Context
  <1>k. \A y \in Ctx : Keeps(vx[y])
    <2>1. cx[x] \in Context /\ Keeps(cx[x])
      BY <1>1, Zenon DEF Coherent
    <2>2. Keeps([cx[x] EXCEPT !.conn = Null])
      BY <2>1, SetConn, Zenon
    <2>3. vx[x] = [cx[x] EXCEPT !.conn = Null]
      BY <1>1, Zenon
    <2> HIDE DEF vx
    <2> QED BY <1>4, <2>2, <2>3 DEF Coherent
  <1>5. ASSUME NEW d \in Conn, vn[d].ctx # Null
        PROVE  vn[d].open /\ vx[vn[d].ctx].conn = d
    <2>1. d # c /\ vn[d] = cn[d]
      BY <1>4, <1>5 DEF Closed
    <2>2. cn[d].open /\ cx[cn[d].ctx].conn = d /\ cn[d].ctx \in Ctx
      BY <1>5, Zenon DEF Coherent, Connection
    <2> HIDE DEF vn, vx
    <2> QED BY <1>1, <1>4, <2>1, <2>2, Zenon
  <1>6. ASSUME NEW y \in Ctx, y # x, Held(cn, cx, y)
        PROVE  Held(vn, vx, y)
    <2>1. vx[y] = cx[y]
      BY <1>6
    <2>2. cx[y].conn \in Conn \cup {Null}
      BY <1>1, Zenon DEF Context
    <2>3. cx[y].conn # Null => cx[y].conn # c
      BY <1>6, Zenon DEF Held
    <2> HIDE DEF vn, vx
    <2> QED BY <1>4, <1>6, <2>1, <2>2, Zenon DEF Held
  <1>7. ~cx[x].clean => Held(vn, vx, x)
    BY <1>4, Zenon DEF Held
  <1>8. ASSUME NEW i \in ClientId, vr[i] # Null
        PROVE  vx[vr[i]].id = i /\ Held(vn, vx, vr[i])
    <2>1. vr[i] = rg[i] /\ rg[i] \in Ctx /\ (cx[x].clean => i # cx[x].id)
      BY <1>1, <1>8, Zenon DEF del_client_id
    <2>2. cx[rg[i]].id = i /\ (rg[i] # x => Held(cn, cx, rg[i]))
      BY <1>8, <2>1, Zenon DEF Coherent
    <2> HIDE DEF vn, vx, vr
    <2>3. CASE rg[i] = x
      BY <1>4, <1>7, <2>1, <2>2, <2>3, Zenon
    <2>4. CASE rg[i] # x
      BY <1>4, <1>6, <2>1, <2>2, <2>4, Zenon
    <2> QED BY <2>3, <2>4, Zenon
  <1>9. ASSUME NEW t \in Topic, NEW y \in vs[t]
        PROVE  t \in vx[y].topics /\ Held(vn, vx, y)
    <2>1. y \in sb[t] /\ y \in Ctx /\ (cx[x].clean => ~(y = x /\ t \in cx[x].topics))
      BY <1>1, Zenon DEF del_client_context
    <2>2. t \in cx[y].topics /\ (y # x => Held(cn, cx, y))
      BY <2>1, Zenon DEF Coherent
    <2> HIDE DEF vn, vx, vs
    <2>3. CASE y = x
      BY <1>4, <1>7, <2>1, <2>2, <2>3, Zenon
    <2>4. CASE y # x
      BY <1>4, <1>6, <2>1, <2>2, <2>4, Zenon
    <2> QED BY <2>3, <2>4, Zenon
  <1> HIDE DEF vn, vx, vr, vs
  <1>10. Coherent(vn, vx, vr, vs, Null)
    BY <1>2, <1>3, <1>k, <1>5, <1>8, <1>9, Zenon DEF Coherent
  <1> QED BY <1>10, Zenon DEF vn, vx, vr, vs

LEMMA CloseInv ==
    ASSUME NEW w, NEW c \in Conn, w.conn[c].ctx # Null, WInvBut(w, w.conn[c].ctx)
    PROVE  WInv(handle_close(w, c))
  <1> DEFINE x == w.conn[c].ctx
             v == handle_close(w, c)
  <1>1. /\ v.conn = [w.conn EXCEPT ![c] = Closed]
        /\ v.ctx = [w.ctx EXCEPT ![x].conn = Null]
        /\ v.registry = IF w.ctx[x].clean THEN del_client_id(w.registry, w.ctx[x].id) ELSE w.registry
        /\ v.subs = IF w.ctx[x].clean THEN del_client_context(w.subs, x, w.ctx[x].topics) ELSE w.subs
        /\ IsWorld(v)
    BY Zenon DEF handle_close, IsWorld
  <1>2. Coherent([w.conn EXCEPT ![c] = Closed], [w.ctx EXCEPT ![x].conn = Null],
                 IF w.ctx[x].clean THEN del_client_id(w.registry, w.ctx[x].id) ELSE w.registry,
                 IF w.ctx[x].clean THEN del_client_context(w.subs, x, w.ctx[x].topics) ELSE w.subs, Null)
    BY CloseCoherent, Zenon DEF WInvBut
  <1> HIDE DEF x, v
  <1>3. Coherent(v.conn, v.ctx, v.registry, v.subs, Null)
    BY <1>1, <1>2, Zenon
  <1> QED BY <1>1, <1>3, Zenon DEF WInv, WInvBut, v

-----------------------------------------------------------------------------
(* What a handler may do to a coherent world: send, close connections of   *)
(* persistent sessions, list topics, and add subscribers that may be held. *)
Update(cn, cx, sb, failed, vn, vx, vs) ==
    /\ vn \in [Conn -> Connection] /\ vx \in [Ctx -> Context] /\ vs \in [Topic -> SUBSET Ctx]
    /\ \A d \in Conn : IF d \in failed THEN vn[d] = Closed
                       ELSE (cn[d].open => vn[d].open) /\ vn[d].ctx = cn[d].ctx
    /\ \A x \in Ctx : /\ vx[x].conn = IF cx[x].conn \in failed THEN Null ELSE cx[x].conn
                      /\ vx[x].status = cx[x].status /\ vx[x].id = cx[x].id
                      /\ vx[x].clean = cx[x].clean /\ cx[x].topics \subseteq vx[x].topics
                      /\ Keeps(vx[x])
    /\ \A x \in Ctx, d \in failed : d \in Conn /\ (cn[d].ctx = x => ~cx[x].clean)
    /\ \A t \in Topic : \A x \in vs[t] : x \in sb[t] \/ (t \in vx[x].topics /\ Held(vn, vx, x))

LEMMA UpdateCoherent ==
    ASSUME NEW cn, NEW cx, NEW rg, NEW sb, Coherent(cn, cx, rg, sb, Null), NEW failed,
           NEW vn, NEW vx, NEW vs, Update(cn, cx, sb, failed, vn, vx, vs)
    PROVE  Coherent(vn, vx, rg, vs, Null)
  <1> USE DEF Update
  <1>1. /\ cn \in [Conn -> Connection] /\ cx \in [Ctx -> Context]
        /\ rg \in [ClientId -> Ctx \cup {Null}] /\ sb \in [Topic -> SUBSET Ctx]
    BY Zenon DEF Coherent
  <1>2. ASSUME NEW d \in Conn, vn[d].ctx # Null
        PROVE  vn[d].open /\ vx[vn[d].ctx].conn = d
    <2>1. d \notin failed /\ vn[d].ctx = cn[d].ctx /\ (cn[d].open => vn[d].open)
      BY <1>2 DEF Closed
    <2>2. cn[d].open /\ cx[cn[d].ctx].conn = d /\ cn[d].ctx \in Ctx
      BY <1>1, <1>2, <2>1, Zenon DEF Coherent, Connection
    <2> QED BY <2>1, <2>2
  <1>3. ASSUME NEW x \in Ctx, Held(cn, cx, x)
        PROVE  Held(vn, vx, x)
    <2>1. cx[x].conn \in Conn \cup {Null}
      BY <1>1, ContextFields, Zenon
    <2>2. CASE cx[x].conn = Null
      BY <1>3, <2>2, Zenon DEF Held
    <2>3. CASE cx[x].conn \in failed /\ cx[x].conn # Null
      BY <1>3, <2>3, Zenon DEF Held
    <2>4. CASE cx[x].conn \notin failed /\ cx[x].conn # Null
      BY <1>3, <2>1 DEF Held
    <2> QED BY <2>2, <2>3, <2>4, Zenon
  <1>4. ASSUME NEW i \in ClientId, rg[i] # Null
        PROVE  vx[rg[i]].id = i /\ Held(vn, vx, rg[i])
    <2>1. rg[i] \in Ctx /\ cx[rg[i]].id = i /\ Held(cn, cx, rg[i])
      BY <1>4 DEF Coherent
    <2> QED BY <1>3, <2>1, Zenon
  <1>5. ASSUME NEW t \in Topic, NEW x \in vs[t]
        PROVE  t \in vx[x].topics /\ Held(vn, vx, x)
    <2>1. CASE x \in sb[t]
      <3>1. x \in Ctx
        BY <1>1, <2>1, Zenon
      <3>2. t \in cx[x].topics /\ Held(cn, cx, x)
        <4> HIDE DEF Update
        <4> QED BY <2>1, <3>1, NoException, Zenon DEF Coherent
      <3> QED BY <1>3, <3>1, <3>2, Zenon
    <2> QED BY <2>1, Zenon
  <1> QED BY <1>2, <1>4, <1>5, Zenon DEF Coherent

(* A connection takes a session over (or keeps its own): the session is    *)
(* nobody else's, and the one that the connection had before is not held.  *)
LEMMA InitCoherent ==
    ASSUME NEW cn, NEW cx, NEW rg, NEW sb, Coherent(cn, cx, rg, sb, Null),
           NEW c \in Conn, NEW x \in Ctx, NEW i \in ClientId, NEW clean \in BOOLEAN,
           cn[c].open, cn[c].ctx # Null => cx[cn[c].ctx].status # "CS_CONNECTED",
           cx[x].conn \in {Null, c}, \A j \in ClientId : rg[j] = x => j = i,
           NEW vr \in [ClientId -> Ctx \cup {Null}],
           \A j \in ClientId : vr[j] = rg[j] \/ (vr[j] = x /\ j = i)
    PROVE  Coherent([cn EXCEPT ![c].ctx = x],
                    [cx EXCEPT ![x] = Initialised(@, i, clean, c)],
                    vr, sb, Null)
  <1> DEFINE vn == [cn EXCEPT ![c].ctx = x]
             k == Initialised(cx[x], i, clean, c)
             vx == [cx EXCEPT ![x] = k]
  <1>1. /\ cn \in [Conn -> Connection] /\ cx \in [Ctx -> Context]
        /\ rg \in [ClientId -> Ctx \cup {Null}] /\ sb \in [Topic -> SUBSET Ctx]
    BY Zenon DEF Coherent
  <1>2. /\ k \in Context /\ k.status = "CS_CONNECTED" /\ k.id = i /\ k.clean = clean /\ k.conn = c
        /\ k.topics = cx[x].topics
        /\ Keeps(k)
    <2>1. cx[x] \in Context /\ Keeps(cx[x])
      BY Zenon DEF Coherent
    <2> QED BY <2>1, InitContext
  <1>3. /\ vn \in [Conn -> Connection]
        /\ vn[c].ctx = x /\ vn[c].open = cn[c].open
        /\ \A d \in Conn : d # c => vn[d] = cn[d]
    <2>1. cn[c] \in Connection
      BY <1>1, Zenon
    <2>2. vn = [cn EXCEPT ![c] = [cn[c] EXCEPT !.ctx = x]]
      BY Zenon
    <2> HIDE DEF vn
    <2> QED BY <1>1, <2>1, <2>2, SetCtx, Zenon
  <1> HIDE DEF k, vn
  <1>4. vx \in [Ctx -> Context] /\ vx[x] = k /\ \A y \in Ctx : y # x => vx[y] = cx[y]
    BY <1>1, <1>2, Zenon
  <1> HIDE DEF vx
  <1>5. ASSUME NEW d \in Conn, vn[d].ctx # Null
        PROVE  vn[d].open /\ vx[vn[d].ctx].conn = d
    <2>1. CASE d = c
      BY <1>2, <1>3, <1>4, <2>1, Zenon
    <2>2. CASE d # c
      <3>1. cn[d].ctx \in Ctx /\ cn[d].open /\ cx[cn[d].ctx].conn = d
        BY <1>3, <1>5, <2>2, Zenon DEF Coherent, Connection
      <3>2. cn[d].ctx # x
        BY <3>1, <2>2, NullFacts, Zenon
      <3> QED BY <1>3, <1>4, <2>2, <3>1, <3>2
    <2> QED BY <2>1, <2>2, Zenon
  <1>6. ASSUME NEW y \in Ctx, y = x \/ Held(cn, cx, y)
        PROVE  Held(vn, vx, y)
    <2>1. CASE y = x
      BY <1>2, <1>3, <1>4, <2>1, NullFacts DEF Held
    <2>2. CASE y # x
      <3>1. vx[y] = cx[y] /\ Held(cn, cx, y) /\ cx[y].conn \in Conn \cup {Null}
        BY <1>4, <1>6, <2>2, ContextFields, Zenon
      <3>2. cx[y].conn # c
        BY <3>1, NullFacts, Zenon DEF Held
      <3> QED BY <1>3, <3>1, <3>2, Zenon DEF Held
    <2> QED BY <2>1, <2>2, Zenon
  <1>7. ASSUME NEW j \in ClientId, vr[j] # Null
        PROVE  vx[vr[j]].id = j /\ Held(vn, vx, vr[j])
    <2>1. CASE vr[j] = x
      <3>1. j = i
        BY <2>1, Zenon
      <3> QED BY <1>2, <1>4, <1>6, <2>1, Zenon
    <2>2. CASE vr[j] # x
      <3>1. vr[j] = rg[j] /\ rg[j] \in Ctx /\ cx[rg[j]].id = j /\ Held(cn, cx, rg[j])
        BY <1>7, <2>2 DEF Coherent
      <3> QED BY <1>4, <1>6, <2>2, <3>1, Zenon
    <2> QED BY <2>1, <2>2, Zenon
  <1>8. ASSUME NEW t \in Topic, NEW y \in sb[t]
        PROVE  t \in vx[y].topics /\ Held(vn, vx, y)
    <2>1. y \in Ctx /\ t \in cx[y].topics /\ Held(cn, cx, y)
      BY <1>1, NoException DEF Coherent
    <2> QED BY <1>2, <1>4, <1>6, <2>1, Zenon
  <1>9. Coherent(vn, vx, vr, sb, Null)
    <2>1. \A y \in Ctx : Keeps(vx[y])
      BY <1>2, <1>4, Zenon DEF Coherent
    <2> QED BY <1>1, <2>1, <1>3, <1>4, <1>5, <1>7, <1>8, Zenon DEF Coherent
  <1> QED BY <1>9, Zenon DEF vn, vx, k
-----------------------------------------------------------------------------
(* The same for worlds.                                                    *)
WithConn(w, e) == [w EXCEPT !.conn = e]
WithCtx(w, e) == [w EXCEPT !.ctx = e]
WithRegistry(w, e) == [w EXCEPT !.registry = e]
WithSubs(w, e) == [w EXCEPT !.subs = e]

LEMMA WorldExcept ==
    ASSUME NEW w, IsWorld(w), NEW e
    PROVE  /\ IsWorld(WithConn(w, e)) /\ WithConn(w, e).conn = e /\ WithConn(w, e).ctx = w.ctx
           /\ WithConn(w, e).registry = w.registry /\ WithConn(w, e).subs = w.subs
           /\ IsWorld(WithCtx(w, e)) /\ WithCtx(w, e).ctx = e /\ WithCtx(w, e).conn = w.conn
           /\ WithCtx(w, e).registry = w.registry /\ WithCtx(w, e).subs = w.subs
           /\ IsWorld(WithRegistry(w, e)) /\ WithRegistry(w, e).registry = e
           /\ WithRegistry(w, e).conn = w.conn /\ WithRegistry(w, e).ctx = w.ctx
           /\ WithRegistry(w, e).subs = w.subs
           /\ IsWorld(WithSubs(w, e)) /\ WithSubs(w, e).subs = e /\ WithSubs(w, e).conn = w.conn
           /\ WithSubs(w, e).ctx = w.ctx /\ WithSubs(w, e).registry = w.registry
  BY DEF IsWorld, WithConn, WithCtx, WithRegistry, WithSubs

(* Sending changes no link.                                                *)
PutOn(w, c, packets, n) == [w EXCEPT !.conn[c] = put(@, packets, n)]

LEMMA PutInv ==
    ASSUME NEW w, WInv(w), NEW c \in Conn, NEW packets \in Seq(Buffer \cup {Ctl}),
           NEW n \in Nat, n <= Len(packets)
    PROVE  /\ WInv(PutOn(w, c, packets, n))
           /\ PutOn(w, c, packets, n).ctx = w.ctx
           /\ PutOn(w, c, packets, n).registry = w.registry
           /\ PutOn(w, c, packets, n).subs = w.subs
           /\ \A d \in Conn : /\ PutOn(w, c, packets, n).conn[d].ctx = w.conn[d].ctx
                              /\ PutOn(w, c, packets, n).conn[d].open = w.conn[d].open
  <1> DEFINE v == PutOn(w, c, packets, n)
             k == put(w.conn[c], packets, n)
             vn == [w.conn EXCEPT ![c] = k]
  <1>1. IsWorld(w) /\ Coherent(w.conn, w.ctx, w.registry, w.subs, Null)
    BY Zenon DEF WInv, WInvBut
  <1>2. /\ w.conn \in [Conn -> Connection] /\ w.ctx \in [Ctx -> Context]
        /\ w.subs \in [Topic -> SUBSET Ctx] /\ \A x \in Ctx : Keeps(w.ctx[x])
    BY <1>1, Zenon DEF Coherent
  <1>3. k \in Connection /\ k.open = w.conn[c].open /\ k.ctx = w.conn[c].ctx
    BY <1>2, PutType, Zenon
  <1>4. v = WithConn(w, vn)
    BY Zenon DEF WithConn, PutOn
  <1> HIDE DEF v
  <1> HIDE DEF k
  <1>5. /\ vn \in [Conn -> Connection]
        /\ \A d \in Conn : vn[d].ctx = w.conn[d].ctx /\ vn[d].open = w.conn[d].open
    BY <1>2, <1>3, Zenon
  <1> HIDE DEF vn
  <1>6. IsWorld(v) /\ v.conn = vn /\ v.ctx = w.ctx /\ v.registry = w.registry /\ v.subs = w.subs
    BY <1>1, <1>4, WorldExcept
  <1>7. Coherent(vn, w.ctx, w.registry, w.subs, Null)
    <2>1. Update(w.conn, w.ctx, w.subs, {}, vn, w.ctx, w.subs)
      BY <1>2, <1>5, Zenon DEF Update
    <2> QED BY <1>1, <2>1, UpdateCoherent, Zenon
  <1> QED BY <1>5, <1>6, <1>7, Zenon DEF WInv, WInvBut, v

(* A handler's reply: only a connection with a session is closed by it.    *)
LEMMA ReplyInv ==
    ASSUME NEW w, WInv(w), NEW c \in Conn, NEW packets \in Seq(Buffer \cup {Ctl}),
           NEW n \in Nat, n <= Len(packets),
           Refused(w.conn[c], packets, n) => w.conn[c].ctx # Null
    PROVE  WInv(Reply(w, c, packets, n))
  <1> DEFINE v == PutOn(w, c, packets, n)
  <1>1. WInv(v) /\ v.conn[c].ctx = w.conn[c].ctx
    BY PutInv
  <1>2. WInvBut(v, v.conn[c].ctx)
    BY <1>1, NoException, Zenon DEF WInv, WInvBut
  <1>3. Reply(w, c, packets, n) = IF Refused(w.conn[c], packets, n) THEN handle_close(v, c) ELSE v
    BY Zenon DEF Reply, PutOn
  <1> HIDE DEF v
  <1> QED BY <1>1, <1>2, <1>3, CloseInv, Zenon
-----------------------------------------------------------------------------
(* client_context(): a session that nothing refers to is given to the      *)
(* connection.                                                             *)
LEMMA NewContextType ==
    ASSUME NEW c \in Conn \cup {Null}, NEW g \in BOOLEAN
    PROVE  /\ NewContext(c, g) \in Context /\ Keeps(NewContext(c, g))
           /\ NewContext(c, g).conn = c /\ NewContext(c, g).status = "CS_NEW"
           /\ NewContext(c, g).clean = g
  BY DEF NewContext, Context, Status, Keeps

LEMMA NewCoherent ==
    ASSUME NEW cn, NEW cx, NEW rg, NEW sb, Coherent(cn, cx, rg, sb, Null),
           NEW c \in Conn, NEW x \in Ctx, NEW g \in BOOLEAN, cn[c].open, cn[c].ctx = Null,
           \A d \in Conn : cn[d].ctx # x, \A j \in ClientId : rg[j] # x, \A t \in Topic : x \notin sb[t]
    PROVE  Coherent([cn EXCEPT ![c].ctx = x], [cx EXCEPT ![x] = NewContext(c, g)], rg, sb, Null)
  <1> DEFINE vn == [cn EXCEPT ![c].ctx = x]
             k == NewContext(c, g)
             vx == [cx EXCEPT ![x] = k]
  <1>1. /\ cn \in [Conn -> Connection] /\ cx \in [Ctx -> Context]
        /\ rg \in [ClientId -> Ctx \cup {Null}] /\ sb \in [Topic -> SUBSET Ctx]
    BY Zenon DEF Coherent
  <1>2. k \in Context /\ Keeps(k) /\ k.conn = c
    BY NewContextType, Zenon
  <1>3. /\ vn \in [Conn -> Connection]
        /\ vn[c].ctx = x /\ vn[c].open = cn[c].open
        /\ \A d \in Conn : d # c => vn[d] = cn[d]
    <2>1. cn[c] \in Connection
      BY <1>1, Zenon
    <2>2. vn = [cn EXCEPT ![c] = [cn[c] EXCEPT !.ctx = x]]
      BY Zenon
    <2> HIDE DEF vn
    <2> QED BY <1>1, <2>1, <2>2, SetCtx, Zenon
  <1> HIDE DEF k, vn
  <1>4. vx \in [Ctx -> Context] /\ vx[x] = k /\ \A y \in Ctx : y # x => vx[y] = cx[y]
    BY <1>1, <1>2, Zenon
  <1> HIDE DEF vx
  <1>5. ASSUME NEW d \in Conn, vn[d].ctx # Null
        PROVE  vn[d].open /\ vx[vn[d].ctx].conn = d
    <2>1. CASE d = c
      BY <1>2, <1>3, <1>4, <2>1, Zenon
    <2>2. CASE d # c
      <3>1. cn[d].ctx \in Ctx /\ cn[d].open /\ cx[cn[d].ctx].conn = d
        BY <1>3, <1>5, <2>2, Zenon DEF Coherent, Connection
      <3> QED BY <1>3, <1>4, <2>2, <3>1
    <2> QED BY <2>1, <2>2, Zenon
  <1>6. ASSUME NEW y \in Ctx, y # x, Held(cn, cx, y)
        PROVE  Held(vn, vx, y)
    <2>1. vx[y] = cx[y] /\ cx[y].conn \in Conn \cup {Null}
      BY <1>4, <1>6, ContextFields, Zenon
    <2>2. cx[y].conn # c
      BY <1>6, NullFacts, Zenon DEF Held
    <2> QED BY <1>3, <1>6, <2>1, <2>2, Zenon DEF Held
  <1>7. ASSUME NEW j \in ClientId, rg[j] # Null
        PROVE  vx[rg[j]].id = j /\ Held(vn, vx, rg[j])
    <2>1. rg[j] \in Ctx /\ rg[j] # x /\ cx[rg[j]].id = j /\ Held(cn, cx, rg[j])
      BY <1>7 DEF Coherent
    <2> QED BY <1>4, <1>6, <2>1, Zenon
  <1>8. ASSUME NEW t \in Topic, NEW y \in sb[t]
        PROVE  t \in vx[y].topics /\ Held(vn, vx, y)
    <2>1. y \in Ctx /\ y # x /\ t \in cx[y].topics /\ Held(cn, cx, y)
      BY <1>1, NoException DEF Coherent
    <2> QED BY <1>4, <1>6, <2>1, Zenon
  <1>9. Coherent(vn, vx, rg, sb, Null)
    <2>1. \A y \in Ctx : Keeps(vx[y])
      BY <1>2, <1>4, Zenon DEF Coherent
    <2> QED BY <2>1, <1>3, <1>4, <1>5, <1>7, <1>8, Zenon DEF Coherent
  <1> QED BY <1>9, Zenon DEF vn, vx, k

LEMMA RefersTo ==
    ASSUME NEW w, WInv(w), NEW x
    PROVE  \/ x \notin Referenced(w)
           \/ \E d \in Conn : w.conn[d].ctx = x
           \/ \E j \in ClientId : w.registry[j] = x
           \/ \E t \in Topic : x \in w.subs[t]
  <1>1. DOMAIN w.registry = ClientId /\ DOMAIN w.subs = Topic
    BY Zenon DEF WInv, WInvBut, Coherent
  <1> QED BY <1>1, Zenon DEF Referenced, Range

LEMMA Refers ==
    ASSUME NEW w, WInv(w)
    PROVE  /\ \A d \in Conn : w.conn[d].ctx \in Referenced(w)
           /\ \A j \in ClientId : w.registry[j] \in Referenced(w)
           /\ \A t \in Topic : w.subs[t] \subseteq Referenced(w)
  <1>1. DOMAIN w.registry = ClientId /\ DOMAIN w.subs = Topic
    BY Zenon DEF WInv, WInvBut, Coherent
  <1>2. \A t \in Topic : w.subs[t] \in Range(w.subs)
    BY <1>1, Zenon DEF Range
  <1> QED BY <1>1, Zenon DEF Referenced, Range

LEMMA NewInv ==
    ASSUME NEW w, WInv(w), NEW c \in Conn, NEW x \in Ctx, x \notin Referenced(w), NEW g \in BOOLEAN,
           w.conn[c].open, w.conn[c].ctx = Null
    PROVE  /\ WInv(MakeContext(w, c, x, g))
           /\ MakeContext(w, c, x, g).conn[c].ctx = x /\ MakeContext(w, c, x, g).conn[c].open
           /\ MakeContext(w, c, x, g).ctx[x].status = "CS_NEW"
  <1> DEFINE v == MakeContext(w, c, x, g)
             vn == [w.conn EXCEPT ![c].ctx = x]
             vx == [w.ctx EXCEPT ![x] = NewContext(c, g)]
  <1>1. IsWorld(w) /\ Coherent(w.conn, w.ctx, w.registry, w.subs, Null)
    BY Zenon DEF WInv, WInvBut
  <1>2. Coherent(vn, vx, w.registry, w.subs, Null)
    <2>1. /\ \A d \in Conn : w.conn[d].ctx # x
          /\ \A j \in ClientId : w.registry[j] # x
          /\ \A t \in Topic : x \notin w.subs[t]
      BY Refers, Zenon
    <2> HIDE DEF vn, vx
    <2> QED BY <1>1, <2>1, NewCoherent, Zenon DEF vn, vx
  <1>3. v = WithCtx(WithConn(w, vn), vx)
    BY Zenon DEF WithConn, WithCtx, MakeContext, IsWorld
  <1>4. vn[c].ctx = x /\ vn[c].open /\ vx[x].status = "CS_NEW"
    <2>1. w.conn[c] \in Connection /\ w.conn \in [Conn -> Connection] /\ w.ctx \in [Ctx -> Context]
      BY <1>1, Zenon DEF Coherent
    <2> QED BY <2>1, NewContextType
  <1> HIDE DEF v, vn, vx
  <1>5. IsWorld(v) /\ v.conn = vn /\ v.ctx = vx /\ v.registry = w.registry /\ v.subs = w.subs
    BY <1>1, <1>3, WorldExcept
  <1> QED BY <1>2, <1>4, <1>5, Zenon DEF WInv, WInvBut, v
LEMMA ContextInv ==
    ASSUME WInv(World), NEW c \in Conn, conn[c].open, NEW w \in client_context(c)
    PROVE  /\ WInv(w) /\ w.conn[c].ctx \in Ctx /\ w.conn[c].open
           /\ ~Connected(c) => w.ctx[w.conn[c].ctx].status # "CS_CONNECTED"
  <1>1. World.conn = conn /\ World.ctx = ctx /\ World.registry = registry /\ World.subs = subs
    BY Zenon DEF World
  <1>2. conn[c].ctx \in Ctx \cup {Null}
    BY <1>1, Zenon DEF WInv, WInvBut, Coherent, Connection
  <1>3. CASE conn[c].ctx # Null
    <2>1. w = World
      BY <1>3 DEF client_context
    <2> QED BY <1>1, <1>2, <1>3, <2>1, Zenon DEF Connected
  <1>4. CASE conn[c].ctx = Null
    <2>1. PICK x \in Ctx \ Referenced(World), g \in BOOLEAN : w = MakeContext(World, c, x, g)
      BY <1>4 DEF client_context
    <2>2. WInv(w) /\ w.conn[c].ctx = x /\ w.conn[c].open /\ w.ctx[x].status = "CS_NEW"
      BY <1>1, <1>4, <2>1, NewInv
    <2> QED BY <2>2, Zenon
  <1> QED BY <1>3, <1>4, Zenon

(* init() for CONNECT, with and without a registration.                    *)
Registered(w, i, x) == [w EXCEPT !.registry[i] = x]

LEMMA InitInv ==
    ASSUME NEW w, WInv(w), NEW c \in Conn, NEW x \in Ctx, NEW i \in ClientId, NEW clean \in BOOLEAN,
           w.conn[c].open, w.conn[c].ctx # Null => w.ctx[w.conn[c].ctx].status # "CS_CONNECTED",
           w.ctx[x].conn \in {Null, c}, \A j \in ClientId : w.registry[j] = x => j = i
    PROVE  /\ WInv(init(w, c, x, i, clean)) /\ init(w, c, x, i, clean).conn[c].ctx = x
           /\ WInv(Registered(init(w, c, x, i, clean), i, x))
           /\ Registered(init(w, c, x, i, clean), i, x).conn[c].ctx = x
  <1> DEFINE v == init(w, c, x, i, clean)
             u == Registered(v, i, x)
             vn == [w.conn EXCEPT ![c].ctx = x]
             vx == [w.ctx EXCEPT ![x] = Initialised(@, i, clean, c)]
             vr == [w.registry EXCEPT ![i] = x]
  <1>1. /\ IsWorld(w) /\ Coherent(w.conn, w.ctx, w.registry, w.subs, Null)
        /\ w.registry \in [ClientId -> Ctx \cup {Null}] /\ w.conn \in [Conn -> Connection]
    BY Zenon DEF WInv, WInvBut, Coherent
  <1>2. Coherent(vn, vx, w.registry, w.subs, Null)
    BY <1>1, InitCoherent
  <1>3. Coherent(vn, vx, vr, w.subs, Null)
    <2>1. vr \in [ClientId -> Ctx \cup {Null}] /\ \A j \in ClientId : vr[j] = w.registry[j] \/ (vr[j] = x /\ j = i)
      BY <1>1, Zenon
    <2> HIDE DEF vr
    <2> QED BY <1>1, <2>1, InitCoherent
  <1>4. v = WithCtx(WithConn(w, vn), vx)
    BY Zenon DEF WithConn, WithCtx, init, Initialised, IsWorld
  <1>5. vn[c].ctx = x
    <2>1. w.conn[c] \in Connection
      BY <1>1, Zenon
    <2> QED BY <1>1
  <1> HIDE DEF v, vn, vx
  <1>6. IsWorld(v) /\ v.conn = vn /\ v.ctx = vx /\ v.registry = w.registry /\ v.subs = w.subs
    <2>1. PICK e : e = WithConn(w, vn)
      BY Zenon
    <2>2. IsWorld(e) /\ e.conn = vn /\ e.registry = w.registry /\ e.subs = w.subs
      BY <1>1, <2>1, WorldExcept
    <2>3. v = WithCtx(e, vx)
      BY <1>4, <2>1, Zenon
    <2> QED BY <2>2, <2>3, WorldExcept
  <1>7. u = WithRegistry(v, vr)
    BY <1>6, Zenon DEF WithRegistry, Registered
  <1> HIDE DEF u, vr
  <1>8. IsWorld(u) /\ u.conn = vn /\ u.ctx = vx /\ u.registry = vr /\ u.subs = w.subs
    BY <1>6, <1>7, WorldExcept
  <1> QED BY <1>2, <1>3, <1>5, <1>6, <1>8 DEF WInv, WInvBut, v, u

(* The sessions that nothing refers to are deleted: no link is left but    *)
(* those of sessions and connections that know each other.                 *)
Linked == \A x \in Ctx : ctx[x].conn # Null => conn[ctx[x].conn].ctx = x

LEMMA BecomesInv ==
    ASSUME NEW w, WInv(w), Becomes(w)
    PROVE  WInv(World)' /\ Linked'
  <1>1. Coherent(w.conn, w.ctx, w.registry, w.subs, Null)
    BY Zenon DEF WInv, WInvBut
  <1>2. /\ w.conn \in [Conn -> Connection] /\ w.ctx \in [Ctx -> Context]
        /\ w.registry \in [ClientId -> Ctx \cup {Null}] /\ w.subs \in [Topic -> SUBSET Ctx]
    BY <1>1, Zenon DEF Coherent
  <1>3. /\ conn' = w.conn /\ registry' = w.registry /\ subs' = w.subs
        /\ ctx' \in [Ctx -> Context]
        /\ \A x \in Ctx : x \in Referenced(w) => ctx'[x] = w.ctx[x]
        /\ \A x \in Ctx : x \notin Referenced(w) => ctx'[x] = Freed
    <2>1. Freed \in Context
      BY NewContextType, Zenon DEF Freed
    <2> QED BY <1>2, <2>1, Zenon DEF Becomes
  <1>4. \A x \in Ctx : Keeps(ctx'[x])
    <2>1. Keeps(Freed)
      BY NewContextType, Zenon DEF Freed
    <2> QED BY <1>1, <1>3, <2>1, Zenon DEF Coherent
  <1>5. ASSUME NEW d \in Conn, w.conn[d].ctx # Null
        PROVE  w.conn[d].open /\ ctx'[w.conn[d].ctx].conn = d
    <2>1. w.conn[d].ctx \in Ctx /\ w.conn[d].ctx \in Referenced(w) /\ w.conn[d].open
          /\ w.ctx[w.conn[d].ctx].conn = d
      BY <1>1, <1>5, Refers, Zenon DEF Coherent, Connection
    <2> QED BY <1>3, <2>1, Zenon
  <1>6. ASSUME NEW x \in Ctx, x \in Referenced(w), Held(w.conn, w.ctx, x)
        PROVE  Held(w.conn, ctx', x)
    BY <1>3, <1>6, Zenon DEF Held
  <1>7. ASSUME NEW j \in ClientId, w.registry[j] # Null
        PROVE  ctx'[w.registry[j]].id = j /\ Held(w.conn, ctx', w.registry[j])
    <2>1. w.registry[j] \in Ctx /\ w.registry[j] \in Referenced(w) /\ w.ctx[w.registry[j]].id = j
          /\ Held(w.conn, w.ctx, w.registry[j])
      BY <1>1, <1>7, Refers DEF Coherent
    <2> QED BY <1>3, <1>6, <2>1, Zenon
  <1>8. ASSUME NEW t \in Topic, NEW x \in w.subs[t]
        PROVE  t \in ctx'[x].topics /\ Held(w.conn, ctx', x)
    <2>1. x \in Ctx /\ x \in Referenced(w) /\ t \in w.ctx[x].topics /\ Held(w.conn, w.ctx, x)
      BY <1>1, Refers, NoException, Zenon DEF Coherent
    <2> QED BY <1>3, <1>6, <2>1, Zenon
  <1>9. Coherent(conn', ctx', registry', subs', Null)
    <2>1. Coherent(w.conn, ctx', w.registry, w.subs, Null)
      BY <1>2, <1>3, <1>4, <1>5, <1>7, <1>8, Zenon DEF Coherent
    <2> QED BY <1>3, <2>1, Zenon
  <1>10. WInv(World)'
    BY <1>9, Zenon DEF WInv, WInvBut, World, IsWorld
  <1>11. ASSUME NEW x \in Ctx, ctx'[x].conn # Null
         PROVE  conn'[ctx'[x].conn].ctx = x
    <2>1. x \in Referenced(w) /\ ctx'[x] = w.ctx[x]
      BY <1>3, <1>11 DEF Freed, NewContext
    <2>2. CASE \E d \in Conn : w.conn[d].ctx = x
      <3>1. PICK d \in Conn : w.conn[d].ctx = x
        BY <2>2, Zenon
      <3>2. w.ctx[x].conn = d
        BY <1>1, <3>1, NullFacts, Zenon DEF Coherent
      <3> QED BY <1>3, <2>1, <3>1, <3>2, Zenon
    <2>3. CASE Held(w.conn, w.ctx, x)
      BY <1>3, <1>11, <2>1, <2>3, Zenon DEF Held
    <2>4. CASE \E j \in ClientId : w.registry[j] = x
      <3>1. PICK j \in ClientId : w.registry[j] = x
        BY <2>4, Zenon
      <3> QED BY <1>1, <2>3, <3>1, NullFacts, NoException, Zenon
    <2>5. CASE \E t \in Topic : x \in w.subs[t]
      <3>1. PICK t \in Topic : x \in w.subs[t]
        BY <2>5, Zenon
      <3> QED BY <1>1, <2>3, <3>1, NullFacts, NoException, Zenon
    <2> QED BY <2>1, <2>2, <2>4, <2>5, RefersTo, Zenon
  <1> QED BY <1>10, <1>11, Zenon DEF Linked
=============================================================================

--------------------------- MODULE PersistProofs ----------------------------
(***************************************************************************)
(* Proofs about the broker core with its database: the invariant of the    *)
(* core holds through crashes and restarts, the ids it gives out are new,  *)
(* and what a completed store has saved outlives the process.  First, what *)
(* a store, complete or cut off, leaves in the file, and what world a      *)
(* restart makes of it.                                                    *)
(***************************************************************************)
EXTENDS Persist, QueueProofs

(* The chunks of a database file.                                          *)
FileOK(file) ==
    /\ \A k \in Chunks(file, "GLOBAL_INFO") : k.last_id \in 0 .. MaxMsg
    /\ \A k \in Chunks(file, "DB_MSG") : k.msg \in Own /\ k.stage = 2
    /\ \A k \in Chunks(file, "CLIENT_MSG") :
         k.stage = 3 /\ k.id \in ClientId /\ k.topics \in SUBSET Topic /\ k.ids \in Seq(Msg)
    /\ \A k, l \in Chunks(file, "CLIENT_MSG") : k.id = l.id => k = l
    /\ \A k \in Chunks(file, "TOPIC_INFO") : k.ids \in [Topic -> Msg \cup {0}]

(* The messages of a file come after a counter that covers their ids, and  *)
(* so do the retained messages.                                            *)
Counted(file) ==
    /\ \A k \in Chunks(file, "DB_MSG") :
         /\ Chunks(file, "GLOBAL_INFO") # {}
         /\ \A g \in Chunks(file, "GLOBAL_INFO") : k.msg <= g.last_id
    /\ \A k \in Chunks(file, "TOPIC_INFO") :
         /\ Chunks(file, "GLOBAL_INFO") # {}
         /\ \A g \in Chunks(file, "GLOBAL_INFO"), t \in Topic : MaxMsg # 0 => k.ids[t] <= g.last_id

(* The retained messages have ids of this broker.  This needs that a       *)
(* broker of mode 0, which retains what its parent sends, has no parent    *)
(* that sends, or gives out no ids itself.                                 *)
Alone == Mode = 0 => MaxMsg = 0 \/ MaxParent = 0
RetainedOwn == MaxMsg # 0 => \A t \in Topic : Message(retained[t]) \in Own \cup {0}

LEMMA MbufId ==
    /\ \A b \in Buffer : mbuf_id(b) \in Msg
    /\ \A b \in Buffer : Message(b) \in Own => mbuf_id(b) = Message(b)
    /\ \A m \in Own : m \in Buffer /\ Message(m) = m /\ mbuf_id(m) = m
  BY SizeAssumption DEF mbuf_id, Message, Own, Msg, Buffer

ClientChunk(i, stage) ==
    [stage |-> stage, type |-> "CLIENT_MSG", id |-> i, topics |-> ctx[registry[i]].topics,
     ids |-> [j \in DOMAIN ctx[registry[i]].queue |-> mbuf_id(ctx[registry[i]].queue[j])]]

LEMMA ClientChunks ==
    store_client_info(3) =
      {ClientChunk(i, 3) : i \in {j \in ClientId : registry[j] # Null /\ ~ctx[registry[j]].clean}}
  BY Zenon DEF store_client_info, ClientChunk

LEMMA ImageChunks ==
    /\ Chunks(Image, "GLOBAL_INFO") = store_db_info(1)
    /\ Chunks(Image, "DB_MSG") = store_db_msg(2)
    /\ Chunks(Image, "CLIENT_MSG") = store_client_info(3)
    /\ Chunks(Image, "TOPIC_INFO") = store_retain_msg(4)
  <1>1. \A k \in store_db_info(1) : k.type = "GLOBAL_INFO"
    BY DEF store_db_info
  <1>2. \A k \in store_db_msg(2) : k.type = "DB_MSG"
    BY DEF store_db_msg
  <1>3. \A k \in store_client_info(3) : k.type = "CLIENT_MSG"
    BY ClientChunks DEF ClientChunk
  <1>4. \A k \in store_retain_msg(4) : k.type = "TOPIC_INFO"
    BY DEF store_retain_msg
  <1> QED BY <1>1, <1>2, <1>3, <1>4, Zenon DEF Image, Chunks

(* The stages of the chunks.                                               *)
LEMMA ImageStages ==
    /\ \A k \in Chunks(Image, "GLOBAL_INFO") : k.stage = 1
    /\ \A k \in Chunks(Image, "DB_MSG") : k.stage = 2
    /\ \A k \in Chunks(Image, "TOPIC_INFO") : k.stage = 4
  BY ImageChunks DEF store_db_info, store_db_msg, store_retain_msg

LEMMA QueueIds ==
    ASSUME SInv, NEW i \in ClientId, registry[i] # Null
    PROVE  /\ ClientChunk(i, 3).ids \in Seq(Msg)
           /\ \A m \in Own : m \in Range(ctx[registry[i]].queue) => m \in Range(ClientChunk(i, 3).ids)
           /\ ClientChunk(i, 3).topics \in SUBSET Topic
           /\ ClientChunk(i, 3).stage = 3 /\ ClientChunk(i, 3).id = i
  <1> DEFINE k == ctx[registry[i]]
             q == k.queue
             l == [j \in DOMAIN q |-> mbuf_id(q[j])]
  <1>1. k \in Context
    BY StateFacts, Zenon
  <1>2. q \in Seq(Buffer) /\ k.topics \in SUBSET Topic
    BY <1>1, Zenon DEF Context
  <1>3. ClientChunk(i, 3) = [stage |-> 3, type |-> "CLIENT_MSG", id |-> i, topics |-> k.topics, ids |-> l]
    BY Zenon DEF ClientChunk
  <1> HIDE DEF k
  <1>4. \A j \in DOMAIN q : mbuf_id(q[j]) \in Msg
    BY <1>2, MbufId
  <1>5. l \in Seq(Msg)
    <2>1. DOMAIN q = 1 .. Len(q) /\ Len(q) \in Nat
      OBVIOUS
    <2> HIDE DEF q
    <2> QED BY <1>4
  <1>6. ASSUME NEW m \in Own, m \in Range(q) PROVE m \in Range(l)
    <2>1. PICK j \in DOMAIN q : m = q[j]
      BY <1>6, Zenon DEF Range
    <2>2. mbuf_id(q[j]) = m
      BY <2>1, MbufId, Zenon
    <2>3. l[j] = m /\ j \in DOMAIN l
      BY <2>2, Zenon
    <2> HIDE DEF l
    <2> QED BY <2>3, Zenon DEF Range
  <1> HIDE DEF l, q
  <1> QED BY <1>2, <1>3, <1>5, <1>6 DEF k, q

LEMMA ImageOK ==
    ASSUME SInv
    PROVE  FileOK(Image)
  <1>1. \A k \in store_db_info(1) : k.last_id \in 0 .. MaxMsg
    BY DEF store_db_info, SInv, Rest
  <1>2. \A k \in store_db_msg(2) : k.msg \in Own /\ k.stage = 2
    BY DEF store_db_msg, msg_db
  <1>3. \A k \in store_client_info(3) :
          k.stage = 3 /\ k.id \in ClientId /\ k.topics \in SUBSET Topic /\ k.ids \in Seq(Msg)
    BY ClientChunks, QueueIds
  <1>4. \A k, l \in store_client_info(3) : k.id = l.id => k = l
    BY ClientChunks, QueueIds
  <1>5. ASSUME NEW k \in store_retain_msg(4) PROVE k.ids \in [Topic -> Msg \cup {0}]
    <2>1. \A t \in Topic : retained[t] = 0 \/ retained[t] \in Buffer
      BY Zenon DEF SInv, Rest, Buffer
    <2>2. \A t \in Topic : (IF retained[t] = 0 THEN 0 ELSE mbuf_id(retained[t])) \in Msg \cup {0}
      BY <2>1, MbufId, Zenon
    <2>3. k.ids = [t \in Topic |-> IF retained[t] = 0 THEN 0 ELSE mbuf_id(retained[t])]
      BY DEF store_retain_msg
    <2> QED BY <2>2, <2>3, Zenon
  <1> QED BY <1>1, <1>2, <1>3, <1>4, <1>5, ImageChunks, Zenon DEF FileOK

LEMMA ImageCounted ==
    ASSUME SInv, Fresh, RetainedOwn
    PROVE  Counted(Image)
  <1>1. Chunks(Image, "GLOBAL_INFO") # {} /\ \A g \in Chunks(Image, "GLOBAL_INFO") : g.last_id = last_id
    <2> DEFINE info == [stage |-> 1, type |-> "GLOBAL_INFO", last_id |-> last_id]
    <2>1. Chunks(Image, "GLOBAL_INFO") = {info} /\ info.last_id = last_id
      BY ImageChunks, Zenon DEF store_db_info
    <2> HIDE DEF info
    <2> QED BY <2>1, Zenon
  <1>2. ASSUME NEW m \in msg_db PROVE m <= last_id
    <2>1. \A s \in Seq(Old(last_id)) : m \in Range(s) => m \in Old(last_id)
      BY DEF Range
    <2>2. m \in Own /\ m \in Old(last_id)
      BY <2>1, Zenon DEF msg_db, Fresh, Below
    <2> QED BY <2>2, MbufId, Zenon DEF Old
  <1>3. \A k \in Chunks(Image, "DB_MSG") : k.msg <= last_id
    BY <1>2, ImageChunks DEF store_db_msg
  <1>4. ASSUME NEW k \in Chunks(Image, "TOPIC_INFO"), NEW t \in Topic, MaxMsg # 0
        PROVE  k.ids[t] <= last_id
    <2>1. k.ids[t] = IF retained[t] = 0 THEN 0 ELSE mbuf_id(retained[t])
      BY ImageChunks DEF store_retain_msg
    <2>2. CASE retained[t] = 0
      BY <2>1, <2>2 DEF SInv, Rest
    <2>3. CASE retained[t] # 0
      <3>1. retained[t] \in Buffer
        BY <2>3, Zenon DEF SInv, Rest, Buffer
      <3>2. Message(retained[t]) \in Own
        BY <1>4, <3>1, MessageFacts, Zenon DEF RetainedOwn
      <3>3. Message(retained[t]) <= last_id
        BY <3>2, Zenon DEF Fresh, Old
      <3> QED BY <2>1, <2>3, <3>1, <3>2, <3>3, MbufId, Zenon
    <2> QED BY <2>2, <2>3, Zenon
  <1> QED BY <1>1, <1>3, <1>4, Zenon DEF Counted

(* A store that is cut off leaves part of the file.                        *)
LEMMA CutOffOK ==
    ASSUME SInv, NEW torn \in BOOLEAN, NEW file \in CutOff(torn)
    PROVE  FileOK(file)
  <1>1. file \subseteq Image
    BY Zenon DEF CutOff, Prefix
  <1>2. \A type : Chunks(file, type) \subseteq Chunks(Image, type)
    BY <1>1, Zenon DEF Chunks
  <1>3. FileOK(Image)
    BY ImageOK, Zenon
  <1> QED BY <1>2, <1>3, Zenon DEF FileOK

LEMMA CutOffCounted ==
    ASSUME SInv, Fresh, RetainedOwn, NEW torn \in BOOLEAN, NEW file \in CutOff(torn)
    PROVE  Counted(file)
  <1>1. file \subseteq Image /\ \A a \in file, b \in Image : b.stage < a.stage => b \in file
    BY Zenon DEF CutOff, Prefix
  <1>2. \A type : Chunks(file, type) \subseteq Chunks(Image, type)
    BY <1>1, Zenon DEF Chunks
  <1>3. PICK g \in Chunks(Image, "GLOBAL_INFO") : g.stage = 1
    BY ImageStages, ImageChunks, Zenon DEF store_db_info
  <1>4. ASSUME NEW k \in file, k.stage \in {2, 4} PROVE Chunks(file, "GLOBAL_INFO") # {}
    <2>1. g \in Image /\ g.type = "GLOBAL_INFO" /\ g.stage < k.stage
      BY <1>3, <1>4 DEF Chunks
    <2> QED BY <1>1, <2>1, Zenon DEF Chunks
  <1>5. \A k \in Chunks(file, "DB_MSG") : k \in file /\ k.stage \in {2, 4}
    BY <1>2, ImageStages, Zenon DEF Chunks
  <1>6. \A k \in Chunks(file, "TOPIC_INFO") : k \in file /\ k.stage \in {2, 4}
    BY <1>2, ImageStages, Zenon DEF Chunks
  <1>7. Counted(Image)
    BY ImageCounted, Zenon
  <1> QED BY <1>2, <1>4, <1>5, <1>6, <1>7, Zenon DEF Counted

-----------------------------------------------------------------------------
(* The world that restore() builds.                                        *)
Clients == Chunks(disk.chunks, "CLIENT_MSG")

RestoredContext(k) ==
    [NewContext(Null, FALSE) EXCEPT
       !.id = k.id, !.topics = k.topics, !.queue = Queue(disk.chunks, k),
       !.owed = Range(Queue(disk.chunks, k))]

Restored(x) ==
    [conn |-> NoConn,
     ctx |-> [y \in Ctx |-> IF \E k \in Clients : x[k.id] = y
                            THEN RestoredContext(CHOOSE c \in Clients : x[c.id] = y) ELSE Freed],
     registry |-> [i \in ClientId |-> IF \E k \in Clients : k.id = i THEN x[i] ELSE Null],
     subs |-> [t \in Topic |-> {x[k.id] : k \in {c \in Clients : t \in c.topics}}]]

LEMMA RestoreBecomes ==
    ASSUME NEW x, Restore(x)
    PROVE  Becomes(Restored(x))
  BY Zenon DEF Restore, Restored, RestoredContext, Clients

(* The queue of a restored session: the ids that are found.                *)
LEMMA RestoredQueue ==
    ASSUME FileOK(disk.chunks), NEW k \in Clients
    PROVE  /\ Queue(disk.chunks, k) \in Seq(Own)
           /\ Range(Queue(disk.chunks, k)) = Range(k.ids) \cap Known(disk.chunks, k.stage)
           /\ Range(Queue(disk.chunks, k)) \subseteq Own
  <1> DEFINE keep == Known(disk.chunks, k.stage)
             q == Filter(k.ids, keep)
  <1>1. keep \subseteq Own
    BY Zenon DEF Known, FileOK, Chunks
  <1>2. k.ids \in Seq(Msg)
    BY Zenon DEF FileOK, Clients
  <1>3. q \in Seq(Msg \cap keep) /\ Range(q) = Range(k.ids) \cap keep
    <2> HIDE DEF keep
    <2> QED BY <1>2, FilterProperties, Zenon
  <1>4. Queue(disk.chunks, k) = q
    BY Zenon DEF Queue
  <1> HIDE DEF q, keep
  <1>5. q \in Seq(Own)
    <2>1. Msg \cap keep \subseteq Own
      BY <1>1, Zenon
    <2> HIDE <1>1
    <2> QED BY <1>3, <2>1
  <1> QED BY <1>1, <1>3, <1>4 DEF keep

LEMMA OwnMessages ==
    ASSUME NEW q \in Seq(Own)
    PROVE  Messages(q) = Range(q) /\ q \in Seq(Buffer)
  <1>1. \A m \in Own : m \in Buffer /\ Message(m) = m
    BY MbufId, Zenon
  <1>2. Range(q) \subseteq Own
    BY DEF Range
  <1>3. q \in Seq(Buffer)
    BY <1>1
  <1> QED BY <1>1, <1>2 DEF Messages

LEMMA RestoredFields ==
    ASSUME FileOK(disk.chunks), NEW k \in Clients
    PROVE  /\ RestoredContext(k) \in Context /\ Keeps(RestoredContext(k))
           /\ RestoredContext(k).id = k.id /\ RestoredContext(k).topics = k.topics
           /\ RestoredContext(k).conn = Null /\ ~RestoredContext(k).clean
           /\ RestoredContext(k).queue = Queue(disk.chunks, k)
  <1> DEFINE q == Queue(disk.chunks, k)
             r == Range(q)
             i == k.id
             ts == k.topics
             new == NewContext(Null, FALSE)
  <1>1. i \in ClientId /\ ts \in SUBSET Topic
    BY Zenon DEF FileOK, Clients
  <1>2. q \in Seq(Own) /\ r \subseteq Own
    BY RestoredQueue, Zenon
  <1>3. q \in Seq(Buffer) /\ Messages(q) = r
    BY <1>2, OwnMessages, Zenon
  <1>4. r \in SUBSET Msg
    BY <1>2, SizeAssumption DEF Own, Msg
  <1>5. new = [status |-> "CS_NEW", id |-> Null, clean |-> FALSE, conn |-> Null,
               topics |-> {}, queue |-> <<>>, owed |-> {}, acked |-> {}]
    BY Zenon DEF NewContext
  <1>6. RestoredContext(k) = [new EXCEPT !.id = i, !.topics = ts, !.queue = q, !.owed = r]
    BY Zenon DEF RestoredContext
  <1> HIDE DEF new, q, r, i, ts
  <1>7. RestoredContext(k) = [status |-> "CS_NEW", id |-> i, clean |-> FALSE, conn |-> Null,
                              topics |-> ts, queue |-> q, owed |-> r, acked |-> {}]
    BY <1>5, <1>6, Zenon
  <1>8. RestoredContext(k) \in Context
    BY <1>1, <1>3, <1>4, <1>7 DEF Context, Status
  <1>9. Keeps(RestoredContext(k))
    BY <1>3, <1>7 DEF Keeps
  <1> QED BY <1>7, <1>8, <1>9 DEF q, i, ts

LEMMA RestoredCtx ==
    ASSUME FileOK(disk.chunks), NEW x \in [ClientId -> Ctx],
           \A i, j \in ClientId : i # j => x[i] # x[j], NEW k \in Clients
    PROVE  Restored(x).ctx[x[k.id]] = RestoredContext(k)
  <1> DEFINE y == x[k.id]
             l == CHOOSE c \in Clients : x[c.id] = y
  <1>1. k.id \in ClientId /\ y \in Ctx
    BY Zenon DEF FileOK, Clients
  <1>2. l \in Clients /\ x[l.id] = y
    BY Zenon
  <1> HIDE DEF l
  <1>3. l.id \in ClientId /\ l.id = k.id
    <2>1. l.id \in ClientId
      BY <1>2, Zenon DEF FileOK, Clients
    <2> QED BY <1>1, <1>2, <2>1, Zenon
  <1>4. l = k
    BY <1>2, Zenon DEF FileOK, Clients
  <1>5. Restored(x).ctx[y] = RestoredContext(l)
    BY <1>1, Zenon DEF Restored, l
  <1> QED BY <1>4, <1>5, Zenon

LEMMA RestoredInv ==
    ASSUME FileOK(disk.chunks), NEW x \in [ClientId -> Ctx],
           \A i, j \in ClientId : i # j => x[i] # x[j]
    PROVE  WInv(Restored(x))
  <1> DEFINE w == Restored(x)
  <1>1. IsWorld(w) /\ w.conn = NoConn
    BY Zenon DEF IsWorld, Restored
  <1>2. /\ w.registry = [i \in ClientId |-> IF \E k \in Clients : k.id = i THEN x[i] ELSE Null]
        /\ w.subs = [t \in Topic |-> {x[k.id] : k \in {c \in Clients : t \in c.topics}}]
    BY Zenon DEF Restored
  <1>3. \A y \in Ctx : w.ctx[y] = Freed \/ \E k \in Clients : w.ctx[y] = RestoredContext(k)
    BY Zenon DEF Restored
  <1>4. w.ctx = [y \in Ctx |-> w.ctx[y]]
    BY Zenon DEF Restored
  <1>5. \A k \in Clients : w.ctx[x[k.id]] = RestoredContext(k)
    BY RestoredCtx, Zenon
  <1> HIDE DEF w
  <1>6. Freed \in Context /\ Keeps(Freed) /\ Closed \in Connection /\ Closed.ctx = Null
    <2>1. Freed \in Context /\ Keeps(Freed)
      BY NewContextType, Zenon DEF Freed
    <2>2. Closed \in Connection /\ Closed.ctx = Null
      BY DEF Closed, Connection
    <2> QED BY <2>1, <2>2, Zenon
  <1>7. w.conn \in [Conn -> Connection] /\ \A c \in Conn : w.conn[c].ctx = Null
    BY <1>1, <1>6, Zenon DEF NoConn
  <1>8. w.ctx \in [Ctx -> Context] /\ \A y \in Ctx : Keeps(w.ctx[y])
    BY <1>3, <1>4, <1>6, RestoredFields, Zenon
  <1>9. \A k \in Clients : k.id \in ClientId
    BY Zenon DEF FileOK, Clients
  <1>10. w.registry \in [ClientId -> Ctx \cup {Null}] /\ w.subs \in [Topic -> SUBSET Ctx]
    BY <1>2, <1>9
  <1>11. ASSUME NEW i \in ClientId, w.registry[i] # Null
         PROVE  w.ctx[w.registry[i]].id = i /\ Held(w.conn, w.ctx, w.registry[i])
    <2>1. PICK k \in Clients : k.id = i /\ w.registry[i] = x[k.id]
      BY <1>2, <1>11
    <2> QED BY <1>5, <2>1, RestoredFields, Zenon DEF Held
  <1>12. ASSUME NEW t \in Topic, NEW y \in w.subs[t]
         PROVE  t \in w.ctx[y].topics /\ Held(w.conn, w.ctx, y)
    <2>1. PICK k \in Clients : t \in k.topics /\ y = x[k.id]
      BY <1>2
    <2> QED BY <1>5, <2>1, RestoredFields, Zenon DEF Held
  <1>13. Coherent(w.conn, w.ctx, w.registry, w.subs, Null)
    BY <1>7, <1>8, <1>10, <1>11, <1>12, Zenon DEF Coherent
  <1> QED BY <1>1, <1>13, Zenon DEF WInv, WInvBut, w

(* The counter and the retained messages that restore() reads.             *)
LEMMA RestoredRest ==
    ASSUME FileOK(disk.chunks), NEW x, Restore(x)
    PROVE  /\ last_id' \in 0 .. MaxMsg
           /\ retained' \in [Topic -> {-m : m \in Msg} \cup {0}]
           /\ \A k \in Chunks(disk.chunks, "DB_MSG") : Counted(disk.chunks) => k.msg <= last_id'
           /\ Counted(disk.chunks) /\ MaxMsg # 0 =>
                \A t \in Topic : -retained'[t] \in 0 .. last_id'
  <1> DEFINE file == disk.chunks
             G == Chunks(file, "GLOBAL_INFO")
             T == Chunks(file, "TOPIC_INFO")
             g == Stored(file, "GLOBAL_INFO", [last_id |-> 0])
             r == Stored(file, "TOPIC_INFO", [ids |-> NoRetained])
  <1>1. last_id' = g.last_id /\ \A t \in Topic : retained'[t] \in {-r.ids[t], 0}
    BY Zenon DEF Restore
  <1>2. retained' = [t \in Topic |-> retained'[t]]
    BY Zenon DEF Restore
  <1>3. IF G = {} THEN g.last_id = 0 ELSE g \in G
    BY Zenon DEF Stored
  <1>4. IF T = {} THEN r.ids = NoRetained ELSE r \in T
    BY Zenon DEF Stored
  <1> HIDE DEF g, r
  <1>5. g.last_id \in 0 .. MaxMsg
    BY <1>3, SizeAssumption DEF FileOK
  <1>6. \A t \in Topic : r.ids[t] \in Msg \cup {0}
    BY <1>4, Zenon DEF FileOK, NoRetained
  <1>7. \A t \in Topic : retained'[t] \in {-m : m \in Msg} \cup {0}
    BY <1>1, <1>6
  <1>8. retained' \in [Topic -> {-m : m \in Msg} \cup {0}]
    BY <1>2, <1>7, Zenon
  <1>9. ASSUME Counted(file), NEW k \in Chunks(file, "DB_MSG") PROVE k.msg <= last_id'
    BY <1>1, <1>3, <1>9, Zenon DEF Counted
  <1>10. ASSUME Counted(file), MaxMsg # 0, NEW t \in Topic PROVE -retained'[t] \in 0 .. last_id'
    <2>1. r.ids[t] \in Int /\ r.ids[t] >= 0 /\ last_id' \in Nat
      BY <1>1, <1>5, <1>6 DEF Msg
    <2>2. r.ids[t] <= last_id'
      BY <1>1, <1>3, <1>4, <1>10, <2>1 DEF Counted, NoRetained
    <2> QED BY <1>1, <2>1, <2>2
  <1> QED BY <1>1, <1>5, <1>8, <1>9, <1>10, Zenon

LEMMA RestoreSInv ==
    ASSUME SInv, FileOK(disk.chunks), NEW x \in [ClientId -> Ctx],
           \A i, j \in ClientId : i # j => x[i] # x[j], Restore(x), parent' = parent
    PROVE  SInv'
  <1>1. Rest'
    BY RestoredRest, Zenon DEF Rest, SInv
  <1>2. WInv(Restored(x)) /\ Becomes(Restored(x))
    BY RestoredInv, RestoreBecomes, Zenon
  <1> QED BY <1>1, <1>2, BecomesStep, Zenon

(* After a restart the broker has no buffer of a message it has yet to     *)
(* number.                                                                 *)
LEMMA RestoreFresh ==
    ASSUME FileOK(disk.chunks), Counted(disk.chunks), NEW x \in [ClientId -> Ctx],
           \A i, j \in ClientId : i # j => x[i] # x[j], Restore(x)
    PROVE  Fresh' /\ RetainedOwn'
  <1> DEFINE w == Restored(x)
             p == last_id'
  <1>1. p \in Nat /\ p <= MaxMsg
    BY RestoredRest
  <1>2. \A k \in Chunks(disk.chunks, "DB_MSG") : k.msg \in Own /\ k.msg <= p
    BY RestoredRest, Zenon DEF FileOK
  <1>3. /\ conn' = NoConn
        /\ \A y \in Ctx : ctx'[y] = Freed \/ \E k \in Clients : ctx'[y] = RestoredContext(k)
    <2>1. Becomes(w)
      BY RestoreBecomes, Zenon
    <2> QED BY <2>1, Zenon DEF Becomes, Restored
  <1>4. ASSUME NEW k \in Clients PROVE RestoredContext(k).queue \in Seq(Old(p))
    <2> DEFINE q == Queue(disk.chunks, k)
    <2>1. q \in Seq(Own) /\ Range(q) \subseteq Known(disk.chunks, k.stage)
      BY RestoredQueue, Zenon
    <2>2. \A m \in Known(disk.chunks, k.stage) : m \in Own /\ m <= p
      BY <1>2, Zenon DEF Known, Chunks
    <2>3. \A m \in Own : m \in Msg
      BY SizeAssumption DEF Own, Msg
    <2> HIDE DEF q, p
    <2>4. \A j \in 1 .. Len(q) : q[j] \in Old(p)
      <3>1. \A j \in 1 .. Len(q) : q[j] \in Range(q)
        BY DEF Range
      <3> QED BY <1>1, <2>1, <2>2, <2>3, <3>1, OldFacts, Zenon
    <2>5. q \in Seq(Old(p))
      BY <2>1, <2>4
    <2> QED BY <2>5, RestoredFields, Zenon DEF q
  <1>5. Below(conn', ctx', p)
    <2>1. Freed.queue \in Seq(Old(p)) /\ Closed.outq \in Seq(Old(p))
      BY DEF Freed, NewContext, Closed
    <2> QED BY <1>3, <1>4, <2>1, Zenon DEF Below, NoConn
  <1>6. ASSUME NEW t \in Topic
        PROVE  retained'[t] \in Old(p) /\ (MaxMsg # 0 => Message(retained'[t]) \in Own \cup {0})
    <2>1. retained'[t] \in {-m : m \in Msg} \cup {0}
      BY RestoredRest, Zenon
    <2>2. PICK m \in Msg \cup {0} : retained'[t] = -m
      BY <2>1
    <2>3. MaxMsg # 0 => m \in 0 .. p
      BY <2>2, RestoredRest DEF Msg
    <2>4. CASE m = 0
      BY <1>1, <2>2, <2>4, OldFacts, MessageFacts DEF Ctl
    <2>5. CASE m # 0
      <3>1. m \in Msg /\ Message(-m) = m
        BY <2>5, MessageFacts, Zenon
      <3>2. m \notin Own \/ m <= p
        BY <2>3 DEF Own, Msg
      <3>3. MaxMsg # 0 => m \in Own
        BY <1>1, <2>3, <2>5, SizeAssumption DEF Own
      <3> QED BY <1>1, <2>2, <3>1, <3>2, <3>3, OldFacts, Zenon
    <2> QED BY <2>4, <2>5, Zenon
  <1> QED BY <1>5, <1>6, Zenon DEF Fresh, RetainedOwn

-----------------------------------------------------------------------------
(* What is inductive without any condition on the ids: the worlds of the   *)
(* broker, and the shape of the file.                                      *)
PInv == SInv /\ FileOK(disk.chunks)

LEMMA IdleStep ==
    ASSUME SInv, NEW cs \in SUBSET Conn, Idle(cs), Becomes(CloseIdle(cs)),
           UNCHANGED <<retained, last_id, parent>>
    PROVE  SInv'
  <1>1. WInv(CloseIdle(cs))
    BY CloseIdleInv, Zenon DEF SInv
  <1> QED BY <1>1, BecomesStep, RestSame, Zenon

LEMMA PersistStep == PInv /\ [PersistNext]_pvars => PInv'
  <1> SUFFICES ASSUME PInv, [PersistNext]_pvars PROVE PInv'
    BY Zenon
  <1>1. SInv /\ FileOK(disk.chunks) /\ FileOK(Image)
    BY ImageOK, Zenon DEF PInv
  <1>2. CASE Handle
    BY <1>2, EventInv, Zenon DEF Handle, PInv
  <1>3. CASE NextSecond \/ UNCHANGED pvars
    <2>1. UNCHANGED vars /\ disk' = disk
      BY <1>3, Zenon DEF NextSecond, pvars
    <2> QED BY <2>1, UnchangedInv, Zenon DEF PInv
  <1>4. CASE Shutdown \/ Kill
    <2>1. SInv'
      BY <1>4, CrashInv, Zenon DEF Shutdown, Kill
    <2>2. disk'.chunks \in {disk.chunks, Image}
      BY <1>4 DEF Shutdown, Kill
    <2> QED BY <1>1, <2>1, <2>2, Zenon DEF PInv
  <1>5. ASSUME NEW cs \in SUBSET Conn, StoreTimer(cs) PROVE PInv'
    <2>1. SInv'
      BY <1>1, <1>5, IdleStep, Zenon DEF StoreTimer
    <2>2. disk'.chunks = Image
      BY <1>5, Zenon DEF StoreTimer
    <2> QED BY <1>1, <2>1, <2>2, Zenon DEF PInv
  <1>6. ASSUME NEW torn \in BOOLEAN, NEW file \in CutOff(torn), StoreCutOff(file, torn) PROVE PInv'
    <2>1. SInv' /\ disk'.chunks = file
      BY <1>6, CrashInv, Zenon DEF StoreCutOff
    <2> QED BY <2>1, CutOffOK, Zenon DEF PInv
  <1>7. ASSUME NEW torn \in BOOLEAN, NEW file \in CutOff(torn), NEW cs \in SUBSET Conn,
               StoreFails(cs, file, torn)
        PROVE  PInv'
    <2>1. SInv'
      BY <1>1, <1>7, IdleStep, Zenon DEF StoreFails
    <2>2. disk'.chunks = file
      BY <1>7, Zenon DEF StoreFails
    <2> QED BY <1>1, <2>1, <2>2, CutOffOK, Zenon DEF PInv
  <1>8. ASSUME NEW x \in [ClientId -> Ctx], Restart(x) PROVE PInv'
    <2>1. disk' = disk /\ parent' = parent
      BY <1>8, Zenon DEF Restart
    <2>2. CASE disk.torn
      <3>1. UNCHANGED <<conn, ctx, registry, subs, retained, last_id, parent>>
        BY <1>8, <2>2, Zenon DEF Restart
      <3>2. World' = World
        BY <3>1, Zenon DEF World
      <3>3. SInv'
        BY <1>1, <3>1, <3>2, Zenon DEF SInv, Linked, Rest
      <3> QED BY <2>1, <3>3, Zenon DEF PInv
    <2>3. CASE ~disk.torn
      <3>1. Restore(x) /\ \A i, j \in ClientId : i # j => x[i] # x[j]
        BY <1>8, <2>3, Zenon DEF Restart
      <3>2. SInv'
        BY <1>1, <2>1, <3>1, RestoreSInv, Zenon
      <3> QED BY <2>1, <3>2, Zenon DEF PInv
    <2> QED BY <2>2, <2>3, Zenon
  <1> QED BY <1>2, <1>3, <1>4, <1>5, <1>6, <1>7, <1>8, Zenon DEF PersistNext

LEMMA PersistInitInv == PersistInit => PInv
  <1> SUFFICES ASSUME PersistInit PROVE PInv
    BY Zenon
  <1>1. SInv
    BY InitSInv, Zenon DEF PersistInit
  <1>2. disk.chunks = {}
    BY Zenon DEF PersistInit
  <1>3. \A type : Chunks({}, type) = {}
    BY Zenon DEF Chunks
  <1> QED BY <1>1, <1>2, <1>3, Zenon DEF PInv, FileOK

(* The worlds of the broker stay coherent through stores, failed stores,   *)
(* the loss of the process and the restore at the next start; and the file *)
(* always has at most one session of a client, with topics and ids of the  *)
(* right kinds.                                                            *)
THEOREM PersistInvariance == PersistSpec => []PInv
  BY PersistInitInv, PersistStep, PTL DEF PersistSpec

(* What CTMqttClientContext, CClientIdContext and CSubscriberMgr promise   *)
(* each other also holds for the sessions that restore_client_info() has   *)
(* built: links, registrations and subscriptions agree after a restart.    *)
THEOREM CoreHoldsThroughRestarts == PersistSpec => [](LinkOK /\ RegistryOK /\ CleanLeavesNoTrace)
  <1>1. PInv => LinkOK /\ RegistryOK /\ CleanLeavesNoTrace
    BY InvLinks, InvRegistry, InvSubscribers, Zenon DEF PInv
  <1> QED BY <1>1, PersistInvariance, PTL

-----------------------------------------------------------------------------
(* The ids: what the broker has, and what it would read from the file,     *)
(* was numbered by a counter that is not lost before the messages are.     *)
IdInv == Fresh /\ RetainedOwn /\ Counted(disk.chunks)

LEMMA EmptyOwn ==
    ASSUME retained' = NoRetained
    PROVE  RetainedOwn'
  <1>1. Message(0) = 0
    BY MessageFacts, Zenon DEF Ctl
  <1> QED BY <1>1, Zenon DEF RetainedOwn, NoRetained

(* Only messages with ids of this broker are retained.                     *)
LEMMA EventOwn ==
    ASSUME Alone, SInv, RetainedOwn, Event
    PROVE  RetainedOwn'
  <1>1. retained' = retained => RetainedOwn'
    BY Zenon DEF RetainedOwn
  <1>2. ASSUME NEW why, Crash(why) PROVE RetainedOwn'
    BY <1>2, EmptyOwn, Zenon DEF Crash
  <1>3. ASSUME NEW c \in Conn, NEW t \in Topic, NEW flag \in RetainFlag, NEW n0 \in 0 .. 1,
               NEW n \in Taken, NEW failed \in SUBSET Conn, Publish(c, t, flag, n0, n, failed)
        PROVE  RetainedOwn'
    <2>1. CASE IteratorLost(Answered(c, n0), failed)
      <3>1. Crash("iterator")
        BY <1>3, <2>1, Zenon DEF Publish, Answered, PutOn
      <3> QED BY <1>2, <3>1, Zenon
    <2>2. CASE ~IteratorLost(Answered(c, n0), failed)
      <3> DEFINE m == last_id + 1
      <3>1. retained' = Retain(t, flag, m) /\ last_id < MaxMsg
        BY <1>3, <2>2, Zenon DEF Publish, Answered, PutOn
      <3>2. m \in Own /\ m \in Msg
        BY <3>1, SizeAssumption DEF SInv, Rest, Own, Msg
      <3>3. Message(-m) = m /\ Message(0) = 0
        BY <3>2, MessageFacts, Zenon DEF Ctl
      <3>4. retained \in [Topic -> {-k : k \in Msg} \cup {0}]
        BY Zenon DEF SInv, Rest
      <3> HIDE DEF m
      <3>5. \A u \in Topic : retained'[u] \in {retained[u], -m, 0}
        BY <3>1 DEF Retain, RetainFlag
      <3> QED BY <3>2, <3>3, <3>5, Zenon DEF RetainedOwn
    <2> QED BY <2>1, <2>2, Zenon
  <1>4. ASSUME NEW t \in Topic, NEW flag \in RetainFlag, NEW n \in Taken, NEW failed \in SUBSET Conn,
               NotifyHttp(t, flag, n, failed) \/ NotifyParent(t, flag, n, failed)
        PROVE  RetainedOwn'
    <2>1. PICK m : /\ Notified(m, t, flag, n, failed)
                   /\ Mode # 0 \/ (Mode = 0 /\ parent < MaxParent)
      BY <1>4, Zenon DEF NotifyHttp, NotifyParent
    <2>2. CASE IteratorLost(World, failed)
      <3>1. Crash("iterator")
        BY <2>1, <2>2, Zenon DEF Notified
      <3> QED BY <1>2, <3>1, Zenon
    <2>3. CASE ~IteratorLost(World, failed) /\ Mode # 0
      BY <1>1, <2>1, <2>3, Zenon DEF Notified
    <2>4. CASE Mode = 0
      <3>1. MaxMsg = 0
        BY <2>1, <2>4 DEF Alone, SInv, Rest
      <3> QED BY <3>1, Zenon DEF RetainedOwn
    <2> QED BY <2>2, <2>3, <2>4, Zenon
  <1>5. ASSUME NEW c \in Conn,
               \/ \E n \in 0 .. SndBuf :
                    \/ ConnectBadId(c, n) \/ Pingreq(c, n)
                    \/ \E i \in ClientId, clean \in BOOLEAN :
                         ConnectNew(c, i, clean, n) \/ ConnectKnown(c, i, clean, n)
                    \/ \E ts \in TopicList : Subscribe(c, ts, n) \/ Unsubscribe(c, ts, n)
               \/ Accept(c) \/ Close(c) \/ WriteError(c) \/ TooEarly(c) \/ Disconnect(c)
               \/ Puback(c) \/ PubackFirst(c)
               \/ \E again \in BOOLEAN : HandleOutput(c, again)
        PROVE  RetainedOwn'
    <2> DEFINE Kept == retained' = retained \/ \E why : Crash(why)
    <2>1. \A n \in 0 .. SndBuf : ConnectBadId(c, n) \/ Pingreq(c, n) => Kept
      BY Zenon DEF ConnectBadId, Pingreq, ConnAck
    <2>2. ASSUME NEW n \in 0 .. SndBuf, NEW i \in ClientId, NEW clean \in BOOLEAN,
                 ConnectNew(c, i, clean, n) \/ ConnectKnown(c, i, clean, n)
          PROVE  Kept
      <3>1. retained' = retained
        BY <2>2, Zenon DEF ConnectNew, ConnectKnown, ConnAck
      <3> QED BY <3>1, Zenon
    <2>3. \A n \in 0 .. SndBuf, ts \in TopicList : Subscribe(c, ts, n) \/ Unsubscribe(c, ts, n) => Kept
      BY Zenon DEF Subscribe, Unsubscribe
    <2>4. Accept(c) \/ TooEarly(c) \/ Disconnect(c) \/ Puback(c) \/ PubackFirst(c) => Kept
      BY Zenon DEF Accept, TooEarly, Disconnect, Puback, PubackFirst
    <2>5. Close(c) \/ WriteError(c) => Kept
      BY Zenon DEF Close, WriteError
    <2>6. \A again \in BOOLEAN : HandleOutput(c, again) => Kept
      BY Zenon DEF HandleOutput
    <2> HIDE DEF Kept
    <2>7. Kept
      BY <1>5, <2>1, <2>2, <2>3, <2>4, <2>5, <2>6, Zenon
    <2> QED BY <1>1, <1>2, <2>7, Zenon DEF Kept
  <1> QED BY <1>3, <1>4, <1>5, Zenon DEF Event

LEMMA IdStep ==
    ASSUME Alone
    PROVE  PInv /\ PInv' /\ IdInv /\ [PersistNext]_pvars => IdInv'
  <1> SUFFICES ASSUME PInv, PInv', IdInv, [PersistNext]_pvars PROVE IdInv'
    BY Zenon
  <1>1. /\ SInv /\ SInv' /\ FileOK(disk.chunks)
        /\ Fresh /\ RetainedOwn /\ Counted(disk.chunks) /\ Counted(Image)
    BY ImageCounted, Zenon DEF PInv, IdInv
  <1>2. \A why : Crash(why) => Fresh' /\ RetainedOwn'
    BY CrashFresh, EmptyOwn, Zenon DEF Crash
  <1>3. ASSUME UNCHANGED <<conn, ctx, retained, last_id>> PROVE Fresh' /\ RetainedOwn'
    BY <1>1, <1>3, Zenon DEF Fresh, RetainedOwn
  <1>4. ASSUME NEW cs \in SUBSET Conn, Idle(cs), Becomes(CloseIdle(cs)), UNCHANGED <<retained, last_id>>
        PROVE  Fresh' /\ RetainedOwn'
    <2>1. From(World, CloseIdle(cs), last_id)
      BY <1>1, <1>4, CloseIdleFrom, Zenon
    <2>2. Carried(last_id)
      BY <1>1, <1>4, <2>1, BecomesFrom, Zenon DEF Fresh
    <2> QED BY <1>1, <1>4, <2>2, FreshSame, Zenon DEF RetainedOwn
  <1>5. CASE Handle
    <2>1. Event /\ disk' = disk
      BY <1>5, Zenon DEF Handle
    <2>2. Fresh' /\ RetainedOwn'
      BY <1>1, <2>1, EventCarried, EventOwn, Zenon
    <2> QED BY <2>1, <2>2, Zenon DEF IdInv
  <1>6. CASE NextSecond \/ UNCHANGED pvars
    <2>1. UNCHANGED <<conn, ctx, retained, last_id>> /\ disk' = disk
      BY <1>6, Zenon DEF NextSecond, pvars, vars
    <2> QED BY <1>3, <2>1, Zenon DEF IdInv
  <1>7. CASE Shutdown \/ Kill
    <2>1. (\E why : Crash(why)) /\ disk'.chunks \in {disk.chunks, Image}
      BY <1>7 DEF Shutdown, Kill
    <2> QED BY <1>1, <1>2, <2>1, Zenon DEF IdInv
  <1>8. ASSUME NEW cs \in SUBSET Conn, StoreTimer(cs) PROVE IdInv'
    <2>1. Idle(cs) /\ Becomes(CloseIdle(cs)) /\ UNCHANGED <<retained, last_id>> /\ disk'.chunks = Image
      BY <1>8, Zenon DEF StoreTimer
    <2> QED BY <1>1, <1>4, <2>1, Zenon DEF IdInv
  <1>9. ASSUME NEW torn \in BOOLEAN, NEW file \in CutOff(torn),
               StoreCutOff(file, torn) \/ \E cs \in SUBSET Conn : StoreFails(cs, file, torn)
        PROVE  IdInv'
    <2>1. Counted(file)
      BY <1>1, CutOffCounted, Zenon
    <2>2. CASE StoreCutOff(file, torn)
      <3>1. Crash("killed") /\ disk'.chunks = file
        BY <2>2, Zenon DEF StoreCutOff
      <3> QED BY <1>2, <2>1, <3>1, Zenon DEF IdInv
    <2>3. ASSUME NEW cs \in SUBSET Conn, StoreFails(cs, file, torn) PROVE IdInv'
      <3>1. Idle(cs) /\ Becomes(CloseIdle(cs)) /\ UNCHANGED <<retained, last_id>> /\ disk'.chunks = file
        BY <2>3, Zenon DEF StoreFails
      <3> QED BY <1>4, <2>1, <3>1, Zenon DEF IdInv
    <2> QED BY <1>9, <2>2, <2>3, Zenon
  <1>10. ASSUME NEW x \in [ClientId -> Ctx], Restart(x) PROVE IdInv'
    <2>1. disk' = disk
      BY <1>10, Zenon DEF Restart
    <2>2. Fresh' /\ RetainedOwn'
      <3>1. CASE disk.torn
        BY <1>3, <1>10, <3>1, Zenon DEF Restart
      <3>2. CASE ~disk.torn
        BY <1>1, <1>10, <3>2, RestoreFresh, Zenon DEF Restart
      <3> QED BY <3>1, <3>2, Zenon
    <2> QED BY <2>1, <2>2, Zenon DEF IdInv
  <1> QED BY <1>5, <1>6, <1>7, <1>8, <1>9, <1>10, Zenon DEF PersistNext

LEMMA IdInit == PersistInit => IdInv
  <1> SUFFICES ASSUME PersistInit PROVE IdInv
    BY Zenon
  <1>1. Fresh
    BY EmptyFresh, Zenon DEF PersistInit, Init, Fresh
  <1>2. RetainedOwn
    <2>1. Message(0) = 0
      BY MessageFacts, Zenon DEF Ctl
    <2> QED BY <2>1, Zenon DEF RetainedOwn, NoRetained, PersistInit, Init
  <1>3. disk.chunks = {} /\ \A type : Chunks({}, type) = {}
    BY Zenon DEF PersistInit, Chunks
  <1> QED BY <1>1, <1>2, <1>3, Zenon DEF IdInv, Counted

LEMMA InvIds == PInv /\ IdInv => FreshIds
  <1> SUFFICES ASSUME PInv, IdInv, NEW m \in Own, last_id < m
               PROVE  /\ \A x \in Ctx : m \notin Messages(ctx[x].queue)
                      /\ \A c \in Conn : m \notin Messages(conn[c].outq)
                      /\ \A t \in Topic : m # Message(retained[t])
    BY Zenon DEF FreshIds
  <1>1. last_id \in Int /\ m \in Int /\ ~(m <= last_id)
    BY DEF PInv, SInv, Rest, Own
  <1>2. \A b \in Old(last_id) : Message(b) # m
    BY <1>1, Zenon DEF Old
  <1>3. \A s \in Seq(Old(last_id)) : m \notin Messages(s)
    BY <1>2 DEF Messages, Range
  <1> QED BY <1>2, <1>3, Zenon DEF IdInv, Fresh, Below

(* next_msg_id() gives out new ids only: whatever store() had written when *)
(* it failed or the process was lost, the counter that restore() reads     *)
(* covers every message that it reads.                                     *)
THEOREM FreshIdsHolds ==
    ASSUME Alone
    PROVE  PersistSpec => []FreshIds
  <1>1. PInv /\ PInv' /\ IdInv /\ [PersistNext]_pvars => IdInv'
    BY IdStep, Zenon
  <1> QED BY <1>1, IdInit, InvIds, PersistInvariance, PTL DEF PersistSpec

-----------------------------------------------------------------------------
(* What a completed store has promised a client is in the file, in the     *)
(* chunk of its session, after the messages themselves.                    *)
OnDisk(i) ==
    /\ ~disk.torn
    /\ \E k \in Clients :
         k.id = i /\ durable[i] \subseteq Range(k.ids) /\ durable[i] \subseteq Known(disk.chunks, k.stage)

DurableInv ==
    /\ durable \in [ClientId -> SUBSET Own]
    /\ \A i \in ClientId : durable[i] # {} => OnDisk(i)

LEMMA SavedType == Saved \in [ClientId -> SUBSET Own]
  <1>1. msg_db \subseteq Own
    BY Zenon DEF msg_db
  <1> QED BY <1>1, Zenon DEF Saved

(* A parent numbers its messages as this broker does: ids are only unique  *)
(* if one of them sends nothing.                                           *)
LEMMA UniqueAlone == UniqueIds => Alone
  <1> SUFFICES ASSUME UniqueIds, MaxMsg # 0, MaxParent # 0 PROVE FALSE
    BY Zenon DEF Alone
  <1>1. 1 \in Own /\ 1 \in Msg /\ MaxMsg + 1 \in Msg /\ MaxMsg + 1 \notin Own
    BY SizeAssumption DEF Own, Msg
  <1>2. /\ 1 \in Buffer /\ MaxMsg + 1 \in Buffer
        /\ Message(1) = 1 /\ Message(MaxMsg + 1) = MaxMsg + 1
    BY <1>1, MessageFacts, Zenon DEF Buffer
  <1>3. mbuf_id(1) = 1 /\ mbuf_id(MaxMsg + 1) = MaxMsg + 1 - MaxMsg /\ MaxMsg + 1 # 1
    BY <1>1, <1>2, SizeAssumption DEF mbuf_id
  <1>4. mbuf_id(MaxMsg + 1) = 1
    BY <1>3, SizeAssumption
  <1>5. msg_id(1) = msg_id(MaxMsg + 1)
    BY <1>3, <1>4, Zenon DEF msg_id
  <1> QED BY <1>2, <1>3, <1>5, Zenon DEF UniqueIds

(* A completed store puts on the disk all that it promises.                *)
LEMMA SavedOnDisk ==
    ASSUME SInv, disk' = [chunks |-> Image, torn |-> FALSE], durable' = Saved, NEW i \in ClientId, durable'[i] # {}
    PROVE  OnDisk(i)'
  <1> DEFINE q == ctx[registry[i]].queue
             k == ClientChunk(i, 3)
  <1>1. registry[i] # Null /\ ~ctx[registry[i]].clean /\ durable'[i] = msg_db \cap Range(q)
    BY Zenon DEF Saved
  <1>2. k \in store_client_info(3)
    BY <1>1, ClientChunks, Zenon
  <1>3. k.id = i /\ k.stage = 3 /\ \A m \in Own : m \in Range(q) => m \in Range(k.ids)
    BY <1>1, QueueIds, Zenon
  <1> HIDE DEF k, q
  <1>4. disk'.chunks = Image /\ ~disk'.torn
    BY Zenon
  <1>5. k \in Chunks(Image, "CLIENT_MSG")
    BY <1>2, ImageChunks, Zenon
  <1>6. ASSUME NEW m \in msg_db PROVE m \in Known(Image, 3)
    <2> DEFINE d == [stage |-> 2, type |-> "DB_MSG", msg |-> m]
    <2>1. d \in Chunks(Image, "DB_MSG") /\ d.stage < 3 /\ d.msg = m
      BY ImageChunks DEF store_db_msg
    <2> HIDE DEF d
    <2> QED BY <2>1, Zenon DEF Known
  <1>7. msg_db \subseteq Own
    BY Zenon DEF msg_db
  <1>8. durable'[i] \subseteq Range(k.ids) /\ durable'[i] \subseteq Known(Image, 3)
    BY <1>1, <1>3, <1>6, <1>7, Zenon
  <1> QED BY <1>3, <1>5, <1>8, Zenon DEF OnDisk, Clients

LEMMA EventRuns == Event => Running
  <1>1. \A c \in Conn, n \in 0 .. SndBuf : ConnectBadId(c, n) \/ Pingreq(c, n) => Running
    BY Zenon DEF ConnectBadId, Pingreq, Request
  <1>2. ASSUME NEW c \in Conn, NEW n \in 0 .. SndBuf, NEW i \in ClientId, NEW clean \in BOOLEAN,
               ConnectNew(c, i, clean, n) \/ ConnectKnown(c, i, clean, n)
        PROVE  Running
    BY <1>2, Zenon DEF ConnectNew, ConnectKnown, Request
  <1>3. \A c \in Conn, n \in 0 .. SndBuf, ts \in TopicList :
          Subscribe(c, ts, n) \/ Unsubscribe(c, ts, n) => Running
    BY DEF Subscribe, Unsubscribe, Request
  <1>4. ASSUME NEW c \in Conn, NEW t \in Topic, NEW flag \in RetainFlag, NEW n0 \in 0 .. 1,
               NEW n \in Taken, NEW failed \in SUBSET Conn, Publish(c, t, flag, n0, n, failed)
        PROVE  Running
    BY <1>4, Zenon DEF Publish, Request
  <1>5. \A c \in Conn : Accept(c) \/ Close(c) \/ WriteError(c) \/ TooEarly(c) \/ Disconnect(c)
                           \/ Puback(c) \/ PubackFirst(c) => Running
    BY Zenon DEF Accept, Close, WriteError, TooEarly, Disconnect, Puback, PubackFirst
  <1>6. \A c \in Conn, again \in BOOLEAN : HandleOutput(c, again) => Running
    BY Zenon DEF HandleOutput
  <1>7. \A t \in Topic, flag \in RetainFlag, n \in Taken, failed \in SUBSET Conn :
          NotifyHttp(t, flag, n, failed) \/ NotifyParent(t, flag, n, failed) => Running
    BY Zenon DEF NotifyHttp, NotifyParent
  <1> QED BY <1>1, <1>2, <1>3, <1>4, <1>5, <1>6, <1>7, Zenon DEF Event

(* A session that the reactor keeps registered has what was promised.      *)
LEMMA EventDurable ==
    ASSUME UniqueIds, SInv, SInv', Fresh, Event, Durable, DurableInv, fault' = "none",
           durable' = StillOwed, NEW i \in ClientId, durable'[i] # {}
    PROVE  /\ durable'[i] \subseteq durable[i] /\ durable[i] # {}
           /\ registry'[i] # Null /\ durable'[i] \subseteq Messages(ctx'[registry'[i]].queue)
  <1>1. /\ registry'[i] # Null
        /\ durable'[i] = durable[i] \ ctx'[registry'[i]].acked
    BY Zenon DEF StillOwed
  <1>2. durable'[i] \subseteq durable[i] /\ durable[i] # {}
    BY <1>1, Zenon
  <1>3. Running
    BY EventRuns, Zenon
  <1>4. registry[i] # Null /\ durable[i] \subseteq Messages(ctx[registry[i]].queue)
    BY <1>2, <1>3, Zenon DEF Durable
  <1>5. KeepsQueues
    BY EventCarried, Zenon
  <1>6. /\ registry'[i] = registry[i]
        /\ Messages(ctx[registry[i]].queue)
             \subseteq Messages(ctx'[registry[i]].queue) \cup ctx'[registry[i]].acked
    BY <1>1, <1>4, <1>5, Zenon DEF KeepsQueues
  <1> QED BY <1>1, <1>4, <1>6, Zenon

(* What the timer's store has promised is still queued when it returns.    *)
LEMMA StoredDurable ==
    ASSUME SInv, SInv', Fresh, NEW cs \in SUBSET Conn, Idle(cs), Becomes(CloseIdle(cs)),
           durable' = Saved, NEW i \in ClientId, durable'[i] # {}
    PROVE  registry'[i] # Null /\ durable'[i] \subseteq Messages(ctx'[registry'[i]].queue)
  <1> DEFINE q == ctx[registry[i]].queue
  <1>1. registry[i] # Null /\ ~ctx[registry[i]].clean /\ durable'[i] = msg_db \cap Range(q)
    BY Zenon DEF Saved
  <1>2. From(World, CloseIdle(cs), last_id) /\ CloseIdle(cs).registry[i] = registry[i]
    BY <1>1, CloseIdleFrom, Zenon
  <1>3. registry'[i] = registry[i] /\ registry[i] \in Ctx
    BY <1>1, <1>2, StateFacts DEF Becomes
  <1>4. registry' \in [ClientId -> Ctx \cup {Null}]
    BY Zenon DEF SInv, WInv, WInvBut, World, Coherent
  <1>5. registry[i] \in Referenced(CloseIdle(cs))
    <2>1. registry' = CloseIdle(cs).registry
      BY Zenon DEF Becomes
    <2> QED BY <1>3, <1>4, <2>1, Zenon DEF Referenced, Range
  <1>6. Messages(q) \subseteq Messages(ctx'[registry[i]].queue)
    <2>1. ctx'[registry[i]] = CloseIdle(cs).ctx[registry[i]]
      BY <1>3, <1>5, Zenon DEF Becomes
    <2> QED BY <1>1, <1>2, <2>1, WorldParts, Zenon DEF From
  <1>7. msg_db \cap Range(q) \subseteq Messages(q)
    <2>1. \A m \in msg_db : Message(m) = m
      BY MbufId, Zenon DEF msg_db
    <2> QED BY <2>1, Zenon DEF Messages
  <1> QED BY <1>1, <1>3, <1>6, <1>7, Zenon

(* restore() gives the session all of it back.                             *)
LEMMA RestoreDurable ==
    ASSUME FileOK(disk.chunks), NEW x \in [ClientId -> Ctx],
           \A i, j \in ClientId : i # j => x[i] # x[j], Restore(x),
           NEW i \in ClientId, OnDisk(i)
    PROVE  registry'[i] # Null /\ durable[i] \subseteq Messages(ctx'[registry'[i]].queue)
  <1>1. PICK k \in Clients :
          k.id = i /\ durable[i] \subseteq Range(k.ids) /\ durable[i] \subseteq Known(disk.chunks, k.stage)
    BY Zenon DEF OnDisk
  <1>2. Becomes(Restored(x))
    BY RestoreBecomes, Zenon
  <1>3. registry'[i] = x[i] /\ x[i] \in Ctx
    BY <1>1, <1>2, Zenon DEF Becomes, Restored
  <1>4. x[i] \in Referenced(Restored(x))
    <2>1. i \in DOMAIN Restored(x).registry /\ Restored(x).registry[i] = x[i]
      BY <1>1, Zenon DEF Restored
    <2> QED BY <2>1, Zenon DEF Referenced, Range
  <1>5. ctx'[x[i]] = RestoredContext(k)
    BY <1>1, <1>2, <1>4, RestoredCtx, Zenon DEF Becomes
  <1>6. ctx'[x[i]].queue = Queue(disk.chunks, k)
    BY <1>5, RestoredFields, Zenon
  <1>7. Messages(Queue(disk.chunks, k)) = Range(k.ids) \cap Known(disk.chunks, k.stage)
    BY RestoredQueue, OwnMessages, Zenon
  <1> QED BY <1>1, <1>3, <1>6, <1>7, NullFacts, Zenon

LEMMA DurableStep ==
    ASSUME UniqueIds
    PROVE  PInv /\ PInv' /\ IdInv /\ DurableInv /\ Durable /\ [PersistNext]_pvars => DurableInv' /\ Durable'
  <1> SUFFICES ASSUME PInv, PInv', IdInv, DurableInv, Durable, [PersistNext]_pvars
               PROVE  DurableInv' /\ Durable'
    BY Zenon
  <1>1. /\ SInv /\ SInv' /\ FileOK(disk.chunks) /\ Fresh
        /\ durable \in [ClientId -> SUBSET Own] /\ \A i \in ClientId : durable[i] # {} => OnDisk(i)
    BY Zenon DEF PInv, IdInv, DurableInv
  <1>2. ASSUME UNCHANGED <<disk, durable>> PROVE DurableInv'
    BY <1>2, Zenon DEF DurableInv, OnDisk, Clients
  <1>3. fault' # "none" => Durable'
    BY Zenon DEF Durable, Running
  <1>4. ASSUME durable' = Nothing PROVE DurableInv' /\ Durable'
    BY <1>4, Zenon DEF DurableInv, Durable, Nothing
  <1>5. ASSUME disk' = [chunks |-> Image, torn |-> FALSE], durable' = Saved PROVE DurableInv'
    BY <1>1, <1>5, SavedType, SavedOnDisk, Zenon DEF DurableInv
  <1>6. CASE Handle
    <2>1. Event /\ disk' = disk /\ durable' = IF fault' = "none" THEN StillOwed ELSE durable
      BY <1>6, Zenon DEF Handle
    <2>2. CASE fault' # "none"
      BY <1>2, <1>3, <2>1, <2>2, Zenon
    <2>3. CASE fault' = "none"
      <3>1. ASSUME NEW i \in ClientId, durable'[i] # {}
            PROVE  /\ durable'[i] \subseteq durable[i] /\ durable[i] # {}
                   /\ registry'[i] # Null /\ durable'[i] \subseteq Messages(ctx'[registry'[i]].queue)
        <4>1. durable' = StillOwed
          BY <2>1, <2>3, Zenon
        <4> QED BY <1>1, <2>1, <2>3, <3>1, EventDurable, Zenon
      <3>2. durable' \in [ClientId -> SUBSET Own]
        BY <1>1, <2>1, Zenon DEF StillOwed
      <3>3. \A i \in ClientId : durable'[i] # {} => OnDisk(i)'
        BY <1>1, <2>1, <3>1, Zenon DEF OnDisk, Clients
      <3> QED BY <3>1, <3>2, <3>3, Zenon DEF DurableInv, Durable
    <2> QED BY <2>2, <2>3, Zenon
  <1>7. CASE NextSecond \/ UNCHANGED pvars
    <2>1. UNCHANGED <<disk, durable, fault, registry, ctx>>
      BY <1>7, Zenon DEF NextSecond, pvars, vars
    <2> QED BY <1>2, <2>1, Zenon DEF Durable, Running
  <1>8. CASE Shutdown
    <2>1. fault' # "none" /\ disk' = [chunks |-> Image, torn |-> FALSE] /\ durable' = Saved
      BY <1>8, Zenon DEF Shutdown, Crash
    <2> QED BY <1>3, <1>5, <2>1, Zenon
  <1>9. CASE Kill
    <2>1. fault' # "none" /\ UNCHANGED <<disk, durable>>
      BY <1>9, Zenon DEF Kill, Crash
    <2> QED BY <1>2, <1>3, <2>1, Zenon
  <1>10. ASSUME NEW cs \in SUBSET Conn, StoreTimer(cs) PROVE DurableInv' /\ Durable'
    <2>1. /\ Idle(cs) /\ Becomes(CloseIdle(cs))
          /\ disk' = [chunks |-> Image, torn |-> FALSE] /\ durable' = Saved
      BY <1>10, Zenon DEF StoreTimer
    <2>2. DurableInv'
      BY <1>5, <2>1, Zenon
    <2>3. \A i \in ClientId : durable'[i] # {} =>
            registry'[i] # Null /\ durable'[i] \subseteq Messages(ctx'[registry'[i]].queue)
      BY <1>1, <2>1, StoredDurable, Zenon
    <2> QED BY <2>2, <2>3, Zenon DEF Durable
  <1>11. ASSUME NEW torn \in BOOLEAN, NEW file \in CutOff(torn),
                StoreCutOff(file, torn) \/ \E cs \in SUBSET Conn : StoreFails(cs, file, torn)
         PROVE  DurableInv' /\ Durable'
    <2>1. durable' = Nothing
      BY <1>11, Zenon DEF StoreCutOff, StoreFails
    <2> QED BY <1>4, <2>1, Zenon
  <1>12. ASSUME NEW x \in [ClientId -> Ctx], Restart(x) PROVE DurableInv' /\ Durable'
    <2>1. UNCHANGED <<disk, durable>> /\ \A i, j \in ClientId : i # j => x[i] # x[j]
      BY <1>12, Zenon DEF Restart
    <2>2. Durable'
      <3>1. CASE disk.torn
        BY <1>3, <1>12, <3>1, Zenon DEF Restart
      <3>2. CASE ~disk.torn
        <4>1. Restore(x)
          BY <1>12, <3>2, Zenon DEF Restart
        <4>2. \A i \in ClientId : durable[i] # {} =>
                registry'[i] # Null /\ durable[i] \subseteq Messages(ctx'[registry'[i]].queue)
          BY <1>1, <2>1, <4>1, RestoreDurable, Zenon
        <4> QED BY <2>1, <4>2, Zenon DEF Durable
      <3> QED BY <3>1, <3>2, Zenon
    <2> QED BY <1>2, <2>1, <2>2, Zenon
  <1> QED BY <1>6, <1>7, <1>8, <1>9, <1>10, <1>11, <1>12, Zenon DEF PersistNext

LEMMA DurableInit == PersistInit => DurableInv /\ Durable
  BY Zenon DEF PersistInit, DurableInv, Durable, Nothing

(* A message that a completed store() has saved for a persistent session   *)
(* is in its queue until it is acknowledged: through every handler, kill,  *)
(* shutdown and restart, while no later store fails or is cut off.         *)
THEOREM DurableHolds ==
    ASSUME UniqueIds
    PROVE  PersistSpec => []Durable
  <1>1. Alone
    BY UniqueAlone, Zenon
  <1>2. PInv /\ PInv' /\ IdInv /\ [PersistNext]_pvars => IdInv'
    BY <1>1, IdStep, Zenon
  <1>3. PInv /\ PInv' /\ IdInv /\ DurableInv /\ Durable /\ [PersistNext]_pvars => DurableInv' /\ Durable'
    BY DurableStep, Zenon
  <1> QED BY <1>2, <1>3, IdInit, DurableInit, PersistInvariance, PTL DEF PersistSpec

(* A message leaves the queue of a session only when it is acknowledged,   *)
(* also in a process that was started again: restore_client_info() owes    *)
(* its client what it has found, and keeps it until then.                  *)
THEOREM NoLossThroughRestarts ==
    ASSUME UniqueIds
    PROVE  PersistSpec => []NoLoss
  <1>1. PInv => NoLoss
    BY InvQueues, Zenon DEF PInv
  <1> QED BY <1>1, PersistInvariance, PTL

=============================================================================

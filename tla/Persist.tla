------------------------------ MODULE Persist ------------------------------
(***************************************************************************)
(* CPersistMsgPack composed with the broker core: the store timer, the     *)
(* forced store at shutdown, stores that fail or are cut off half way, the *)
(* loss of the process at any time, and the restore at the next start.     *)
(*                                                                         *)
(* store() runs in the reactor thread, so nothing but the end of the       *)
(* process comes between its writes: a store is one step, and one that is  *)
(* cut off leaves a prefix of the file.  Times are seconds; all that       *)
(* store() asks of them is kept in dirty and same_second.                  *)
(***************************************************************************)
EXTENDS Session

VARIABLES
    disk,        \* the chunks of the database file; torn: it ends inside a chunk
    dirty,       \* m_last_update_time > last_db_update_time
    same_second, \* m_last_update_time is the current second
    durable      \* history: the messages a completed store has saved for a client,
                 \* without those that were acknowledged or given up since

pvars == <<vars, disk, dirty, same_second, durable>>

(* m_msg_db: the registered buffers that are still referenced.             *)
msg_db ==
    {m \in Own : \/ \E x \in Ctx : m \in Range(ctx[x].queue)
                 \/ \E c \in Conn : m \in Range(conn[c].outq)}

store_db_info(stage) == {[stage |-> stage, type |-> "GLOBAL_INFO", last_id |-> last_id]}

store_db_msg(stage) == {[stage |-> stage, type |-> "DB_MSG", msg |-> m] : m \in msg_db}

(* The sessions that are not clean, with the ids of their queues           *)
(* (prepare_store()) and the topics they list.                             *)
store_client_info(stage) ==
    {[stage |-> stage, type |-> "CLIENT_MSG", id |-> i, topics |-> ctx[registry[i]].topics,
      ids |-> [j \in DOMAIN ctx[registry[i]].queue |-> mbuf_id(ctx[registry[i]].queue[j])]] :
         i \in {j \in ClientId : registry[j] # Null /\ ~ctx[registry[j]].clean}}

store_retain_msg(stage) ==
    IF retained = NoRetained THEN {}
    ELSE {[stage |-> stage, type |-> "TOPIC_INFO",
           ids |-> [t \in Topic |-> IF retained[t] = 0 THEN 0 ELSE mbuf_id(retained[t])]]}

(* Mutant: the counter is written last.                                    *)
Image_CounterLast ==
    store_db_msg(1) \cup store_client_info(2) \cup store_retain_msg(3) \cup store_db_info(4)

(* Mutant: the sessions are written before the messages they refer to.     *)
Image_ClientsFirst ==
    store_db_info(1) \cup store_client_info(2) \cup store_db_msg(3) \cup store_retain_msg(4)

(* What store() writes, in this order.  The order of the messages and of   *)
(* the sessions among themselves is that of a hash map.                    *)
Image ==
    store_db_info(1) \cup store_db_msg(2) \cup store_client_info(3) \cup store_retain_msg(4)

Prefix(file) ==
    {s \in SUBSET file : \A a \in s, b \in file : b.stage < a.stage => b \in s}

(* What is left of a store that ends too early.  A file that ends inside a *)
(* chunk is never restored: its chunks do not matter.                      *)
CutOff(torn) == IF torn THEN {{}} ELSE Prefix(Image) \ {Image}

Chunks(file, type) == {k \in file : k.type = type}

(* The only chunk of its type, or what it is without it.                   *)
Stored(file, type, none) ==
    IF Chunks(file, type) = {} THEN none ELSE CHOOSE k \in Chunks(file, type) : TRUE

(* The messages of m_tmp_msg_db that a chunk at this stage finds.          *)
Known(file, stage) == {k.msg : k \in {d \in Chunks(file, "DB_MSG") : d.stage < stage}}

(* The queue that restore_client_info() builds from the ids of a chunk.    *)
Queue(file, k) == Filter(k.ids, Known(file, k.stage))

-----------------------------------------------------------------------------
Nothing == [i \in ClientId |-> {}]

PersistInit ==
    /\ Init
    /\ disk = [chunks |-> {}, torn |-> FALSE]
    /\ dirty = FALSE /\ same_second = FALSE
    /\ durable = Nothing

(* What a completed store promises: the messages registered with the store *)
(* that wait in the persistent sessions.                                   *)
Saved == [i \in ClientId |->
    IF registry[i] = Null THEN {}
    ELSE IF ctx[registry[i]].clean THEN {}
    ELSE msg_db \cap Range(ctx[registry[i]].queue)]

(* A message is no longer owed once it is acknowledged, or once its client *)
(* has asked for a clean session or has lost its registration.             *)
StillOwed == [i \in ClientId |->
    IF registry'[i] = Null THEN {}
    ELSE IF ctx'[registry'[i]].clean THEN {}
    ELSE durable[i] \ ctx'[registry'[i]].acked]

(* The reactor handles an event.  A published message is registered in the *)
(* store, which notes the second.                                          *)
Handle ==
    /\ Event
    /\ CASE fault' # "none" -> dirty' = FALSE /\ same_second' = FALSE
         [] fault' = "none" /\ last_id' > last_id ->
              dirty' = (dirty \/ ~same_second) /\ same_second' = TRUE
         [] OTHER -> UNCHANGED <<dirty, same_second>>
    /\ durable' = IF fault' = "none" THEN StillOwed ELSE durable
    /\ UNCHANGED disk

NextSecond ==
    /\ same_second /\ same_second' = FALSE
    /\ UNCHANGED <<vars, disk, dirty, durable>>

(* The timer calls store(), which does nothing unless a message was        *)
(* published since, and closes the idle connections on the way.            *)
StoreTimer(cs) ==
    /\ Running /\ dirty /\ Idle(cs)
    /\ Becomes(CloseIdle(cs))
    /\ disk' = [chunks |-> Image, torn |-> FALSE]
    /\ dirty' = FALSE
    /\ durable' = Saved
    /\ UNCHANGED <<retained, last_id, parent, fault, same_second>>

(* A write fails: store() returns, and what was written stays.             *)
StoreFails(cs, file, torn) ==
    /\ Running /\ dirty /\ Idle(cs)
    /\ cs # {} => torn \/ store_db_msg(2) \subseteq file
    /\ Becomes(CloseIdle(cs))
    /\ disk' = [chunks |-> file, torn |-> torn]
    /\ dirty' = FALSE
    /\ durable' = Nothing
    /\ UNCHANGED <<retained, last_id, parent, fault, same_second>>

(* The process ends while it is storing.                                   *)
StoreCutOff(file, torn) ==
    /\ Running
    /\ Crash("killed")
    /\ disk' = [chunks |-> file, torn |-> torn]
    /\ durable' = Nothing
    /\ dirty' = FALSE /\ same_second' = FALSE

(* SIGTERM ends the loop, and loop() stores once more.                     *)
Shutdown ==
    /\ Running
    /\ Crash("exit")
    /\ disk' = [chunks |-> Image, torn |-> FALSE]
    /\ durable' = Saved
    /\ dirty' = FALSE /\ same_second' = FALSE

(* The process is killed.                                                  *)
Kill ==
    /\ Running
    /\ Crash("killed")
    /\ dirty' = FALSE /\ same_second' = FALSE
    /\ UNCHANGED <<disk, durable>>

(* restore() of a complete file.  A retained message is given back to a    *)
(* topic that a restored session has made.                                 *)
Restore(x) ==
    LET file == disk.chunks
        clients == Chunks(file, "CLIENT_MSG")
    IN  /\ Becomes([conn |-> NoConn,
                    ctx |-> [y \in Ctx |->
                        IF \E k \in clients : x[k.id] = y
                        THEN LET k == CHOOSE c \in clients : x[c.id] = y IN
                             [NewContext(Null, FALSE) EXCEPT
                                !.id = k.id, !.topics = k.topics, !.queue = Queue(file, k),
                                !.owed = Range(Queue(file, k))]
                        ELSE Freed],
                    registry |-> [i \in ClientId |->
                        IF \E k \in clients : k.id = i THEN x[i] ELSE Null],
                    subs |-> [t \in Topic |-> {x[k.id] : k \in {c \in clients : t \in c.topics}}]])
        /\ retained' = [t \in Topic |->
             IF \E k \in clients : t \in k.topics
             THEN -Stored(file, "TOPIC_INFO", [ids |-> NoRetained]).ids[t]
             ELSE 0]
        /\ last_id' = Stored(file, "GLOBAL_INFO", [last_id |-> 0]).last_id
        /\ dirty' = (last_id' > 0)
        /\ same_second' = (Chunks(file, "DB_MSG") # {})
        /\ fault' = "none"

(* The process is started again.  A torn file makes open() return before   *)
(* the acceptor is opened: the process runs, but serves nobody.            *)
Restart(x) ==
    /\ ~Running
    /\ \A i, j \in ClientId : i # j => x[i] # x[j]
    /\ IF disk.torn
       THEN fault' = "restore_failed"
            /\ UNCHANGED <<conn, ctx, registry, subs, retained, last_id, dirty, same_second>>
       ELSE Restore(x)
    /\ UNCHANGED <<disk, durable, parent>>

PersistNext ==
    \/ Handle \/ NextSecond \/ Shutdown \/ Kill
    \/ \E cs \in SUBSET Conn : StoreTimer(cs)
    \/ \E torn \in BOOLEAN : \E file \in CutOff(torn) :
         StoreCutOff(file, torn) \/ \E cs \in SUBSET Conn : StoreFails(cs, file, torn)
    \/ \E x \in [ClientId -> Ctx] : Restart(x)

PersistSpec == PersistInit /\ [][PersistNext]_pvars

-----------------------------------------------------------------------------
(* next_msg_id() never gives out the id of a message that the broker still *)
(* has, whatever was lost at a restart: every buffer that is queued,       *)
(* waiting or retained has an id of at most m_last_msg_id.                 *)
FreshIds ==
    Running => \A m \in Own : last_id < m =>
        /\ \A x \in Ctx : m \notin Messages(ctx[x].queue)
        /\ \A c \in Conn : m \notin Messages(conn[c].outq)
        /\ \A t \in Topic : m # Message(retained[t])

(* A message that a completed store has saved for a persistent session is  *)
(* in its queue until it is acknowledged, through every loss of the        *)
(* process and every restart, unless a later store fails or is cut off.    *)
Durable ==
    Running => \A i \in ClientId : durable[i] # {} =>
        /\ registry[i] # Null
        /\ durable[i] \subseteq Messages(ctx[registry[i]].queue)

(* change.log:38 "add retain msg persist": a retained message that is in   *)
(* the file is retained again after the restart.                           *)
RetainedRestored ==
    [][\A x \in [ClientId -> Ctx] : Restart(x) /\ ~disk.torn =>
          \A k \in Chunks(disk.chunks, "TOPIC_INFO"), t \in Topic : -retained'[t] = k.ids[t]]_pvars
=============================================================================

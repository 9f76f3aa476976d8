---------------------------- MODULE ThreadProofs ----------------------------
(***************************************************************************)
(* Proofs about the two queues between the threads of the broker.          *)
(*                                                                         *)
(* The queue of notify(), for any set of producer threads and any number   *)
(* of messages: NoLostWakeup is inductive with the types, InOrder needs to *)
(* know how the ordinals in the queue compare with what each producer has  *)
(* received (Fresh), and Fresh where each producer is.                     *)
(*                                                                         *)
(* The lock-free queue in front of the record thread, for any size of the  *)
(* blocks and any number of messages.  The blocks are a circle.  Those     *)
(* from the front block to the tail block are in use, the others are free  *)
(* (Chain); a block in use has an element, unless it is the front block,   *)
(* and a free one has none, unless the writer is about to go on to it.  In *)
(* a block, the copies that each thread keeps of the index of the other    *)
(* are behind it in the ring, never ahead of it (Ring).  From this follow  *)
(* the two assertions of the code.                                         *)
(***************************************************************************)
EXTENDS RecordThread, Notify, TLAPS

-----------------------------------------------------------------------------
(* The queue of notify().                                                  *)

(* No message of a producer has an ordinal it has not reached; what it is  *)
(* about to push is new.                                                   *)
Fresh ==
    \A i \in 1 .. Len(All) :
        /\ All[i].no <= no[All[i].from]
        /\ pc[All[i].from] \in {"notify", "locked"} => All[i].no < no[All[i].from]

(* A producer that is inside notify() has received a message.              *)
Holding == \A p \in Producer : pc[p] \in {"notify", "locked", "pushed", "answer"} => no[p] >= 1

IInv == TypeOK /\ Holding /\ NoLostWakeup /\ Fresh /\ InOrder

USE DEF main_vars, deque_vars, producer_vars, notify_vars

(* The queue keeps its type when the head is taken or a message appended.  *)
LEMMA QueueFacts ==
    ASSUME NEW S, NEW s \in Seq(S), NEW d \in Seq(S), d # <<>>
    PROVE  /\ Head(d) \in S /\ Tail(d) \in Seq(S)
           /\ Append(s, Head(d)) \in Seq(S)
           /\ Append(s, Head(d)) \o Tail(d) = s \o d
  <1>1. Head(d) \in S /\ Tail(d) \in Seq(S) /\ Append(s, Head(d)) \in Seq(S)
    OBVIOUS
  <1>2. Append(s, Head(d)) \o Tail(d) = s \o d
    <2>1. /\ Len(Append(s, Head(d)) \o Tail(d)) = Len(s \o d)
          /\ \A i \in 1 .. Len(s \o d) : (Append(s, Head(d)) \o Tail(d))[i] = (s \o d)[i]
      OBVIOUS
    <2>2. Append(s, Head(d)) \o Tail(d) \in Seq(S) /\ s \o d \in Seq(S)
      BY <1>1
    <2> QED BY <2>1, <2>2
  <1> QED BY <1>1, <1>2, Zenon

(* What is known of the messages after one more is pushed.                 *)
LEMMA AppendFacts ==
    ASSUME NEW S, NEW s \in Seq(S), NEW d \in Seq(S), NEW m \in S
    PROVE  /\ Append(d, m) \in Seq(S)
           /\ Len(s \o Append(d, m)) = Len(s \o d) + 1
           /\ \A i \in 1 .. Len(s \o d) : (s \o Append(d, m))[i] = (s \o d)[i]
           /\ (s \o Append(d, m))[Len(s \o d) + 1] = m
  OBVIOUS

(* The fields of queued messages.                                          *)
LEMMA MessageFacts ==
    ASSUME NEW s \in Seq(Message)
    PROVE  \A i \in 1 .. Len(s) : s[i] \in Message /\ s[i].from \in Producer /\ s[i].no \in Nat
  <1>1. ASSUME NEW i \in 1 .. Len(s) PROVE s[i] \in Message
    OBVIOUS
  <1>2. ASSUME NEW m \in Message PROVE m.from \in Producer /\ m.no \in Nat
    BY BoundAssumption DEF Message
  <1> QED BY <1>1, <1>2, Zenon

(* What a producer pushes is a message.                                    *)
LEMMA Received ==
    ASSUME TypeOK, Holding, NEW p \in Producer, Push(p)
    PROVE  [from |-> p, no |-> no[p]] \in Message
  <1>1. pc[p] = "locked"
    BY Zenon DEF Push
  <1>2. no[p] \in 1 .. MaxMsg
    BY <1>1, BoundAssumption DEF TypeOK, Holding
  <1> QED BY <1>2, Zenon DEF Message

(* The first state is well typed.                                          *)
LEMMA TypeInit == NotifyInit => TypeOK
  <1> SUFFICES ASSUME NotifyInit PROVE TypeOK
    BY Zenon
  <1>1. no \in [Producer -> 0 .. MaxMsg] /\ answered \in [Producer -> 0 .. MaxMsg]
    BY BoundAssumption DEF NotifyInit
  <1>2. deque \in Seq(Message) /\ handled \in Seq(Message) /\ counter \in Nat
    BY DEF NotifyInit
  <1>3. writer \in BOOLEAN /\ stop \in BOOLEAN
    BY Zenon DEF NotifyInit
  <1>4. pc \in [Producer -> {"idle", "notify", "locked", "pushed", "answer", "ended"}]
    BY Zenon DEF NotifyInit
  <1> QED BY <1>1, <1>2, <1>3, <1>4, Zenon DEF NotifyInit, TypeOK

(* Every step keeps the types.                                             *)
LEMMA TypeStep == TypeOK /\ Holding /\ [NotifyNext]_notify_vars => TypeOK'
  <1> SUFFICES ASSUME TypeOK, Holding, [NotifyNext]_notify_vars PROVE TypeOK'
    BY Zenon
  <1> USE BoundAssumption DEF TypeOK
  <1>1. ASSUME NEW p \in Producer, Receive(p) PROVE TypeOK'
    BY <1>1 DEF Receive
  <1>2. ASSUME NEW p \in Producer, Lock(p) PROVE TypeOK'
    BY <1>2, Zenon DEF Lock
  <1>3. ASSUME NEW p \in Producer, Push(p) PROVE TypeOK'
    <2>1. [from |-> p, no |-> no[p]] \in Message
      BY <1>3, Received, Zenon
    <2>2. CASE writer
      <3>1. deque' \in Seq(Message)
        <4> DEFINE m == [from |-> p, no |-> no[p]]
        <4>1. deque' = Append(deque, m)
          BY <1>3, <2>2, Zenon DEF Push
        <4> HIDE DEF m
        <4> QED BY <2>1, <4>1, AppendFacts, Zenon DEF m
      <3> QED BY <1>3, <2>2, <3>1, Zenon DEF Push
    <2>3. CASE ~writer
      BY <1>3, <2>3, Zenon DEF Push
    <2> QED BY <2>2, <2>3, Zenon
  <1>4. ASSUME NEW p \in Producer, Wake(p) PROVE TypeOK'
    BY <1>4 DEF Wake
  <1>5. ASSUME NEW p \in Producer, Answer(p) PROVE TypeOK'
    BY <1>5, Zenon DEF Answer
  <1>6. ASSUME NEW p \in Producer, Exit(p) PROVE TypeOK'
    BY <1>6, Zenon DEF Exit
  <1>7. CASE Pop
    BY <1>7, QueueFacts, Zenon DEF Pop
  <1>8. CASE StartDrain \/ EndDrain
    BY <1>8 DEF StartDrain, EndDrain
  <1>9. CASE Main \/ Signal
    BY <1>9, Zenon DEF Main, Signal, OpenServer, OpenFails, StopThreads, Join
  <1>10. CASE UNCHANGED notify_vars
    BY <1>10, Zenon
  <1> QED BY <1>1, <1>2, <1>3, <1>4, <1>5, <1>6, <1>7, <1>8, <1>9, <1>10, Zenon DEF NotifyNext, Step, Reactor

(* The thread between push and wake-up holds the mutex: only notify()      *)
(* takes and releases it.                                                  *)
LEMMA HoldingStep == TypeOK /\ Holding /\ [NotifyNext]_notify_vars => Holding'
  <1> SUFFICES ASSUME TypeOK, Holding, [NotifyNext]_notify_vars PROVE Holding'
    BY Zenon
  <1> USE BoundAssumption DEF TypeOK, Holding
  <1>1. ASSUME NEW p \in Producer, Receive(p) \/ Step(p) PROVE Holding'
    BY <1>1 DEF Receive, Step, Lock, Push, Wake, Answer, Exit
  <1>2. CASE Reactor \/ Main \/ Signal \/ UNCHANGED notify_vars
    BY <1>2, Zenon DEF Reactor, StartDrain, Pop, EndDrain, Main, Signal, OpenServer, OpenFails, StopThreads, Join
  <1> QED BY <1>1, <1>2, Zenon DEF NotifyNext

(* The reactor resets the eventfd before it looks at the deque, and a      *)
(* producer writes it after the push.                                      *)
LEMMA WakeupStep == TypeOK /\ NoLostWakeup /\ [NotifyNext]_notify_vars => NoLostWakeup'
  <1> SUFFICES ASSUME TypeOK, NoLostWakeup, [NotifyNext]_notify_vars PROVE NoLostWakeup'
    BY Zenon
  <1> USE DEF TypeOK, NoLostWakeup
  <1>1. ASSUME NEW p \in Producer, Receive(p) \/ Lock(p) \/ Answer(p) \/ Exit(p) PROVE NoLostWakeup'
    BY <1>1, Zenon DEF Receive, Lock, Answer, Exit
  <1>2. ASSUME NEW p \in Producer, Push(p) PROVE NoLostWakeup'
    BY <1>2, Zenon DEF Push
  <1>3. ASSUME NEW p \in Producer, Wake(p) PROVE NoLostWakeup'
    BY <1>3 DEF Wake
  <1>4. CASE Reactor
    BY <1>4, Zenon DEF Reactor, StartDrain, Pop, EndDrain
  <1>5. CASE Main \/ Signal \/ UNCHANGED notify_vars
    BY <1>5, Zenon DEF Main, Signal, OpenServer, OpenFails, StopThreads, Join
  <1> QED BY <1>1, <1>2, <1>3, <1>4, <1>5, Zenon DEF NotifyNext, Step

(* A push appends a message later than all others of its thread; popping   *)
(* moves the head from the deque to the end of what was handled.           *)
LEMMA OrderStep == TypeOK /\ Holding /\ Fresh /\ InOrder /\ [NotifyNext]_notify_vars => Fresh' /\ InOrder'
  <1> SUFFICES ASSUME TypeOK, Holding, Fresh, InOrder, [NotifyNext]_notify_vars PROVE Fresh' /\ InOrder'
    BY Zenon
  <1> USE BoundAssumption DEF TypeOK
  <1>0. /\ All \in Seq(Message)
        /\ \A i \in 1 .. Len(All) : All[i] \in Message /\ All[i].from \in Producer /\ All[i].no \in Nat
    <2>1. All \in Seq(Message)
      BY DEF All
    <2> QED BY <2>1, MessageFacts, Zenon
  <1>1. ASSUME All' = All, NEW p \in Producer, NEW to,
               \/ no' = no /\ pc' = [pc EXCEPT ![p] = to] /\ (to \in {"notify", "locked"} => pc[p] \in {"notify", "locked"})
               \/ no' = [no EXCEPT ![p] = @ + 1] /\ pc' = [pc EXCEPT ![p] = "notify"]
        PROVE  Fresh' /\ InOrder'
    <2>1. InOrder'
      BY <1>1, Zenon DEF InOrder
    <2>2. ASSUME NEW i \in 1 .. Len(All)
          PROVE  /\ All[i].no <= no'[All[i].from]
                 /\ pc'[All[i].from] \in {"notify", "locked"} => All[i].no < no'[All[i].from]
      <3>1. All[i].from \in Producer /\ All[i].no \in Nat
        BY <1>0, Zenon
      <3>2. /\ All[i].no <= no[All[i].from]
            /\ pc[All[i].from] \in {"notify", "locked"} => All[i].no < no[All[i].from]
        BY Zenon DEF Fresh
      <3>3. CASE All[i].from = p
        BY <1>1, <3>1, <3>2, <3>3
      <3>4. CASE All[i].from # p
        BY <1>1, <3>1, <3>2, <3>4, Zenon
      <3> QED BY <3>3, <3>4, Zenon
    <2> QED BY <1>1, <2>1, <2>2, Zenon DEF Fresh
  <1>2. ASSUME NEW p \in Producer, Receive(p) \/ Lock(p) \/ Wake(p) \/ Answer(p) \/ Exit(p)
        PROVE  Fresh' /\ InOrder'
    <2>1. All' = All
      BY <1>2, Zenon DEF Receive, Lock, Wake, Answer, Exit, All
    <2>2. CASE Receive(p)
      BY <1>1, <2>1, <2>2, Zenon DEF Receive
    <2>3. CASE Lock(p)
      BY <1>1, <2>1, <2>3, Zenon DEF Lock
    <2>4. CASE Wake(p) \/ Answer(p) \/ Exit(p)
      <3>1. no' = no /\ \E to \in {"answer", "idle", "ended"} : pc' = [pc EXCEPT ![p] = to]
        BY <2>4, Zenon DEF Wake, Answer, Exit
      <3>2. PICK to \in {"answer", "idle", "ended"} : pc' = [pc EXCEPT ![p] = to]
        BY <3>1, Zenon
      <3>3. to \notin {"notify", "locked"}
        OBVIOUS
      <3> QED BY <1>1, <2>1, <3>1, <3>2, <3>3, Zenon
    <2> QED BY <1>2, <2>2, <2>3, <2>4, Zenon
  <1>3. ASSUME NEW p \in Producer, Push(p) PROVE Fresh' /\ InOrder'
    <2>1. CASE ~writer
      <3>1. All' = All
        BY <1>3, <2>1, Zenon DEF Push, All
      <3> QED BY <1>1, <1>3, <2>1, <3>1, Zenon DEF Push
    <2>2. CASE writer
      <3> DEFINE m == [from |-> p, no |-> no[p]]
      <3>1. m \in Message /\ m.from = p /\ m.no = no[p]
        BY <1>3, Received, Zenon
      <3>2. /\ Len(All') = Len(All) + 1
            /\ \A i \in 1 .. Len(All) : All'[i] = All[i]
            /\ All'[Len(All) + 1] = m
        <4>1. handled' = handled /\ deque' = Append(deque, m)
          BY <1>3, <2>2, Zenon DEF Push
        <4>2. handled \in Seq(Message) /\ deque \in Seq(Message)
          BY Zenon
        <4> HIDE DEF m, TypeOK
        <4> QED BY <3>1, <4>1, <4>2, AppendFacts DEF All
      <3>3. \A i \in 1 .. Len(All) : All[i].from = p => All[i].no < no[p]
        BY <1>0, <1>3, Zenon DEF Push, Fresh
      <3>4. no' = no /\ pc' = [pc EXCEPT ![p] = "pushed"]
        BY <1>3, <2>2, Zenon DEF Push
      <3> HIDE DEF m
      <3>5. Len(All) \in Nat
        BY <1>0
      <3>6. Fresh'
        <4>1. ASSUME NEW i \in 1 .. Len(All)
              PROVE  /\ All'[i].no <= no'[All'[i].from]
                     /\ pc'[All'[i].from] \in {"notify", "locked"} => All'[i].no < no'[All'[i].from]
          BY <1>0, <3>2, <3>4, Zenon DEF Fresh
        <4>2. /\ m.no <= no'[m.from]
              /\ pc'[m.from] \notin {"notify", "locked"}
          BY <3>1, <3>4
        <4>3. ASSUME NEW i \in 1 .. Len(All')
              PROVE  /\ All'[i].no <= no'[All'[i].from]
                     /\ pc'[All'[i].from] \in {"notify", "locked"} => All'[i].no < no'[All'[i].from]
          <5>1. i \in 1 .. Len(All) \/ i = Len(All) + 1
            BY <3>2, <3>5
          <5> QED BY <3>2, <4>1, <4>2, <5>1, Zenon
        <4> QED BY <4>3, Zenon DEF Fresh
      <3>7. InOrder'
        <4>1. ASSUME NEW i \in 1 .. Len(All), NEW j \in 1 .. Len(All), i < j, All'[i].from = All'[j].from
              PROVE  All'[i].no < All'[j].no
          BY <3>2, <4>1, Zenon DEF InOrder
        <4>2. ASSUME NEW i \in 1 .. Len(All), All'[i].from = m.from
              PROVE  All'[i].no < m.no
          BY <3>1, <3>2, <3>3, <4>2, Zenon
        <4>3. ASSUME NEW i \in 1 .. Len(All'), NEW j \in 1 .. Len(All'), i < j, All'[i].from = All'[j].from
              PROVE  All'[i].no < All'[j].no
          <5>1. i \in 1 .. Len(All) /\ (j \in 1 .. Len(All) \/ j = Len(All) + 1)
            BY <3>2, <3>5, <4>3
          <5> QED BY <3>2, <4>1, <4>2, <4>3, <5>1, Zenon
        <4> QED BY <4>3, Zenon DEF InOrder
      <3> QED BY <3>6, <3>7, Zenon
    <2> QED BY <2>1, <2>2, Zenon
  <1>4. CASE Pop
    <2>1. All' = All
      BY <1>4, QueueFacts, Zenon DEF Pop, All
    <2> QED BY <1>4, <2>1, Zenon DEF Pop, Fresh, InOrder
  <1>5. CASE StartDrain \/ EndDrain \/ Main \/ Signal \/ UNCHANGED notify_vars
    <2>1. All' = All /\ no' = no /\ pc' = pc
      BY <1>5, Zenon DEF StartDrain, EndDrain, Main, Signal, OpenServer, OpenFails, StopThreads, Join, All
    <2> QED BY <2>1, Zenon DEF Fresh, InOrder
  <1> QED BY <1>2, <1>3, <1>4, <1>5, Zenon DEF NotifyNext, Step, Reactor

(* The inductive invariant holds throughout.                               *)
THEOREM Invariance == NotifySpec => []IInv
  <1>1. NotifyInit => IInv
    <2> SUFFICES ASSUME NotifyInit PROVE IInv
      BY Zenon
    <2>1. All = <<>> /\ Len(All) = 0
      BY DEF NotifyInit, All
    <2> QED BY TypeInit, <2>1 DEF NotifyInit, IInv, Holding, NoLostWakeup, Fresh, InOrder
  <1>2. IInv /\ [NotifyNext]_notify_vars => IInv'
    BY TypeStep, HoldingStep, WakeupStep, OrderStep, Zenon DEF IInv
  <1> QED BY <1>1, <1>2, PTL DEF NotifySpec

(* The shared state of the threads is always well typed.                   *)
THEOREM TypeCorrect == NotifySpec => []TypeOK
  BY Invariance, PTL DEF IInv

(* A message in the deque never waits for the next one: notify() pushes    *)
(* before it writes the eventfd, and handle_input() reads it before it     *)
(* drains.                                                                 *)
THEOREM NoLostWakeupHolds == NotifySpec => []NoLostWakeup
  BY Invariance, PTL DEF IInv

(* The messages of each thread are published in order, none twice.         *)
THEOREM InOrderHolds == NotifySpec => []InOrder
  BY Invariance, PTL DEF IInv

-----------------------------------------------------------------------------
(* The lock-free queue.                                                    *)

(* Slot i is on the way from slot a to slot c of a ring, ends included.    *)
Between(a, i, c) == IF a <= c THEN a <= i /\ i <= c ELSE a <= i \/ i <= c

Value == 0 .. MaxPut \cup {Empty}

Slots == UNION {[0 .. s - 1 -> Value] : s \in Nat}

Block ==
    [size : Nat, front : Nat, localTail : Nat, tail : Nat, localFront : Nat, next : Nat,
     data : Slots]

Ring(b) ==
    /\ b.size >= 2
    /\ b.front < b.size /\ b.tail < b.size /\ b.localFront < b.size /\ b.localTail < b.size
    /\ Between(b.localFront, b.front, b.tail)
    /\ Between(b.front, b.localTail, b.tail)

IsEmpty(i) == block[i].front = block[i].tail

QueueType ==
    /\ block \in Seq(Block) /\ \A i \in DOMAIN block : Ring(block[i])
    /\ largest \in Nat /\ largest >= 2 /\ put \in 0 .. MaxPut
    /\ wpc \in {"idle", "store", "publish", "full", "next", "publishNext", "alloc", "link", "advance"}
    /\ rpc \in {"idle", "take", "empty", "recheck", "ahead", "move", "free", "true", "false"}

(* The blocks that the circle consists of: a new one is linked last.       *)
Linked == IF wpc = "link" THEN 1 .. Len(block) - 1 ELSE DOMAIN block

(* The blocks in use and the free ones.                                    *)
Chain(used, free) ==
    /\ used \cup free = Linked /\ used \cap free = {}
    /\ frontBlock \in used /\ tailBlock \in used
    /\ \A i \in used : i # tailBlock => block[i].next \in used /\ block[i].next # frontBlock
    /\ \A i \in free \cup {tailBlock} : block[i].next \in free \cup {frontBlock}
    /\ \A i, j \in Linked : block[i].next = block[j].next => i = j
    /\ \A i \in used : i # frontBlock => ~IsEmpty(i)
    /\ \A i \in free : IsEmpty(i) <=> ~(wpc = "advance" /\ i = block[tailBlock].next)
    /\ wpc \in {"next", "publishNext", "advance"} => block[tailBlock].next \in free

(* What the writer knows of the block it is about to put an element to.    *)
WriterOK ==
    /\ wpc \in {"store", "publish"} => After(tailBlock, block[tailBlock].tail) # block[tailBlock].localFront
    /\ wpc = "publishNext" =>
         LET n == block[block[tailBlock].next] IN n.localFront = n.front
    /\ wpc = "link" =>
         /\ Len(block) > 1 /\ ~IsEmpty(Len(block))
         /\ block[Len(block)].next = block[tailBlock].next

(* What the reader knows of the block it is about to take an element from. *)
ReaderOK ==
    /\ rpc \in {"take", "free"} => block[frontBlock].front # block[frontBlock].localTail
    /\ rpc \in {"recheck", "ahead", "move"} => frontBlock # tailBlock
    /\ rpc \in {"ahead", "move"} => IsEmpty(frontBlock)
    /\ rpc = "move" =>
         LET n == block[block[frontBlock].next] IN n.front # n.localTail

QState(used, free) == QueueType /\ WriterOK /\ ReaderOK /\ Chain(used, free)

QInv == \E used, free \in SUBSET DOMAIN block : QState(used, free)

-----------------------------------------------------------------------------
(* The ring of slots of a block.                                           *)
LEMMA AfterSlot ==
    ASSUME NEW s \in Nat, s >= 2, NEW i \in Nat, i < s
    PROVE  (i + 1) % s = IF i + 1 = s THEN 0 ELSE i + 1
  OBVIOUS

LEMMA AfterOther ==
    ASSUME NEW b \in Block, Ring(b)
    PROVE  (b.tail + 1) % b.size # b.tail
  <1> DEFINE t == (b.tail + 1) % b.size
  <1>1. b.size \in Nat /\ b.tail \in Nat /\ b.size >= 2 /\ b.tail < b.size
    BY Zenon DEF Block, Ring
  <1>2. t = IF b.tail + 1 = b.size THEN 0 ELSE b.tail + 1
    BY <1>1, AfterSlot, Zenon
  <1> HIDE DEF t
  <1>3. t # b.tail
    BY <1>1, <1>2
  <1> QED BY <1>3, Zenon DEF t

(* A writer whose copy of the front leaves a slot may fill one more.       *)
LEMMA RingPut ==
    ASSUME NEW b \in Block, Ring(b), (b.tail + 1) % b.size # b.localFront
    PROVE  /\ (b.tail + 1) % b.size # b.front
           /\ Ring([b EXCEPT !.tail = (b.tail + 1) % b.size])
           /\ [b EXCEPT !.tail = (b.tail + 1) % b.size] \in Block
  <1> DEFINE t == (b.tail + 1) % b.size
  <1>1. /\ b.size \in Nat /\ b.front \in Nat /\ b.tail \in Nat
        /\ b.localFront \in Nat /\ b.localTail \in Nat
    BY Zenon DEF Block
  <1>2. t = IF b.tail + 1 = b.size THEN 0 ELSE b.tail + 1
    BY <1>1, AfterSlot, Zenon DEF Ring
  <1>3. t \in Nat /\ t < b.size
    BY <1>1, <1>2 DEF Ring
  <1>4. t # b.front /\ Between(b.localFront, b.front, t) /\ Between(b.front, b.localTail, t)
    BY <1>1, <1>2 DEF Ring, Between
  <1> HIDE DEF t
  <1> DEFINE r == [b EXCEPT !.tail = t]
  <1>5. r \in Block
    BY <1>3, Zenon DEF Block
  <1>6. /\ r.tail = t /\ r.size = b.size /\ r.front = b.front /\ r.localFront = b.localFront
        /\ r.localTail = b.localTail
    BY Zenon DEF Block
  <1>7. Ring(r)
    <2> HIDE DEF r
    <2> QED BY <1>3, <1>4, <1>6, Zenon DEF Ring
  <1> QED BY <1>4, <1>5, <1>7, Zenon DEF t

(* A reader whose copy of the tail shows an element may free its slot.     *)
LEMMA RingTake ==
    ASSUME NEW b \in Block, Ring(b), b.front # b.localTail
    PROVE  /\ b.front # b.tail
           /\ Ring([b EXCEPT !.front = (b.front + 1) % b.size])
           /\ [b EXCEPT !.front = (b.front + 1) % b.size] \in Block
  <1> DEFINE f == (b.front + 1) % b.size
  <1>1. /\ b.size \in Nat /\ b.front \in Nat /\ b.tail \in Nat
        /\ b.localFront \in Nat /\ b.localTail \in Nat
    BY Zenon DEF Block
  <1>2. f = IF b.front + 1 = b.size THEN 0 ELSE b.front + 1
    BY <1>1, AfterSlot, Zenon DEF Ring
  <1>3. f \in Nat /\ f < b.size
    BY <1>1, <1>2 DEF Ring
  <1>4. b.front # b.tail /\ Between(b.localFront, f, b.tail) /\ Between(f, b.localTail, b.tail)
    BY <1>1, <1>2 DEF Ring, Between
  <1> HIDE DEF f
  <1> DEFINE r == [b EXCEPT !.front = f]
  <1>5. r \in Block
    BY <1>3, Zenon DEF Block
  <1>6. /\ r.front = f /\ r.size = b.size /\ r.tail = b.tail /\ r.localFront = b.localFront
        /\ r.localTail = b.localTail
    BY Zenon DEF Block
  <1>7. Ring(r)
    <2> HIDE DEF r
    <2> QED BY <1>3, <1>4, <1>6, Zenon DEF Ring
  <1> QED BY <1>4, <1>5, <1>7, Zenon DEF f

-----------------------------------------------------------------------------
(* What the threads do to a block: they change one field of it.            *)
LEMMA SetLocalFront ==
    ASSUME NEW b \in Block, Ring(b), NEW r, r = [b EXCEPT !.localFront = b.front]
    PROVE  /\ r \in Block /\ Ring(r) /\ r.localFront = b.front
           /\ r.front = b.front /\ r.tail = b.tail /\ r.localTail = b.localTail
           /\ r.size = b.size /\ r.next = b.next /\ r.data = b.data
  <1>1. /\ r \in Block /\ r.localFront = b.front
        /\ r.front = b.front /\ r.tail = b.tail /\ r.localTail = b.localTail
        /\ r.size = b.size /\ r.next = b.next /\ r.data = b.data
    BY Zenon DEF Block
  <1>2. b.front \in Nat /\ b.tail \in Nat
    BY Zenon DEF Block
  <1> QED BY <1>1, <1>2 DEF Ring, Between

LEMMA SetLocalTail ==
    ASSUME NEW b \in Block, Ring(b), NEW r, r = [b EXCEPT !.localTail = b.tail]
    PROVE  /\ r \in Block /\ Ring(r) /\ r.localTail = b.tail
           /\ r.front = b.front /\ r.tail = b.tail /\ r.localFront = b.localFront
           /\ r.size = b.size /\ r.next = b.next /\ r.data = b.data
  <1>1. /\ r \in Block /\ r.localTail = b.tail
        /\ r.front = b.front /\ r.tail = b.tail /\ r.localFront = b.localFront
        /\ r.size = b.size /\ r.next = b.next /\ r.data = b.data
    BY Zenon DEF Block
  <1>2. b.front \in Nat /\ b.tail \in Nat
    BY Zenon DEF Block
  <1> QED BY <1>1, <1>2 DEF Ring, Between

LEMMA SetData ==
    ASSUME NEW b \in Block, Ring(b), NEW d \in Slots, NEW r, r = [b EXCEPT !.data = d]
    PROVE  /\ r \in Block /\ Ring(r) /\ r.data = d
           /\ r.front = b.front /\ r.tail = b.tail
           /\ r.localTail = b.localTail /\ r.localFront = b.localFront
           /\ r.size = b.size /\ r.next = b.next
  <1>1. /\ r \in Block /\ r.data = d
        /\ r.front = b.front /\ r.tail = b.tail
        /\ r.localTail = b.localTail /\ r.localFront = b.localFront
        /\ r.size = b.size /\ r.next = b.next
    BY Zenon DEF Block
  <1> QED BY <1>1, Zenon DEF Ring

LEMMA SetSlot ==
    ASSUME NEW b \in Block, NEW i, NEW v \in Value
    PROVE  [b.data EXCEPT ![i] = v] \in Slots
  BY Zenon DEF Block, Slots

LEMMA SetBlock ==
    ASSUME block \in Seq(Block), NEW b \in DOMAIN block, NEW r \in Block,
           block' = [block EXCEPT ![b] = r]
    PROVE  /\ block' \in Seq(Block) /\ DOMAIN block' = DOMAIN block /\ Len(block') = Len(block)
           /\ block'[b] = r /\ \A i \in DOMAIN block : i # b => block'[i] = block[i]
  OBVIOUS

-----------------------------------------------------------------------------
LEMMA QFacts ==
    ASSUME NEW used, NEW free, QState(used, free)
    PROVE  /\ block \in Seq(Block) /\ DOMAIN block = 1 .. Len(block) /\ Len(block) \in Nat
           /\ \A i \in DOMAIN block : block[i] \in Block /\ Ring(block[i])
           /\ tailBlock \in Linked /\ frontBlock \in Linked /\ Linked \subseteq DOMAIN block
           /\ \A i \in Linked : block[i].next \in Linked
  <1>1. block \in Seq(Block) /\ \A i \in DOMAIN block : Ring(block[i])
    BY Zenon DEF QState, QueueType
  <1>2. DOMAIN block = 1 .. Len(block) /\ Len(block) \in Nat /\ \A i \in DOMAIN block : block[i] \in Block
    BY <1>1
  <1>3. Linked \subseteq DOMAIN block
    BY <1>2 DEF Linked
  <1>4. tailBlock \in Linked /\ frontBlock \in Linked /\ \A i \in Linked : block[i].next \in Linked
    BY Zenon DEF QState, Chain
  <1> QED BY <1>1, <1>2, <1>3, <1>4, Zenon

(* The chain after a step that keeps the circle and its two ends.          *)
LEMMA SameCircle ==
    ASSUME NEW used, NEW free, Chain(used, free),
           Linked' = Linked, UNCHANGED <<frontBlock, tailBlock>>,
           \A i \in Linked : block'[i].next = block[i].next,
           \A i \in used : i # frontBlock => block'[i].front # block'[i].tail,
           \A i \in free :
             block'[i].front = block'[i].tail <=> ~(wpc' = "advance" /\ i = block[tailBlock].next),
           wpc' \in {"next", "publishNext", "advance"} => block[tailBlock].next \in free
    PROVE  Chain(used, free)'
  <1>1. tailBlock \in Linked /\ used \subseteq Linked /\ free \subseteq Linked
    BY Zenon DEF Chain
  <1> QED BY <1>1 DEF Chain, IsEmpty

WriterPc == {"idle", "store", "publish", "full", "next", "publishNext", "alloc", "link", "advance"}
ReaderPc == {"idle", "take", "empty", "recheck", "ahead", "move", "free", "true", "false"}

(* A step that touches one block of the circle.                            *)
LEMMA OneBlock ==
    ASSUME NEW used, NEW free, QState(used, free),
           NEW b \in Linked, NEW r \in Block, Ring(r), r.next = block[b].next,
           block' = [block EXCEPT ![b] = r],
           Linked' = Linked, UNCHANGED <<frontBlock, tailBlock, largest>>,
           put' \in 0 .. MaxPut, wpc' \in WriterPc, rpc' \in ReaderPc,
           b \in used /\ b # frontBlock => r.front # r.tail,
           b \in free => (r.front = r.tail <=> ~(wpc' = "advance" /\ b = block[tailBlock].next)),
           \A i \in free : i # b =>
             (wpc' = "advance" /\ i = block[tailBlock].next <=> wpc = "advance" /\ i = block[tailBlock].next),
           wpc' \in {"next", "publishNext", "advance"} => block[tailBlock].next \in free
    PROVE  /\ QueueType' /\ Chain(used, free)'
           /\ DOMAIN block' = DOMAIN block /\ Len(block') = Len(block)
           /\ block'[b] = r /\ \A i \in DOMAIN block : i # b => block'[i] = block[i]
  <1>1. /\ block \in Seq(Block) /\ Linked \subseteq DOMAIN block
        /\ \A i \in DOMAIN block : Ring(block[i])
    BY QFacts, Zenon
  <1>2. /\ block' \in Seq(Block) /\ DOMAIN block' = DOMAIN block /\ Len(block') = Len(block)
        /\ block'[b] = r /\ \A i \in DOMAIN block : i # b => block'[i] = block[i]
    BY <1>1, SetBlock, Zenon
  <1>3. QueueType'
    BY <1>1, <1>2, Zenon DEF QState, QueueType, WriterPc, ReaderPc
  <1>4. /\ Chain(used, free) /\ used \subseteq Linked /\ free \subseteq Linked
        /\ \A i \in used : i # frontBlock => block[i].front # block[i].tail
        /\ \A i \in free :
             block[i].front = block[i].tail <=> ~(wpc = "advance" /\ i = block[tailBlock].next)
    BY Zenon DEF QState, Chain, IsEmpty
  <1>5. /\ \A i \in used : i # frontBlock => block'[i].front # block'[i].tail
        /\ \A i \in free :
             block'[i].front = block'[i].tail <=> ~(wpc' = "advance" /\ i = block[tailBlock].next)
        /\ \A i \in Linked : block'[i].next = block[i].next
    BY <1>1, <1>2, <1>4, Zenon
  <1>6. Chain(used, free)'
    BY <1>4, <1>5, SameCircle, Zenon
  <1> QED BY <1>2, <1>3, <1>6, Zenon

(* A step that touches one block and leaves it empty or filled as it was,  *)
(* unless it is the front block.                                           *)
LEMMA QuietBlock ==
    ASSUME NEW used, NEW free, QState(used, free),
           NEW b \in Linked, NEW r \in Block, Ring(r), r.next = block[b].next,
           block' = [block EXCEPT ![b] = r],
           Linked' = Linked, UNCHANGED <<frontBlock, tailBlock, largest>>,
           put' \in 0 .. MaxPut, wpc' \in WriterPc, rpc' \in ReaderPc,
           b = frontBlock \/ (r.front = r.tail <=> block[b].front = block[b].tail),
           wpc' = "advance" <=> wpc = "advance",
           wpc' \in {"next", "publishNext"} => block[tailBlock].next \in free
    PROVE  /\ QueueType' /\ Chain(used, free)'
           /\ DOMAIN block' = DOMAIN block /\ Len(block') = Len(block)
           /\ block'[b] = r /\ \A i \in DOMAIN block : i # b => block'[i] = block[i]
  <1>1. /\ frontBlock \in used /\ used \cap free = {}
        /\ b \in used /\ b # frontBlock => block[b].front # block[b].tail
        /\ b \in free =>
             (block[b].front = block[b].tail <=> ~(wpc = "advance" /\ b = block[tailBlock].next))
        /\ wpc = "advance" => block[tailBlock].next \in free
    BY Zenon DEF QState, Chain, IsEmpty
  <1>2. b \in used /\ b # frontBlock => r.front # r.tail
    BY <1>1, Zenon
  <1>3. b \in free => (r.front = r.tail <=> ~(wpc' = "advance" /\ b = block[tailBlock].next))
    BY <1>1, Zenon
  <1>4. \A i \in free : i # b =>
          (wpc' = "advance" /\ i = block[tailBlock].next <=> wpc = "advance" /\ i = block[tailBlock].next)
    BY Zenon
  <1>5. wpc' \in {"next", "publishNext", "advance"} => block[tailBlock].next \in free
    BY <1>1, Zenon
  <1> QED BY <1>2, <1>3, <1>4, <1>5, OneBlock, Zenon

(* A step that touches no block.                                           *)
LEMMA NoBlock ==
    ASSUME NEW used, NEW free, QState(used, free),
           UNCHANGED <<block, frontBlock, tailBlock, largest>>, Linked' = Linked,
           put' \in 0 .. MaxPut, wpc' \in WriterPc, rpc' \in ReaderPc,
           wpc' # "advance" \/ wpc = "advance", wpc' = "advance" \/ wpc # "advance",
           wpc' \in {"next", "publishNext", "advance"} => block[tailBlock].next \in free
    PROVE  QueueType' /\ Chain(used, free)'
  <1>1. QueueType'
    BY Zenon DEF QState, QueueType, WriterPc, ReaderPc
  <1>2. /\ Chain(used, free)
        /\ \A i \in used : i # frontBlock => block[i].front # block[i].tail
        /\ \A i \in free :
             block[i].front = block[i].tail <=> ~(wpc = "advance" /\ i = block[tailBlock].next)
    BY Zenon DEF QState, Chain, IsEmpty
  <1>3. Chain(used, free)'
    BY <1>2, SameCircle, Zenon
  <1> QED BY <1>1, <1>3, Zenon

-----------------------------------------------------------------------------
(* The steps of the writer.                                                *)
LEMMA EnqueueKeeps ==
    ASSUME NEW used, NEW free, QState(used, free), Enqueue
    PROVE  QState(used, free)'
  <1> DEFINE b == block[tailBlock]
  <1>0. /\ tailBlock \in Linked /\ frontBlock \in Linked /\ Linked \subseteq DOMAIN block
        /\ b \in Block /\ Ring(b) /\ \A i \in Linked : block[i].next \in Linked
    BY QFacts, Zenon
  <1>1. wpc = "idle" /\ wpc' \in {"store", "full"} /\ Linked' = Linked
    BY Zenon DEF Enqueue, Writer, Linked
  <1>2. put' \in 0 .. MaxPut /\ UNCHANGED <<tailBlock, largest, frontBlock, rpc>>
    BY PutAssumption DEF Enqueue, Writer, reader_vars, QState, QueueType
  <1>3. wpc' \in WriterPc /\ rpc' \in ReaderPc
    BY <1>1, <1>2, Zenon DEF WriterPc, ReaderPc, QState, QueueType
  <1>4. CASE After(tailBlock, b.tail) # b.localFront
    <2>1. UNCHANGED block
      BY <1>4, Zenon DEF Enqueue
    <2>2. QueueType' /\ Chain(used, free)'
      BY <1>1, <1>2, <1>3, <2>1, NoBlock, Zenon
    <2>3. WriterOK'
      BY <1>1, <1>2, <1>4, <2>1, Zenon DEF WriterOK, After
    <2>4. ReaderOK'
      BY <1>2, <2>1, Zenon DEF QState, ReaderOK, IsEmpty
    <2> QED BY <2>2, <2>3, <2>4, Zenon DEF QState
  <1>5. CASE After(tailBlock, b.tail) = b.localFront
    <2> DEFINE r == [b EXCEPT !.localFront = b.front]
    <2>1. /\ block' = [block EXCEPT ![tailBlock] = r]
          /\ wpc' = IF After(tailBlock, b.tail) # b.front THEN "store" ELSE "full"
      BY <1>5, Zenon DEF Enqueue
    <2>2. /\ r \in Block /\ Ring(r) /\ r.localFront = b.front
          /\ r.front = b.front /\ r.tail = b.tail /\ r.localTail = b.localTail
          /\ r.size = b.size /\ r.next = b.next
      BY <1>0, SetLocalFront, Zenon
    <2> HIDE DEF r
    <2>4. /\ QueueType' /\ Chain(used, free)' /\ DOMAIN block' = DOMAIN block
          /\ block'[tailBlock] = r /\ \A i \in DOMAIN block : i # tailBlock => block'[i] = block[i]
      BY <1>0, <1>1, <1>2, <1>3, <2>1, <2>2, QuietBlock, Zenon
    <2>5. WriterOK'
      BY <1>1, <1>2, <2>1, <2>2, <2>4, Zenon DEF WriterOK, After
    <2>6. ReaderOK'
      BY <1>0, <1>2, <2>2, <2>4 DEF QState, ReaderOK, IsEmpty
    <2> QED BY <2>4, <2>5, <2>6, Zenon DEF QState
  <1> QED BY <1>4, <1>5, Zenon

LEMMA StoreKeeps ==
    ASSUME NEW used, NEW free, QState(used, free), Store
    PROVE  QState(used, free)'
  <1> DEFINE b == block[tailBlock]
             r == [b EXCEPT !.data[b.tail] = put]
  <1>0. /\ tailBlock \in Linked /\ frontBlock \in Linked /\ Linked \subseteq DOMAIN block
        /\ b \in Block /\ Ring(b) /\ \A i \in Linked : block[i].next \in Linked
    BY QFacts, Zenon
  <1>1. wpc = "store" /\ wpc' = "publish" /\ Linked' = Linked
    BY Zenon DEF Store, Writer, Linked
  <1>2. put \in Value /\ put' \in 0 .. MaxPut /\ UNCHANGED <<tailBlock, largest, frontBlock, rpc>>
    BY Zenon DEF Store, Writer, reader_vars, QState, QueueType, Value
  <1>3. wpc' \in WriterPc /\ rpc' \in ReaderPc
    BY <1>1, <1>2, Zenon DEF WriterPc, ReaderPc, QState, QueueType
  <1>4. block' = [block EXCEPT ![tailBlock] = r]
    BY Zenon DEF Store
  <1> DEFINE d == [b.data EXCEPT ![b.tail] = put]
  <1>a. r = [b EXCEPT !.data = d] /\ d \in Slots
    BY <1>0, <1>2, SetSlot, Zenon
  <1> HIDE DEF b, d, r
  <1>5. /\ r \in Block /\ Ring(r)
        /\ r.front = b.front /\ r.tail = b.tail /\ r.localTail = b.localTail
        /\ r.localFront = b.localFront /\ r.size = b.size /\ r.next = b.next
    BY <1>0, <1>2, <1>a, SetData
  <1> USE DEF b
  <1>6. /\ QueueType' /\ Chain(used, free)' /\ DOMAIN block' = DOMAIN block
        /\ block'[tailBlock] = r /\ \A i \in DOMAIN block : i # tailBlock => block'[i] = block[i]
    BY <1>0, <1>1, <1>2, <1>3, <1>4, <1>5, QuietBlock, Zenon
  <1>7. WriterOK'
    BY <1>1, <1>2, <1>5, <1>6, Zenon DEF QState, WriterOK, After
  <1>8. ReaderOK'
    BY <1>0, <1>2, <1>5, <1>6 DEF QState, ReaderOK, IsEmpty
  <1> QED BY <1>6, <1>7, <1>8, Zenon DEF QState

LEMMA SetTail ==
    ASSUME NEW b \in Block, Ring(b), (b.tail + 1) % b.size # b.localFront,
           NEW r, r = [b EXCEPT !.tail = (b.tail + 1) % b.size]
    PROVE  /\ r \in Block /\ Ring(r) /\ r.front # r.tail
           /\ r.front = b.front /\ r.localTail = b.localTail /\ r.localFront = b.localFront
           /\ r.size = b.size /\ r.next = b.next /\ r.data = b.data
  <1> DEFINE t == (b.tail + 1) % b.size
  <1>1. t # b.front /\ r \in Block /\ Ring(r)
    BY RingPut, Zenon
  <1> HIDE DEF t
  <1>2. r = [b EXCEPT !.tail = t]
    BY Zenon DEF t
  <1>3. /\ r.tail = t /\ r.front = b.front /\ r.localTail = b.localTail
        /\ r.localFront = b.localFront /\ r.size = b.size /\ r.next = b.next /\ r.data = b.data
    BY <1>2, Zenon DEF Block
  <1> QED BY <1>1, <1>3, Zenon

LEMMA PublishKeeps ==
    ASSUME NEW used, NEW free, QState(used, free), Publish
    PROVE  QState(used, free)'
  <1> DEFINE b == block[tailBlock]
             r == [b EXCEPT !.tail = (b.tail + 1) % b.size]
  <1>0. /\ tailBlock \in Linked /\ frontBlock \in Linked /\ Linked \subseteq DOMAIN block
        /\ b \in Block /\ Ring(b) /\ \A i \in Linked : block[i].next \in Linked
    BY QFacts, Zenon
  <1>1. wpc = "publish" /\ wpc' = "idle" /\ Linked' = Linked
    BY Zenon DEF Publish, Writer, Linked
  <1>2. put' \in 0 .. MaxPut /\ UNCHANGED <<tailBlock, largest, frontBlock, rpc>>
    BY Zenon DEF Publish, Writer, reader_vars, QState, QueueType
  <1>3. wpc' \in WriterPc /\ rpc' \in ReaderPc
    BY <1>1, <1>2, Zenon DEF WriterPc, ReaderPc, QState, QueueType
  <1>4. block' = [block EXCEPT ![tailBlock] = r]
    BY Zenon DEF Publish, After
  <1>5. (b.tail + 1) % b.size # b.localFront
    BY <1>1, Zenon DEF QState, WriterOK, After
  <1>6. /\ r \in Block /\ Ring(r) /\ r.front # r.tail
        /\ r.front = b.front /\ r.localTail = b.localTail
        /\ r.localFront = b.localFront /\ r.size = b.size /\ r.next = b.next
    BY <1>0, <1>5, SetTail, Zenon
  <1>7. tailBlock = frontBlock \/ b.front # b.tail
    BY Zenon DEF QState, Chain, IsEmpty
  <1> HIDE DEF r
  <1>8. /\ QueueType' /\ Chain(used, free)' /\ DOMAIN block' = DOMAIN block
        /\ block'[tailBlock] = r /\ \A i \in DOMAIN block : i # tailBlock => block'[i] = block[i]
    BY <1>0, <1>1, <1>2, <1>3, <1>4, <1>6, <1>7, QuietBlock, Zenon
  <1>9. WriterOK'
    BY <1>1, Zenon DEF WriterOK
  <1>10. ReaderOK'
    BY <1>0, <1>2, <1>6, <1>8 DEF QState, ReaderOK, IsEmpty
  <1> QED BY <1>8, <1>9, <1>10, Zenon DEF QState

LEMMA FullKeeps ==
    ASSUME NEW used, NEW free, QState(used, free), Full \/ AllocFails
    PROVE  QState(used, free)'
  <1>1. /\ wpc \in {"full", "alloc"} /\ wpc' \in {"next", "alloc", "idle"}
        /\ wpc' = "next" => block[tailBlock].next # frontBlock
    BY Zenon DEF Full, AllocFails, Writer
  <1>2. UNCHANGED <<block, tailBlock, largest, put, frontBlock, rpc>>
    BY Zenon DEF Full, AllocFails, Writer, reader_vars
  <1>3. Linked' = Linked /\ wpc' \in WriterPc /\ rpc' \in ReaderPc /\ put' \in 0 .. MaxPut
    BY <1>1, <1>2, Zenon DEF Linked, WriterPc, ReaderPc, QState, QueueType
  <1>4. wpc' = "next" => block[tailBlock].next \in free
    BY <1>1, Zenon DEF QState, Chain
  <1>5. QueueType' /\ Chain(used, free)'
    BY <1>1, <1>2, <1>3, <1>4, NoBlock, Zenon
  <1>6. WriterOK' /\ ReaderOK'
    BY <1>1, <1>2, Zenon DEF QState, WriterOK, ReaderOK, IsEmpty
  <1> QED BY <1>5, <1>6, Zenon DEF QState

LEMMA StoreNextKeeps ==
    ASSUME NEW used, NEW free, QState(used, free), StoreNext
    PROVE  QState(used, free)'
  <1> DEFINE n == block[tailBlock].next
             b == block[n]
             q == [b EXCEPT !.localFront = b.front]
             r == [q EXCEPT !.data[b.tail] = put]
  <1>0. /\ tailBlock \in Linked /\ frontBlock \in Linked /\ Linked \subseteq DOMAIN block
        /\ n \in Linked /\ b \in Block /\ Ring(b) /\ \A i \in Linked : block[i].next \in Linked
    BY QFacts, Zenon
  <1>1. wpc = "next" /\ wpc' = "publishNext" /\ Linked' = Linked
    BY Zenon DEF StoreNext, Writer, Linked
  <1>2. put \in Value /\ put' \in 0 .. MaxPut /\ UNCHANGED <<tailBlock, largest, frontBlock, rpc>>
    BY Zenon DEF StoreNext, Writer, reader_vars, QState, QueueType, Value
  <1>3. wpc' \in WriterPc /\ rpc' \in ReaderPc
    BY <1>1, <1>2, Zenon DEF WriterPc, ReaderPc, QState, QueueType
  <1>4. block' = [block EXCEPT ![n] = r]
    BY <1>0, Zenon DEF StoreNext
  <1>5. /\ q \in Block /\ Ring(q) /\ q.localFront = b.front
        /\ q.front = b.front /\ q.tail = b.tail /\ q.localTail = b.localTail
        /\ q.size = b.size /\ q.next = b.next
    BY <1>0, SetLocalFront, Zenon
  <1> DEFINE d == [q.data EXCEPT ![b.tail] = put]
  <1>a. r = [q EXCEPT !.data = d] /\ d \in Slots
    BY <1>2, <1>5, SetSlot, Zenon
  <1> HIDE DEF b, q, d, r
  <1>6. /\ r \in Block /\ Ring(r) /\ r.localFront = b.front
        /\ r.front = b.front /\ r.tail = b.tail /\ r.localTail = b.localTail
        /\ r.size = b.size /\ r.next = b.next
    BY <1>2, <1>5, <1>a, SetData
  <1> USE DEF b
  <1>7. n \in free /\ tailBlock \in used /\ frontBlock \in used /\ used \cap free = {}
    BY <1>1, Zenon DEF QState, Chain
  <1>8. /\ QueueType' /\ Chain(used, free)' /\ DOMAIN block' = DOMAIN block
        /\ block'[n] = r /\ \A i \in DOMAIN block : i # n => block'[i] = block[i]
    BY <1>0, <1>1, <1>2, <1>3, <1>4, <1>6, <1>7, QuietBlock, Zenon
  <1>9. WriterOK'
    BY <1>0, <1>1, <1>2, <1>6, <1>7, <1>8, Zenon DEF WriterOK
  <1>10. ReaderOK'
    BY <1>0, <1>2, <1>6, <1>7, <1>8 DEF QState, ReaderOK, IsEmpty
  <1> QED BY <1>8, <1>9, <1>10, Zenon DEF QState

LEMMA PublishNextKeeps ==
    ASSUME NEW used, NEW free, QState(used, free), PublishNext
    PROVE  QState(used, free)'
  <1> DEFINE n == block[tailBlock].next
             b == block[n]
             r == [b EXCEPT !.tail = (b.tail + 1) % b.size]
  <1>0. /\ tailBlock \in Linked /\ frontBlock \in Linked /\ Linked \subseteq DOMAIN block
        /\ n \in Linked /\ b \in Block /\ Ring(b) /\ \A i \in Linked : block[i].next \in Linked
    BY QFacts, Zenon
  <1>1. wpc = "publishNext" /\ wpc' = "advance" /\ Linked' = Linked
    BY Zenon DEF PublishNext, Writer, Linked
  <1>2. put' \in 0 .. MaxPut /\ UNCHANGED <<tailBlock, largest, frontBlock, rpc>>
    BY Zenon DEF PublishNext, Writer, reader_vars, QState, QueueType
  <1>3. wpc' \in WriterPc /\ rpc' \in ReaderPc
    BY <1>1, <1>2, Zenon DEF WriterPc, ReaderPc, QState, QueueType
  <1>4. block' = [block EXCEPT ![n] = r]
    BY Zenon DEF PublishNext, After
  <1>5. n \in free /\ tailBlock \in used /\ frontBlock \in used /\ used \cap free = {}
    BY <1>1, Zenon DEF QState, Chain
  <1>6. b.localFront = b.front /\ b.front = b.tail
    BY <1>1, <1>5, Zenon DEF QState, WriterOK, Chain, IsEmpty
  <1>7. (b.tail + 1) % b.size # b.localFront
    BY <1>0, <1>6, AfterOther, Zenon
  <1>8. /\ r \in Block /\ Ring(r) /\ r.front # r.tail
        /\ r.front = b.front /\ r.localTail = b.localTail
        /\ r.localFront = b.localFront /\ r.size = b.size /\ r.next = b.next
    BY <1>0, <1>7, SetTail, Zenon
  <1> HIDE DEF b, r
  <1>9. /\ \A i \in free : i # n =>
             (wpc' = "advance" /\ i = block[tailBlock].next <=> wpc = "advance" /\ i = block[tailBlock].next)
        /\ n \notin used /\ r.next = block[n].next
    BY <1>1, <1>5, <1>8, Zenon DEF b
  <1>10. /\ QueueType' /\ Chain(used, free)' /\ DOMAIN block' = DOMAIN block
         /\ block'[n] = r /\ \A i \in DOMAIN block : i # n => block'[i] = block[i]
    BY <1>0, <1>1, <1>2, <1>3, <1>4, <1>5, <1>8, <1>9, OneBlock, Zenon
  <1>11. WriterOK'
    BY <1>1, Zenon DEF WriterOK
  <1>12. ReaderOK'
    BY <1>0, <1>2, <1>5, <1>8, <1>10 DEF QState, ReaderOK, IsEmpty, b
  <1> QED BY <1>10, <1>11, <1>12, Zenon DEF QState

LEMMA NewBlock ==
    ASSUME NEW s \in Nat, s >= 2, NEW d \in Slots, NEW n \in Nat, NEW r,
           r = [size |-> s, front |-> 0, localTail |-> 1, tail |-> 1, localFront |-> 0,
                next |-> n, data |-> d]
    PROVE  r \in Block /\ Ring(r) /\ r.front # r.tail /\ r.next = n
  BY DEF Block, Ring, Between

LEMMA AllocKeeps ==
    ASSUME NEW used, NEW free, QState(used, free), Alloc
    PROVE  QState(used, free)'
  <1> DEFINE size == IF largest >= MAX_BLOCK_SIZE THEN largest ELSE 2 * largest
             next == block[tailBlock].next
             r == [make_block(size) EXCEPT !.data[0] = put, !.tail = 1, !.localTail = 1, !.next = next]
  <1>0. /\ tailBlock \in Linked /\ frontBlock \in Linked /\ Linked \subseteq DOMAIN block
        /\ block \in Seq(Block) /\ DOMAIN block = 1 .. Len(block) /\ Len(block) \in Nat
        /\ \A i \in DOMAIN block : Ring(block[i])
        /\ \A i \in Linked : block[i].next \in Linked
    BY QFacts, Zenon
  <1>1. wpc = "alloc" /\ wpc' = "link" /\ Linked = DOMAIN block
    BY Zenon DEF Alloc, Writer, Linked
  <1>2. size \in Nat /\ size >= 2 /\ next \in Nat /\ put \in Value
    BY <1>0, InitialAssumption DEF QState, QueueType, Value
  <1>3. block' = Append(block, r) /\ largest' = size
    BY Zenon DEF Alloc
  <1>4. r \in Block /\ Ring(r) /\ r.front # r.tail /\ r.next = next
    <2> DEFINE e == [i \in 0 .. size - 1 |-> Empty]
               d == [e EXCEPT ![0] = put]
               m == [size |-> size, front |-> 0, localTail |-> 0, tail |-> 0, localFront |-> 0,
                     next |-> 1, data |-> e]
    <2>1. d \in Slots
      BY <1>2 DEF Slots, Value
    <2> HIDE DEF size, next
    <2>2. r = [m EXCEPT !.data = d, !.tail = 1, !.localTail = 1, !.next = next]
      BY Zenon DEF make_block
    <2> HIDE DEF e, d, r
    <2>3. r = [size |-> size, front |-> 0, localTail |-> 1, tail |-> 1, localFront |-> 0,
               next |-> next, data |-> d]
      BY <2>2, Zenon
    <2> QED BY <1>2, <2>1, <2>3, NewBlock
  <1> HIDE DEF r, size
  <1>5. /\ block' \in Seq(Block) /\ Len(block') = Len(block) + 1 /\ DOMAIN block' = 1 .. Len(block')
        /\ block'[Len(block')] = r /\ \A i \in DOMAIN block : block'[i] = block[i]
    BY <1>0, <1>3, <1>4
  <1>6. UNCHANGED <<tailBlock, put, frontBlock, rpc>>
    BY Zenon DEF Alloc, Writer, reader_vars
  <1>7. Linked' = Linked
    BY <1>0, <1>1, <1>5 DEF Linked
  <1>8. QueueType'
    <2>1. \A i \in DOMAIN block' : Ring(block'[i])
      BY <1>0, <1>4, <1>5
    <2> QED BY <1>1, <1>2, <1>3, <1>5, <1>6, <2>1, Zenon DEF QState, QueueType
  <1>9. Chain(used, free)'
    <2>1. /\ Chain(used, free) /\ used \subseteq Linked /\ free \subseteq Linked
          /\ \A i \in used : i # frontBlock => block[i].front # block[i].tail
          /\ \A i \in free : block[i].front = block[i].tail
      BY <1>1, Zenon DEF QState, Chain, IsEmpty
    <2>2. /\ \A i \in Linked : block'[i].next = block[i].next
          /\ \A i \in used : i # frontBlock => block'[i].front # block'[i].tail
          /\ \A i \in free : block'[i].front = block'[i].tail
      BY <1>0, <1>5, <2>1, Zenon
    <2> QED BY <1>1, <1>6, <1>7, <2>1, <2>2, SameCircle, Zenon
  <1>10. WriterOK'
    BY <1>0, <1>1, <1>4, <1>5, <1>6 DEF WriterOK, IsEmpty
  <1>11. ReaderOK'
    BY <1>0, <1>5, <1>6, Zenon DEF QState, ReaderOK, IsEmpty
  <1> QED BY <1>8, <1>9, <1>10, <1>11, Zenon DEF QState

LEMMA LinkKeeps ==
    ASSUME NEW used, NEW free, QState(used, free), Link, NEW l, l = Len(block)
    PROVE  QState(used, free \cup {l})'
  <1> DEFINE next == block[tailBlock].next
             r == [block[tailBlock] EXCEPT !.next = l]
  <1>0. /\ tailBlock \in Linked /\ frontBlock \in Linked /\ Linked \subseteq DOMAIN block
        /\ block \in Seq(Block) /\ DOMAIN block = 1 .. Len(block) /\ Len(block) \in Nat
        /\ \A i \in DOMAIN block : block[i] \in Block /\ Ring(block[i])
        /\ \A i \in Linked : block[i].next \in Linked
    BY QFacts, Zenon
  <1>1. wpc = "link" /\ wpc' = "advance"
    BY Zenon DEF Link, Writer
  <1>2. UNCHANGED <<tailBlock, largest, put, frontBlock, rpc>>
    BY Zenon DEF Link, Writer, reader_vars
  <1>3. /\ Len(block) > 1 /\ block[l].front # block[l].tail /\ block[l].next = next
    BY <1>1, Zenon DEF QState, WriterOK, IsEmpty
  <1>4. Linked = 1 .. l - 1 /\ l \notin Linked /\ l \in DOMAIN block
    BY <1>0, <1>1, <1>3 DEF Linked
  <1>5. block' = [block EXCEPT ![tailBlock] = r]
    BY Zenon DEF Link
  <1>6. /\ r \in Block /\ Ring(r) /\ r.next = l
        /\ r.front = block[tailBlock].front /\ r.tail = block[tailBlock].tail
        /\ r.localTail = block[tailBlock].localTail
    <2>1. block[tailBlock] \in Block /\ Ring(block[tailBlock]) /\ l \in Nat
      BY <1>0, Zenon
    <2>2. /\ r \in Block /\ r.next = l /\ r.size = block[tailBlock].size
          /\ r.front = block[tailBlock].front /\ r.tail = block[tailBlock].tail
          /\ r.localTail = block[tailBlock].localTail /\ r.localFront = block[tailBlock].localFront
      BY <2>1, Zenon DEF Block
    <2> QED BY <2>1, <2>2, Zenon DEF Ring
  <1> HIDE DEF r
  <1>7. /\ block' \in Seq(Block) /\ DOMAIN block' = DOMAIN block /\ Len(block') = l
        /\ block'[tailBlock] = r /\ \A i \in DOMAIN block : i # tailBlock => block'[i] = block[i]
    BY <1>0, <1>5, <1>6, SetBlock, Zenon
  <1>8. Linked' = Linked \cup {l}
    BY <1>0, <1>1, <1>4, <1>7 DEF Linked
  <1>9. QueueType'
    <2>1. \A i \in DOMAIN block' : Ring(block'[i])
      BY <1>0, <1>6, <1>7, Zenon
    <2> QED BY <1>1, <1>2, <1>7, <2>1, Zenon DEF QState, QueueType
  <1>10. /\ block'[l] = block[l] /\ block'[tailBlock].next = l /\ l # tailBlock
         /\ \A i \in Linked : i # tailBlock => block'[i] = block[i]
         /\ \A i \in Linked : block'[i].front = block[i].front /\ block'[i].tail = block[i].tail
    BY <1>0, <1>4, <1>6, <1>7, Zenon
  <1>11. Chain(used, free \cup {l})'
    <2>1. /\ used \cup free = Linked /\ used \cap free = {}
          /\ frontBlock \in used /\ tailBlock \in used
          /\ \A i \in used : i # tailBlock => block[i].next \in used /\ block[i].next # frontBlock
          /\ \A i \in free \cup {tailBlock} : block[i].next \in free \cup {frontBlock}
          /\ \A i, j \in Linked : block[i].next = block[j].next => i = j
          /\ \A i \in used : i # frontBlock => block[i].front # block[i].tail
          /\ \A i \in free : block[i].front = block[i].tail
      BY <1>1, Zenon DEF QState, Chain, IsEmpty
    <2>2. used \cup (free \cup {l}) = Linked' /\ used \cap (free \cup {l}) = {}
      BY <1>4, <1>8, <2>1
    <2>3. \A i \in used : i # tailBlock => block'[i].next \in used /\ block'[i].next # frontBlock
      BY <1>10, <2>1, Zenon
    <2>4. \A i \in (free \cup {l}) \cup {tailBlock} : block'[i].next \in (free \cup {l}) \cup {frontBlock}
      BY <1>3, <1>10, <2>1
    <2>5. \A i, j \in Linked' : block'[i].next = block'[j].next => i = j
      <3>1. \A i \in Linked : i # tailBlock =>
              block'[i].next = block[i].next /\ block[i].next \in Linked /\ block[i].next # next
        BY <1>0, <1>10, <2>1, Zenon
      <3>2. block'[l].next = next /\ next \in Linked /\ block'[tailBlock].next = l /\ l \notin Linked
        BY <1>0, <1>3, <1>4, <1>10, Zenon
      <3> HIDE DEF next
      <3> QED BY <1>8, <2>1, <3>1, <3>2
    <2>6. \A i \in used : i # frontBlock => block'[i].front # block'[i].tail
      BY <1>10, <2>1, Zenon
    <2>7. \A i \in free \cup {l} : block'[i].front = block'[i].tail <=> i # l
      BY <1>3, <1>4, <1>10, <2>1, Zenon
    <2> QED BY <1>1, <1>2, <1>10, <2>1, <2>2, <2>3, <2>4, <2>5, <2>6, <2>7 DEF Chain, IsEmpty
  <1>12. WriterOK'
    BY <1>1, Zenon DEF WriterOK
  <1>13. ReaderOK'
    BY <1>0, <1>2, <1>6, <1>7 DEF QState, ReaderOK, IsEmpty
  <1> QED BY <1>9, <1>11, <1>12, <1>13, Zenon DEF QState

LEMMA AdvanceKeeps ==
    ASSUME NEW used, NEW free, QState(used, free), Advance, NEW n, n = block[tailBlock].next
    PROVE  QState(used \cup {n}, free \ {n})'
  <1>1. wpc = "advance" /\ wpc' = "idle" /\ Linked' = Linked
    BY Zenon DEF Advance, Writer, Linked
  <1>2. UNCHANGED <<block, largest, put, frontBlock, rpc>> /\ tailBlock' = n
    BY Zenon DEF Advance, Writer, reader_vars
  <1>3. QueueType'
    BY <1>1, <1>2, Zenon DEF QState, QueueType
  <1>4. /\ used \cup free = Linked /\ used \cap free = {}
        /\ frontBlock \in used /\ tailBlock \in used /\ n \in free
        /\ \A i \in used : i # tailBlock => block[i].next \in used /\ block[i].next # frontBlock
        /\ \A i \in free \cup {tailBlock} : block[i].next \in free \cup {frontBlock}
        /\ \A i, j \in Linked : block[i].next = block[j].next => i = j
        /\ \A i \in used : i # frontBlock => block[i].front # block[i].tail
        /\ \A i \in free : block[i].front = block[i].tail <=> i # n
    BY <1>1, Zenon DEF QState, Chain, IsEmpty
  <1>5. Chain(used \cup {n}, free \ {n})'
    BY <1>1, <1>2, <1>4 DEF Chain, IsEmpty
  <1>6. WriterOK'
    BY <1>1, Zenon DEF WriterOK
  <1>7. ReaderOK'
    BY <1>2, <1>4, Zenon DEF QState, ReaderOK, IsEmpty
  <1> QED BY <1>3, <1>5, <1>6, <1>7, Zenon DEF QState

-----------------------------------------------------------------------------
(* The steps of the reader.                                                *)
LEMMA MoveKeeps ==
    ASSUME NEW used, NEW free, QState(used, free), Move, NEW f, f = frontBlock
    PROVE  QState(used \ {f}, free \cup {f})'
  <1>1. rpc = "move" /\ rpc' = "take" /\ frontBlock' = block[frontBlock].next
    BY Zenon DEF Move, Reader
  <1>2. UNCHANGED <<block, largest, put, tailBlock, wpc>> /\ Linked' = Linked
    BY Zenon DEF Move, Reader, writer_vars, Linked
  <1>3. QueueType'
    BY <1>1, <1>2, Zenon DEF QState, QueueType
  <1>4. /\ used \cup free = Linked /\ used \cap free = {}
        /\ frontBlock \in used /\ tailBlock \in used
        /\ \A i \in used : i # tailBlock => block[i].next \in used /\ block[i].next # frontBlock
        /\ \A i \in free \cup {tailBlock} : block[i].next \in free \cup {frontBlock}
        /\ \A i, j \in Linked : block[i].next = block[j].next => i = j
        /\ \A i \in used : i # frontBlock => block[i].front # block[i].tail
        /\ \A i \in free :
             block[i].front = block[i].tail <=> ~(wpc = "advance" /\ i = block[tailBlock].next)
        /\ wpc \in {"next", "publishNext", "advance"} => block[tailBlock].next \in free
    BY Zenon DEF QState, Chain, IsEmpty
  <1>5. /\ frontBlock # tailBlock /\ block[frontBlock].front = block[frontBlock].tail
        /\ block[frontBlock'].front # block[frontBlock'].localTail
    BY <1>1, Zenon DEF QState, ReaderOK, IsEmpty
  <1>6. Chain(used \ {f}, free \cup {f})'
    BY <1>1, <1>2, <1>4, <1>5 DEF Chain, IsEmpty
  <1>7. WriterOK'
    BY <1>2, Zenon DEF QState, WriterOK, After, IsEmpty
  <1>8. ReaderOK'
    BY <1>1, <1>2, <1>5, Zenon DEF ReaderOK
  <1> QED BY <1>3, <1>6, <1>7, <1>8, Zenon DEF QState

(* A reader step that brings the copy of the tail of block n up to date.   *)
LEMMA ReadTail ==
    ASSUME NEW used, NEW free, QState(used, free), NEW n \in Linked,
           block' = [block EXCEPT ![n].localTail = block[n].tail],
           UNCHANGED writer_vars, UNCHANGED frontBlock, rpc' \in ReaderPc
    PROVE  /\ QueueType' /\ Chain(used, free)' /\ WriterOK'
           /\ DOMAIN block' = DOMAIN block
           /\ block'[n].front = block[n].front /\ block'[n].tail = block[n].tail
           /\ block'[n].localTail = block[n].tail /\ block'[n].next = block[n].next
           /\ \A i \in DOMAIN block : i # n => block'[i] = block[i]
  <1> DEFINE b == block[n]
             r == [b EXCEPT !.localTail = b.tail]
  <1>0. /\ tailBlock \in Linked /\ frontBlock \in Linked /\ Linked \subseteq DOMAIN block
        /\ b \in Block /\ Ring(b) /\ \A i \in Linked : block[i].next \in Linked
        /\ DOMAIN block = 1 .. Len(block) /\ Len(block) \in Nat
    BY QFacts, Zenon
  <1>1. /\ UNCHANGED <<tailBlock, largest, put, wpc, frontBlock>> /\ put' \in 0 .. MaxPut
        /\ wpc' \in WriterPc
    BY Zenon DEF writer_vars, WriterPc, QState, QueueType
  <1>2. block' = [block EXCEPT ![n] = r]
    BY Zenon
  <1>3. /\ r \in Block /\ Ring(r) /\ r.localTail = b.tail
        /\ r.front = b.front /\ r.tail = b.tail /\ r.localFront = b.localFront
        /\ r.size = b.size /\ r.next = b.next
    BY <1>0, SetLocalTail, Zenon
  <1>4. Len(block') = Len(block) /\ DOMAIN block' = DOMAIN block
    BY <1>0, <1>2
  <1>5. Linked' = Linked
    BY <1>1, <1>4, Zenon DEF Linked
  <1>6. wpc' \in {"next", "publishNext"} => block[tailBlock].next \in free
    BY <1>1, Zenon DEF QState, Chain
  <1> HIDE DEF r
  <1>7. /\ QueueType' /\ Chain(used, free)'
        /\ block'[n] = r /\ \A i \in DOMAIN block : i # n => block'[i] = block[i]
    <2>1. r \in Block /\ Ring(r) /\ r.next = block[n].next
      BY <1>3, Zenon
    <2>2. n = frontBlock \/ (r.front = r.tail <=> block[n].front = block[n].tail)
      BY <1>3, Zenon
    <2>3. UNCHANGED <<frontBlock, tailBlock, largest>> /\ (wpc' = "advance" <=> wpc = "advance")
      BY <1>1, Zenon
    <2> HIDE DEF b
    <2> QED BY <1>1, <1>2, <1>5, <1>6, <2>1, <2>2, <2>3, QuietBlock, Zenon
  <1>8. \A i \in DOMAIN block :
          /\ block'[i].localFront = block[i].localFront /\ block'[i].front = block[i].front
          /\ block'[i].tail = block[i].tail /\ block'[i].size = block[i].size
          /\ block'[i].next = block[i].next
    BY <1>0, <1>3, <1>7, Zenon
  <1>9. WriterOK'
    <2>1. wpc = "link" => Len(block) \in DOMAIN block
      BY <1>0 DEF QState, WriterOK
    <2>2. block[tailBlock].next \in DOMAIN block /\ tailBlock \in DOMAIN block
      BY <1>0, Zenon
    <2> QED BY <1>1, <1>4, <1>8, <2>1, <2>2 DEF QState, WriterOK, After, IsEmpty
  <1> QED BY <1>3, <1>4, <1>7, <1>9, Zenon

LEMMA TryDequeueKeeps ==
    ASSUME NEW used, NEW free, QState(used, free), TryDequeue
    PROVE  QState(used, free)'
  <1> DEFINE b == block[frontBlock]
  <1>0. frontBlock \in Linked /\ Linked \subseteq DOMAIN block
    BY QFacts, Zenon
  <1>1. /\ rpc' \in {"take", "empty"} /\ rpc' \in ReaderPc
        /\ UNCHANGED writer_vars /\ UNCHANGED frontBlock
    BY Zenon DEF TryDequeue, Reader, ReaderPc
  <1>2. UNCHANGED <<tailBlock, largest, put, wpc>>
    BY <1>1, Zenon DEF writer_vars
  <1>3. CASE b.front # b.localTail
    <2>1. UNCHANGED block
      BY <1>3, Zenon DEF TryDequeue
    <2>2. /\ put' \in 0 .. MaxPut /\ wpc' \in WriterPc /\ Linked' = Linked
          /\ wpc' \in {"next", "publishNext", "advance"} => block[tailBlock].next \in free
      BY <1>2, <2>1, Zenon DEF WriterPc, QState, QueueType, Chain, Linked
    <2>3. QueueType' /\ Chain(used, free)'
      BY <1>1, <1>2, <2>1, <2>2, NoBlock, Zenon
    <2>4. WriterOK'
      BY <1>2, <2>1, Zenon DEF QState, WriterOK, After, IsEmpty
    <2>5. ReaderOK'
      BY <1>1, <1>3, <2>1, Zenon DEF ReaderOK
    <2> QED BY <2>3, <2>4, <2>5, Zenon DEF QState
  <1>4. CASE b.front = b.localTail
    <2>1. /\ block' = [block EXCEPT ![frontBlock].localTail = b.tail]
          /\ rpc' = IF b.front # b.tail THEN "take" ELSE "empty"
      BY <1>4, Zenon DEF TryDequeue
    <2>2. /\ QueueType' /\ Chain(used, free)' /\ WriterOK'
          /\ block'[frontBlock].front = b.front /\ block'[frontBlock].localTail = b.tail
      BY <1>0, <1>1, <2>1, ReadTail, Zenon
    <2>3. ReaderOK'
      BY <1>1, <2>1, <2>2, Zenon DEF ReaderOK
    <2> QED BY <2>2, <2>3, Zenon DEF QState
  <1> QED BY <1>3, <1>4, Zenon

LEMMA LookAheadKeeps ==
    ASSUME NEW used, NEW free, QState(used, free), LookAhead
    PROVE  QState(used, free)'
  <1>1. /\ rpc' \in {"recheck", "false"} /\ rpc' \in ReaderPc
        /\ rpc' = "recheck" => frontBlock # tailBlock
        /\ UNCHANGED <<block, frontBlock, tailBlock, largest, put, wpc>>
    BY Zenon DEF LookAhead, Reader, writer_vars, ReaderPc
  <1>2. /\ put' \in 0 .. MaxPut /\ wpc' \in WriterPc /\ Linked' = Linked
        /\ wpc' \in {"next", "publishNext", "advance"} => block[tailBlock].next \in free
    BY <1>1, Zenon DEF WriterPc, QState, QueueType, Chain, Linked
  <1>3. QueueType' /\ Chain(used, free)'
    BY <1>1, <1>2, NoBlock, Zenon
  <1>4. WriterOK'
    BY <1>1, Zenon DEF QState, WriterOK, After, IsEmpty
  <1>5. ReaderOK'
    BY <1>1, Zenon DEF ReaderOK
  <1> QED BY <1>3, <1>4, <1>5, Zenon DEF QState

LEMMA RecheckKeeps ==
    ASSUME NEW used, NEW free, QState(used, free), Recheck
    PROVE  QState(used, free)'
  <1> DEFINE b == block[frontBlock]
  <1>0. frontBlock \in Linked
    BY QFacts, Zenon
  <1>1. /\ block' = [block EXCEPT ![frontBlock].localTail = b.tail]
        /\ rpc = "recheck" /\ rpc' = (IF b.front # b.tail THEN "take" ELSE "ahead") /\ rpc' \in ReaderPc
        /\ UNCHANGED writer_vars /\ UNCHANGED frontBlock /\ UNCHANGED tailBlock
    BY Zenon DEF Recheck, Reader, ReaderPc, writer_vars
  <1>2. /\ QueueType' /\ Chain(used, free)' /\ WriterOK'
        /\ block'[frontBlock].front = b.front /\ block'[frontBlock].tail = b.tail
        /\ block'[frontBlock].localTail = b.tail
    BY <1>0, <1>1, ReadTail, Zenon
  <1>3. ReaderOK'
    BY <1>1, <1>2, Zenon DEF QState, ReaderOK, IsEmpty
  <1> QED BY <1>2, <1>3, Zenon DEF QState

LEMMA ReadNextKeeps ==
    ASSUME NEW used, NEW free, QState(used, free), ReadNext
    PROVE  QState(used, free)'
  <1> DEFINE n == block[frontBlock].next
  <1>0. frontBlock \in Linked /\ n \in Linked /\ Linked \subseteq DOMAIN block
    BY QFacts, Zenon
  <1>1. /\ block' = [block EXCEPT ![n].localTail = block[n].tail]
        /\ rpc = "ahead" /\ rpc' = "move" /\ rpc' \in ReaderPc
        /\ UNCHANGED writer_vars /\ UNCHANGED frontBlock /\ UNCHANGED tailBlock
    BY Zenon DEF ReadNext, Reader, ReaderPc, writer_vars
  <1>2. frontBlock # tailBlock /\ block[frontBlock].front = block[frontBlock].tail
    BY <1>1, Zenon DEF QState, ReaderOK, IsEmpty
  <1>3. n # frontBlock /\ block[n].front # block[n].tail
    BY <1>2, Zenon DEF QState, Chain, IsEmpty
  <1>4. /\ QueueType' /\ Chain(used, free)' /\ WriterOK'
        /\ block'[n].front = block[n].front /\ block'[n].localTail = block[n].tail
        /\ \A i \in DOMAIN block : i # n => block'[i] = block[i]
    <2> HIDE DEF n
    <2> QED BY <1>0, <1>1, ReadTail, Zenon
  <1>5. block'[frontBlock] = block[frontBlock]
    BY <1>0, <1>3, <1>4, Zenon
  <1>6. ReaderOK'
    BY <1>1, <1>2, <1>3, <1>4, <1>5, Zenon DEF ReaderOK, IsEmpty
  <1> QED BY <1>4, <1>6, Zenon DEF QState

(* A step of the reader that writes the front block.                       *)
LEMMA AtFront ==
    ASSUME NEW used, NEW free, QState(used, free), NEW r \in Block, Ring(r),
           block' = [block EXCEPT ![frontBlock] = r],
           r.next = block[frontBlock].next, r.tail = block[frontBlock].tail,
           r.localFront = block[frontBlock].localFront, r.size = block[frontBlock].size,
           UNCHANGED writer_vars, UNCHANGED frontBlock, rpc' \in ReaderPc
    PROVE  /\ QueueType' /\ Chain(used, free)' /\ WriterOK'
           /\ block'[frontBlock] = r
           /\ \A i \in DOMAIN block : i # frontBlock => block'[i] = block[i]
  <1>0. /\ tailBlock \in Linked /\ frontBlock \in Linked /\ Linked \subseteq DOMAIN block
        /\ \A i \in Linked : block[i].next \in Linked
        /\ DOMAIN block = 1 .. Len(block) /\ Len(block) \in Nat
    BY QFacts, Zenon
  <1>1. /\ UNCHANGED <<tailBlock, largest, put, wpc, frontBlock>> /\ put' \in 0 .. MaxPut
        /\ wpc' \in WriterPc /\ (wpc' = "advance" <=> wpc = "advance")
    BY Zenon DEF writer_vars, WriterPc, QState, QueueType
  <1>2. Len(block') = Len(block) /\ DOMAIN block' = DOMAIN block
    BY <1>0
  <1>3. Linked' = Linked
    BY <1>1, <1>2, Zenon DEF Linked
  <1>4. /\ wpc' \in {"next", "publishNext"} => block[tailBlock].next \in free
        /\ wpc = "publishNext" => block[tailBlock].next # frontBlock
        /\ wpc = "link" => Len(block) # frontBlock /\ Len(block) \in DOMAIN block
    <2>1. /\ wpc \in {"next", "publishNext"} => block[tailBlock].next \in free
          /\ frontBlock \in used /\ used \cap free = {}
      BY Zenon DEF QState, Chain
    <2>2. wpc = "link" => Len(block) > 1 /\ Linked = 1 .. Len(block) - 1
      BY Zenon DEF QState, WriterOK, Linked
    <2>3. wpc = "link" => Len(block) # frontBlock /\ Len(block) \in DOMAIN block
      BY <1>0, <2>2
    <2> QED BY <1>1, <2>1, <2>3, Zenon
  <1>5. UNCHANGED <<frontBlock, tailBlock, largest>>
    BY <1>1, Zenon
  <1>6. /\ QueueType' /\ Chain(used, free)'
        /\ block'[frontBlock] = r /\ \A i \in DOMAIN block : i # frontBlock => block'[i] = block[i]
    BY <1>0, <1>1, <1>3, <1>4, <1>5, QuietBlock, Zenon
  <1>7. \A i \in DOMAIN block :
          /\ block'[i].localFront = block[i].localFront /\ block'[i].tail = block[i].tail
          /\ block'[i].size = block[i].size /\ block'[i].next = block[i].next
    BY <1>0, <1>6, Zenon
  <1>8. block[tailBlock].next \in DOMAIN block /\ tailBlock \in DOMAIN block
    BY <1>0, Zenon
  <1>9. WriterOK'
    BY <1>1, <1>2, <1>4, <1>6, <1>7, <1>8, Zenon DEF QState, WriterOK, After, IsEmpty
  <1> QED BY <1>6, <1>9, Zenon

LEMMA TakeKeeps ==
    ASSUME NEW used, NEW free, QState(used, free), Take
    PROVE  QState(used, free)'
  <1> DEFINE b == block[frontBlock]
             d == [b.data EXCEPT ![b.front] = Empty]
             r == [b EXCEPT !.data = d]
  <1>0. b \in Block /\ Ring(b)
    BY QFacts, Zenon
  <1>1. /\ block' = [block EXCEPT ![frontBlock] = r]
        /\ rpc = "take" /\ rpc' = "free" /\ rpc' \in ReaderPc
        /\ UNCHANGED writer_vars /\ UNCHANGED frontBlock
    BY Zenon DEF Take, Reader, ReaderPc
  <1>2. r = [b EXCEPT !.data = d] /\ d \in Slots
    BY <1>0, SetSlot, Zenon DEF Value
  <1> HIDE DEF b, d, r
  <1>3. /\ r \in Block /\ Ring(r)
        /\ r.front = b.front /\ r.tail = b.tail /\ r.localTail = b.localTail
        /\ r.localFront = b.localFront /\ r.size = b.size /\ r.next = b.next
    BY <1>0, <1>2, SetData
  <1> USE DEF b
  <1>4. QueueType' /\ Chain(used, free)' /\ WriterOK' /\ block'[frontBlock] = r
    BY <1>1, <1>3, AtFront, Zenon
  <1>5. ReaderOK'
    BY <1>1, <1>3, <1>4, Zenon DEF QState, ReaderOK
  <1> QED BY <1>4, <1>5, Zenon DEF QState

LEMMA SetFront ==
    ASSUME NEW b \in Block, Ring(b), b.front # b.localTail,
           NEW r, r = [b EXCEPT !.front = (b.front + 1) % b.size]
    PROVE  /\ r \in Block /\ Ring(r)
           /\ r.tail = b.tail /\ r.localTail = b.localTail /\ r.localFront = b.localFront
           /\ r.size = b.size /\ r.next = b.next /\ r.data = b.data
  <1> DEFINE t == (b.front + 1) % b.size
  <1>1. r \in Block /\ Ring(r)
    BY RingTake, Zenon
  <1> HIDE DEF t
  <1>2. r = [b EXCEPT !.front = t]
    BY Zenon DEF t
  <1>3. /\ r.tail = b.tail /\ r.localTail = b.localTail
        /\ r.localFront = b.localFront /\ r.size = b.size /\ r.next = b.next /\ r.data = b.data
    BY <1>2, Zenon DEF Block
  <1> QED BY <1>1, <1>3, Zenon

LEMMA FreeKeeps ==
    ASSUME NEW used, NEW free, QState(used, free), Free
    PROVE  QState(used, free)'
  <1> DEFINE b == block[frontBlock]
             r == [b EXCEPT !.front = (b.front + 1) % b.size]
  <1>0. b \in Block /\ Ring(b)
    BY QFacts, Zenon
  <1>1. /\ block' = [block EXCEPT ![frontBlock] = r]
        /\ rpc = "free" /\ rpc' = "true" /\ rpc' \in ReaderPc
        /\ UNCHANGED writer_vars /\ UNCHANGED frontBlock
    BY Zenon DEF Free, Reader, ReaderPc, After
  <1>2. b.front # b.localTail
    BY <1>1, Zenon DEF QState, ReaderOK
  <1>3. /\ r \in Block /\ Ring(r)
        /\ r.tail = b.tail /\ r.localTail = b.localTail
        /\ r.localFront = b.localFront /\ r.size = b.size /\ r.next = b.next
    BY <1>0, <1>2, SetFront, Zenon
  <1> HIDE DEF r
  <1>4. QueueType' /\ Chain(used, free)' /\ WriterOK'
    BY <1>1, <1>3, AtFront, Zenon
  <1>5. ReaderOK'
    BY <1>1, Zenon DEF ReaderOK
  <1> QED BY <1>4, <1>5, Zenon DEF QState

-----------------------------------------------------------------------------
LEMMA SizeFacts == BlockSize \in Nat /\ BlockSize >= 2 /\ BlockCount \in Nat /\ BlockCount >= 1
  <1>1. MaxSize \in Nat /\ MaxSize >= 1
    BY SizeAssumption
  <1>2. BlockSize \in Nat /\ BlockSize >= 2
    BY InitialAssumption, Zenon DEF BlockSize
  <1>3. CASE Several
    <2> DEFINE d == MAX_BLOCK_SIZE - 1
               m == MaxSize + MAX_BLOCK_SIZE * 2 - 3
    <2>1. d \in Nat /\ d >= 1 /\ m \in Nat /\ m >= d
      BY <1>1, InitialAssumption
    <2>2. m \div d \in Nat /\ m \div d >= 1
      <3> HIDE DEF d, m
      <3> QED BY <2>1
    <2> QED BY <1>2, <1>3, <2>2, Zenon DEF BlockCount
  <1>4. CASE ~Several
    BY <1>2, <1>4 DEF BlockCount
  <1> QED BY <1>3, <1>4, Zenon

(* The constructor leaves every block but the first one free.              *)
LEMMA InitKeeps ==
    ASSUME QueueInit
    PROVE  QState({1}, 2 .. BlockCount)
  <1> DEFINE c == BlockCount
             e == [i \in 0 .. BlockSize - 1 |-> Empty]
             nx(i) == (i % c) + 1
             rec(i) == [size |-> BlockSize, front |-> 0, localTail |-> 0, tail |-> 0, localFront |-> 0,
                        next |-> nx(i), data |-> e]
  <1>1. BlockSize \in Nat /\ BlockSize >= 2 /\ c \in Nat /\ c >= 1
    BY SizeFacts, Zenon
  <1>2. \A i \in 1 .. c : nx(i) = IF i = c THEN 1 ELSE i + 1
    <2> HIDE DEF c
    <2> QED BY <1>1
  <1>3. e \in Slots
    BY <1>1 DEF Slots, Value
  <1>4. block = [i \in 1 .. c |-> rec(i)]
    <2> DEFINE m == [size |-> BlockSize, front |-> 0, localTail |-> 0, tail |-> 0, localFront |-> 0,
                     next |-> 1, data |-> e]
    <2>1. block = [i \in 1 .. c |-> [m EXCEPT !.next = nx(i)]]
      BY Zenon DEF QueueInit, make_block
    <2> HIDE DEF c, e, nx
    <2>2. ASSUME NEW i \in 1 .. c PROVE [m EXCEPT !.next = nx(i)] = rec(i)
      OBVIOUS
    <2> HIDE DEF m, rec
    <2> QED BY <2>1, <2>2, Zenon
  <1>5. /\ wpc = "idle" /\ rpc = "idle" /\ frontBlock = 1 /\ tailBlock = 1
        /\ largest = BlockSize /\ put = 0
    BY Zenon DEF QueueInit
  <1> HIDE DEF c, e, nx
  <1>6. \A i \in 1 .. c : rec(i) \in Block /\ Ring(rec(i))
    BY <1>1, <1>2, <1>3 DEF Block, Ring, Between
  <1>7. \A i \in 1 .. c : rec(i).front = 0 /\ rec(i).tail = 0 /\ rec(i).next = nx(i)
    BY Zenon
  <1> HIDE DEF rec
  <1>8. /\ block \in Seq(Block) /\ DOMAIN block = 1 .. c
        /\ \A i \in 1 .. c : block[i].front = 0 /\ block[i].tail = 0 /\ block[i].next = nx(i)
        /\ \A i \in 1 .. c : Ring(block[i])
    BY <1>1, <1>4, <1>6, <1>7
  <1>9. Linked = 1 .. c
    BY <1>5, <1>8, Zenon DEF Linked
  <1>10. QueueType
    BY <1>1, <1>5, <1>8, PutAssumption DEF QueueType
  <1>11. Chain({1}, 2 .. c)
    <2>1. \A i \in 2 .. c : block[i].next \in 2 .. c \cup {1}
      BY <1>1, <1>2, <1>8
    <2>2. block[1].next \in 2 .. c \cup {1}
      BY <1>1, <1>2, <1>8
    <2>3. \A i, j \in 1 .. c : block[i].next = block[j].next => i = j
      BY <1>1, <1>2, <1>8
    <2> QED BY <1>1, <1>5, <1>8, <1>9, <2>1, <2>2, <2>3 DEF Chain, IsEmpty
  <1>12. WriterOK /\ ReaderOK
    BY <1>5, Zenon DEF WriterOK, ReaderOK
  <1> QED BY <1>10, <1>11, <1>12, Zenon DEF QState, c

-----------------------------------------------------------------------------
LEMMA QInvIntro ==
    ASSUME NEW used, NEW free, QState(used, free)
    PROVE  QInv
  <1>1. used \cup free \subseteq DOMAIN block
    <2>1. used \cup free = Linked
      BY Zenon DEF QState, Chain
    <2> QED BY <2>1, QFacts, Zenon
  <1> QED BY <1>1, Zenon DEF QInv

LEMMA QInvAfter ==
    ASSUME NEW used, NEW free, QState(used, free)'
    PROVE  QInv'
  <1>1. used \cup free = Linked' /\ (block \in Seq(Block))'
    BY Zenon DEF QState, QueueType, Chain
  <1>2. Linked' \subseteq DOMAIN block'
    BY <1>1 DEF Linked
  <1> QED BY <1>1, <1>2, Zenon DEF QInv

LEMMA WriteKeeps ==
    ASSUME QInv, Enqueue \/ Write
    PROVE  QInv'
  <1>1. PICK used, free : QState(used, free)
    BY Zenon DEF QInv
  <1>2. CASE Enqueue
    BY <1>1, <1>2, EnqueueKeeps, QInvAfter, Zenon
  <1>3. CASE Store
    BY <1>1, <1>3, StoreKeeps, QInvAfter, Zenon
  <1>4. CASE Publish
    BY <1>1, <1>4, PublishKeeps, QInvAfter, Zenon
  <1>5. CASE Full \/ AllocFails
    BY <1>1, <1>5, FullKeeps, QInvAfter, Zenon
  <1>6. CASE StoreNext
    BY <1>1, <1>6, StoreNextKeeps, QInvAfter, Zenon
  <1>7. CASE PublishNext
    BY <1>1, <1>7, PublishNextKeeps, QInvAfter, Zenon
  <1>8. CASE Alloc
    BY <1>1, <1>8, AllocKeeps, QInvAfter, Zenon
  <1>9. CASE Link
    <2>1. PICK l : l = Len(block)
      BY Zenon
    <2>2. QState(used, free \cup {l})'
      BY <1>1, <1>9, <2>1, LinkKeeps, Zenon
    <2> QED BY <2>2, QInvAfter, Zenon
  <1>10. CASE Advance
    <2>1. PICK n : n = block[tailBlock].next
      BY Zenon
    <2>2. QState(used \cup {n}, free \ {n})'
      BY <1>1, <1>10, <2>1, AdvanceKeeps, Zenon
    <2> QED BY <2>2, QInvAfter, Zenon
  <1> QED BY <1>2, <1>3, <1>4, <1>5, <1>6, <1>7, <1>8, <1>9, <1>10, Zenon DEF Write

LEMMA ReadKeeps ==
    ASSUME QInv, Read
    PROVE  QInv'
  <1>1. PICK used, free : QState(used, free)
    BY Zenon DEF QInv
  <1>2. CASE TryDequeue
    BY <1>1, <1>2, TryDequeueKeeps, QInvAfter, Zenon
  <1>3. CASE LookAhead
    BY <1>1, <1>3, LookAheadKeeps, QInvAfter, Zenon
  <1>4. CASE Recheck
    BY <1>1, <1>4, RecheckKeeps, QInvAfter, Zenon
  <1>5. CASE ReadNext
    BY <1>1, <1>5, ReadNextKeeps, QInvAfter, Zenon
  <1>6. CASE Move
    <2>1. PICK f : f = frontBlock
      BY Zenon
    <2>2. QState(used \ {f}, free \cup {f})'
      BY <1>1, <1>6, <2>1, MoveKeeps, Zenon
    <2> QED BY <2>2, QInvAfter, Zenon
  <1>7. CASE Take
    BY <1>1, <1>7, TakeKeeps, QInvAfter, Zenon
  <1>8. CASE Free
    BY <1>1, <1>8, FreeKeeps, QInvAfter, Zenon
  <1> QED BY <1>2, <1>3, <1>4, <1>5, <1>6, <1>7, <1>8, Zenon DEF Read

(* svc() calls again, or the queue is not touched.                         *)
LEMMA StillQueue ==
    ASSUME NEW used, NEW free, QState(used, free), Again \/ UNCHANGED queue_vars
    PROVE  QState(used, free)'
  <1>1. /\ UNCHANGED <<block, frontBlock, tailBlock, largest, put, wpc>>
        /\ rpc' = rpc \/ rpc' = "idle"
    BY Zenon DEF Again, queue_vars, writer_vars, reader_vars
  <1>2. QueueType' /\ Linked' = Linked
    BY <1>1, Zenon DEF QState, QueueType, Linked
  <1>3. Chain(used, free)'
    BY <1>1, <1>2, Zenon DEF QState, Chain, IsEmpty
  <1>4. WriterOK'
    BY <1>1, <1>2, Zenon DEF QState, WriterOK, After, IsEmpty
  <1>5. ReaderOK'
    BY <1>1, Zenon DEF QState, ReaderOK, IsEmpty
  <1> QED BY <1>2, <1>3, <1>4, <1>5, Zenon DEF QState

LEMMA StillKeeps ==
    ASSUME QInv, Again \/ UNCHANGED queue_vars
    PROVE  QInv'
  <1>1. PICK used, free : QState(used, free)
    BY Zenon DEF QInv
  <1> QED BY <1>1, StillQueue, QInvAfter, Zenon

(* The circle of blocks and what the two threads know of it: true of every *)
(* state that inner_enqueue() and try_dequeue() reach together.            *)
THEOREM BlocksInvariant == Spec => []QInv
  <1>1. Init => QInv
    BY InitKeeps, QInvIntro, Zenon DEF Init
  <1>2. QInv /\ [Next]_vars => QInv'
    <2> SUFFICES ASSUME QInv, [Next]_vars PROVE QInv'
      BY Zenon
    <2>1. CASE Queue(Enqueue) \/ Queue(Write)
      BY <2>1, WriteKeeps, Zenon DEF Queue
    <2>2. CASE Queue(Read)
      BY <2>2, ReadKeeps, Zenon DEF Queue
    <2>3. CASE Again \/ UNCHANGED queue_vars
      BY <2>3, StillKeeps, Zenon
    <2>5. CASE WriteData \/ OpenFile \/ CheckFile \/ ReopenFile \/ Fwrite \/ FwriteFails \/ Stamp
      BY <2>3, <2>5, Zenon DEF WriteData, OpenFile, CheckFile, ReopenFile, Fwrite, FwriteFails, Stamp, File
    <2>6. CASE Hour \/ UNCHANGED vars
      BY <2>3, <2>6, Zenon DEF Hour, vars
    <2> QED BY <2>1, <2>2, <2>3, <2>5, <2>6, Zenon DEF Next, Record
  <1> QED BY <1>1, <1>2, PTL DEF Spec

(* assert(nextBlockFront == nextBlockTail) in inner_enqueue() holds for    *)
(* every size of the queue: the reader leaves nothing behind in a block    *)
(* that the writer comes back to.                                          *)
THEOREM WriterAssertion == Spec => []NextBlockEmpty
  <1>1. QInv => NextBlockEmpty
    BY Zenon DEF QInv, QState, Chain, IsEmpty, NextBlockEmpty
  <1> QED BY <1>1, BlocksInvariant, PTL

(* assert(nextBlockFront != nextBlockTail) in try_dequeue() holds for      *)
(* every size of the queue: the writer goes on to a block only with an     *)
(* element in it.                                                          *)
THEOREM ReaderAssertion == Spec => []NextBlockFilled
  <1>1. ASSUME QInv PROVE NextBlockFilled
    <2>1. PICK used, free : QState(used, free)
      BY <1>1, Zenon DEF QInv
    <2>2. rpc \in {"ahead", "move"} => frontBlock # tailBlock
      BY <2>1, Zenon DEF QState, ReaderOK
    <2> QED BY <2>1, <2>2, Zenon DEF QState, Chain, IsEmpty, NextBlockFilled
  <1> QED BY <1>1, BlocksInvariant, PTL
=============================================================================

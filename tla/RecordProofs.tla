---------------------------- MODULE RecordProofs ----------------------------
(***************************************************************************)
(* Proofs about what goes through the lock-free queue into the files, for  *)
(* any size of the blocks and any number of messages, files and failures.  *)
(*                                                                         *)
(* The elements of the blocks in use, read from the front block to the     *)
(* tail block and in each from its front to its tail, ascend; all of them  *)
(* are above what the reader has taken and none is above what the writer   *)
(* has put (DState).  So what the reader takes ascends, and with it what   *)
(* is written (FileInv).                                                   *)
(***************************************************************************)
EXTENDS ThreadProofs

-----------------------------------------------------------------------------
(* The elements of a block are in the slots from its front to its tail,    *)
(* but for one that try_dequeue() has just moved out.                      *)
InRange(f, i, t) == IF f <= t THEN f <= i /\ i < t ELSE f <= i \/ i < t

Live(c) ==
    {i \in 0 .. block[c].size - 1 :
       /\ InRange(block[c].front, i, block[c].tail)
       /\ ~(rpc = "free" /\ c = frontBlock /\ i = block[c].front)}

(* Slot i comes before slot j on the way round from slot f.                *)
Before(f, i, j) == IF f <= i THEN i < j \/ j < f ELSE i < j /\ j < f

(* The blocks in use, from the front block to the tail block.              *)
InUse(u) ==
    /\ u # <<>> /\ u[1] = frontBlock /\ u[Len(u)] = tailBlock
    /\ \A k, l \in DOMAIN u : u[k] = u[l] => k = l
    /\ \A k \in DOMAIN u : k < Len(u) => block[u[k]].next = u[k + 1]

(* A block that the writer is about to go on to holds the message it puts. *)
Numbered(c) == \A i \in Live(c) : i = block[c].front /\ block[c].data[i] = put

Ordered(u) ==
    /\ \A k \in DOMAIN u : \A i, j \in Live(u[k]) :
         Before(block[u[k]].front, i, j) => block[u[k]].data[i] < block[u[k]].data[j]
    /\ \A k, l \in DOMAIN u : k < l => \A i \in Live(u[k]), j \in Live(u[l]) :
         block[u[k]].data[i] < block[u[l]].data[j]

Bounded(u) ==
    /\ \A k \in DOMAIN u : \A i \in Live(u[k]) :
         /\ block[u[k]].data[i] \in 1 .. put
         /\ wpc # "idle" => block[u[k]].data[i] < put
         /\ result # Empty => result < block[u[k]].data[i]
    /\ result # Empty => result \in 1 .. put /\ (wpc # "idle" => result < put)

Pending ==
    /\ wpc # "idle" => put >= 1
    /\ wpc = "publish" => block[tailBlock].data[block[tailBlock].tail] = put
    /\ wpc = "publishNext" => LET n == block[block[tailBlock].next] IN n.data[n.tail] = put
    /\ wpc = "advance" => Numbered(block[tailBlock].next)
    /\ wpc = "link" => Numbered(Len(block))

DataType == \A c \in DOMAIN block : block[c].data \in [0 .. block[c].size - 1 -> Value]

Used(u) == {u[k] : k \in DOMAIN u}

DState(free, u) ==
    /\ QState(Used(u), free) /\ DataType /\ u \in Seq(Nat) /\ InUse(u)
    /\ Ordered(u) /\ Bounded(u) /\ Pending

(* How the slots that hold elements change when one is freed or published. *)
LEMMA SlotFreed ==
    ASSUME NEW s \in Nat, NEW f \in Nat, NEW t \in Nat, NEW g \in Nat, f < s, t < s, f # t,
           g = IF f + 1 = s THEN 0 ELSE f + 1, NEW i \in Nat, i < s
    PROVE  InRange(g, i, t) => InRange(f, i, t) /\ i # f
  BY DEF InRange

LEMMA OrderFreed ==
    ASSUME NEW s \in Nat, NEW f \in Nat, NEW t \in Nat, NEW g \in Nat, f < s, t < s, f # t,
           g = IF f + 1 = s THEN 0 ELSE f + 1, NEW i \in Nat, i < s, NEW j \in Nat, j < s,
           InRange(g, i, t), InRange(g, j, t), Before(g, i, j)
    PROVE  Before(f, i, j)
  BY DEF InRange, Before

LEMMA SlotPublished ==
    ASSUME NEW s \in Nat, NEW f \in Nat, NEW t \in Nat, NEW g \in Nat, f < s, t < s, f # g,
           g = IF t + 1 = s THEN 0 ELSE t + 1, NEW i \in Nat, i < s
    PROVE  InRange(f, i, g) => InRange(f, i, t) \/ i = t
  BY DEF InRange

LEMMA OrderPublished ==
    ASSUME NEW f \in Nat, NEW t \in Nat, NEW i \in Nat, InRange(f, i, t)
    PROVE  i # t /\ ~Before(f, t, i) /\ ~Before(f, t, t)
  BY DEF InRange, Before

LEMMA FrontFirst ==
    ASSUME NEW f \in Nat, NEW t \in Nat, NEW i \in Nat, InRange(f, i, t), i # f
    PROVE  Before(f, f, i)
  BY DEF InRange, Before

-----------------------------------------------------------------------------
(* A step that leaves what block c holds and where it leads as it was.     *)
SameHeld(c) ==
    /\ block'[c].front = block[c].front /\ block'[c].tail = block[c].tail
    /\ block'[c].size = block[c].size /\ block'[c].data = block[c].data

Same(c) == SameHeld(c) /\ block'[c].next = block[c].next

LEMMA LocalField ==
    ASSUME block \in Seq(Block), NEW b \in DOMAIN block, NEW v,
           \/ block' = [block EXCEPT ![b].localFront = v]
           \/ block' = [block EXCEPT ![b].localTail = v]
    PROVE  DOMAIN block' = DOMAIN block /\ \A c \in DOMAIN block : Same(c)
  <1>1. block[b] \in Block
    OBVIOUS
  <1>2. PICK r : /\ block' = [block EXCEPT ![b] = r]
                 /\ r = [block[b] EXCEPT !.localFront = v] \/ r = [block[b] EXCEPT !.localTail = v]
    BY Zenon
  <1>3. /\ r.front = block[b].front /\ r.tail = block[b].tail /\ r.size = block[b].size
        /\ r.data = block[b].data /\ r.next = block[b].next
    BY <1>1, <1>2, Zenon DEF Block
  <1>4. /\ DOMAIN block' = DOMAIN block /\ block'[b] = r
        /\ \A c \in DOMAIN block : c # b => block'[c] = block[c]
    BY <1>2, Zenon
  <1> QED BY <1>3, <1>4, Zenon DEF Same, SameHeld

LEMMA DataField ==
    ASSUME block \in Seq(Block), NEW b \in DOMAIN block, NEW d, NEW r,
           r = [block[b] EXCEPT !.data = d], block' = [block EXCEPT ![b] = r]
    PROVE  /\ DOMAIN block' = DOMAIN block /\ \A c \in DOMAIN block : c # b => Same(c)
           /\ block'[b].front = block[b].front /\ block'[b].tail = block[b].tail
           /\ block'[b].size = block[b].size /\ block'[b].next = block[b].next
           /\ block'[b].data = d
  <1>1. block[b] \in Block
    OBVIOUS
  <1>2. /\ r.front = block[b].front /\ r.tail = block[b].tail /\ r.size = block[b].size
        /\ r.data = d /\ r.next = block[b].next
    BY <1>1, Zenon DEF Block
  <1>3. /\ DOMAIN block' = DOMAIN block /\ block'[b] = r
        /\ \A c \in DOMAIN block : c # b => block'[c] = block[c]
    BY Zenon
  <1> QED BY <1>2, <1>3, Zenon DEF Same, SameHeld

LEMMA SlotRange ==
    ASSUME NEW b \in Block, Ring(b)
    PROVE  /\ b.size \in Nat /\ b.size >= 2 /\ b.front \in Nat /\ b.tail \in Nat
           /\ b.front < b.size /\ b.tail < b.size
  BY Zenon DEF Block, Ring

LEMMA OrderKept ==
    ASSUME NEW u \in Seq(Nat), Ordered(u),
           \A c \in Used(u) : Live(c)' \subseteq Live(c),
           \A c \in Used(u) : \A i \in Live(c)' : block'[c].data[i] = block[c].data[i],
           \A c \in Used(u) : \A i, j \in Live(c)' :
             Before(block'[c].front, i, j) => Before(block[c].front, i, j)
    PROVE  Ordered(u)'
  <1>1. \A k \in DOMAIN u : u[k] \in Used(u)
    BY Zenon DEF Used
  <1>2. ASSUME NEW k \in DOMAIN u, NEW i \in Live(u[k])', NEW j \in Live(u[k])',
               Before(block'[u[k]].front, i, j)
        PROVE  block'[u[k]].data[i] < block'[u[k]].data[j]
    BY <1>1, <1>2, Zenon DEF Ordered
  <1>3. ASSUME NEW k \in DOMAIN u, NEW l \in DOMAIN u, k < l, NEW i \in Live(u[k])', NEW j \in Live(u[l])'
        PROVE  block'[u[k]].data[i] < block'[u[l]].data[j]
    BY <1>1, <1>3, Zenon DEF Ordered
  <1> QED BY <1>2, <1>3, Zenon DEF Ordered

(* The writer may go on: with the same message, or with the next one.      *)
Onward == (put' = put /\ (wpc' # "idle" => wpc # "idle")) \/ put' = put + 1

LEMMA BoundKept ==
    ASSUME NEW u \in Seq(Nat), Bounded(u), put \in Nat, Onward, result' = result,
           \A c \in Used(u) : Live(c)' \subseteq Live(c),
           \A c \in Used(u) : \A i \in Live(c)' : block'[c].data[i] = block[c].data[i]
    PROVE  Bounded(u)'
  <1>1. \A k \in DOMAIN u : u[k] \in Used(u)
    BY Zenon DEF Used
  <1>2. \A n \in 1 .. put : n \in 1 .. put' /\ (put' = put + 1 => n < put')
    BY DEF Onward
  <1>3. ASSUME NEW k \in DOMAIN u, NEW i \in Live(u[k])'
        PROVE  /\ block'[u[k]].data[i] \in 1 .. put'
               /\ wpc' # "idle" => block'[u[k]].data[i] < put'
               /\ result' # Empty => result' < block'[u[k]].data[i]
    <2> DEFINE n == block[u[k]].data[i]
    <2>1. block'[u[k]].data[i] = n /\ i \in Live(u[k])
      BY <1>1, Zenon
    <2>2. n \in 1 .. put /\ (wpc # "idle" => n < put) /\ (result # Empty => result < n)
      BY <2>1, Zenon DEF Bounded
    <2> HIDE DEF n
    <2> QED BY <1>2, <2>1, <2>2, Zenon DEF Onward
  <1>4. result' # Empty => result' \in 1 .. put' /\ (wpc' # "idle" => result' < put')
    BY <1>2, Zenon DEF Bounded, Onward
  <1> QED BY <1>3, <1>4, Zenon DEF Bounded

(* Steps that leave the elements of all blocks where they are.             *)
LEMMA LiveSame ==
    ASSUME NEW c, SameHeld(c), UNCHANGED frontBlock, rpc' = "free" <=> rpc = "free"
    PROVE  Live(c)' = Live(c)
  BY Zenon DEF SameHeld, Live

LEMMA HeldKept ==
    ASSUME NEW u \in Seq(Nat), Ordered(u), Bounded(u), put \in Nat, Onward,
           UNCHANGED <<frontBlock, result>>, rpc' = "free" <=> rpc = "free",
           \A c \in Used(u) : SameHeld(c)
    PROVE  Ordered(u)' /\ Bounded(u)'
  <1>1. \A c \in Used(u) : Live(c)' = Live(c)
    BY LiveSame, Zenon
  <1>2. \A c \in Used(u) : block'[c].front = block[c].front /\ block'[c].data = block[c].data
    BY Zenon DEF SameHeld
  <1>3. Ordered(u)'
    BY <1>1, <1>2, OrderKept, Zenon
  <1>4. Bounded(u)'
    BY <1>1, <1>2, BoundKept, Zenon
  <1> QED BY <1>3, <1>4, Zenon

LEMMA DFacts ==
    ASSUME NEW free, NEW u, DState(free, u)
    PROVE  /\ block \in Seq(Block) /\ put \in Nat /\ u \in Seq(Nat)
           /\ Used(u) \cup free = Linked /\ Used(u) \cap free = {} /\ Linked \subseteq DOMAIN block
           /\ tailBlock \in Used(u) /\ frontBlock \in Used(u) /\ block[tailBlock].next \in Linked
           /\ DOMAIN block = 1 .. Len(block) /\ Len(block) \in Nat
           /\ \A c \in DOMAIN block : block[c] \in Block /\ Ring(block[c])
  <1>1. QState(Used(u), free) /\ u \in Seq(Nat)
    BY Zenon DEF DState
  <1>2. put \in Nat
    BY <1>1, PutAssumption DEF QState, QueueType
  <1>3. Used(u) \cup free = Linked /\ Used(u) \cap free = {} /\ tailBlock \in Used(u) /\ frontBlock \in Used(u)
    BY <1>1, Zenon DEF QState, Chain
  <1> QED BY <1>1, <1>2, <1>3, QFacts, Zenon

LEMMA UseKept ==
    ASSUME NEW u \in Seq(Nat), InUse(u), UNCHANGED <<frontBlock, tailBlock>>,
           \A c \in Used(u) : c # tailBlock => block'[c].next = block[c].next
    PROVE  InUse(u)'
  <1>1. \A k \in DOMAIN u : u[k] \in Used(u) /\ (k < Len(u) => u[k] # tailBlock)
    <2>1. Len(u) \in DOMAIN u /\ DOMAIN u = 1 .. Len(u)
      BY DEF InUse
    <2> QED BY <2>1 DEF InUse, Used
  <1> QED BY <1>1, Zenon DEF InUse

LEMMA TypeKept ==
    ASSUME DataType, DOMAIN block' = DOMAIN block, \A c \in DOMAIN block : SameHeld(c)
    PROVE  DataType'
  BY Zenon DEF DataType, SameHeld

LEMMA QuietData ==
    ASSUME NEW free, NEW u, DState(free, u), QState(Used(u), free)',
           DOMAIN block' = DOMAIN block, \A c \in DOMAIN block : Same(c),
           UNCHANGED <<frontBlock, tailBlock, result>>, rpc' = "free" <=> rpc = "free",
           Onward, Pending'
    PROVE  DState(free, u)'
  <1>1. /\ u \in Seq(Nat) /\ put \in Nat /\ Used(u) \subseteq DOMAIN block
        /\ Ordered(u) /\ Bounded(u) /\ InUse(u) /\ DataType
    BY DFacts DEF DState
  <1>2. \A c \in DOMAIN block : SameHeld(c) /\ block'[c].next = block[c].next
    BY Zenon DEF Same
  <1>3. Ordered(u)' /\ Bounded(u)'
    BY <1>1, <1>2, HeldKept, Zenon
  <1>4. InUse(u)'
    BY <1>1, <1>2, UseKept, Zenon
  <1>5. DataType'
    BY <1>1, <1>2, TypeKept, Zenon
  <1> QED BY <1>1, <1>3, <1>4, <1>5, Zenon DEF DState

LEMMA PendingKept ==
    ASSUME NEW free, NEW u, DState(free, u), UNCHANGED writer_vars, UNCHANGED frontBlock,
           DOMAIN block' = DOMAIN block, \A c \in DOMAIN block : Same(c), Len(block') = Len(block),
           rpc' = "free" <=> rpc = "free"
    PROVE  Pending'
  <1>1. /\ UNCHANGED <<tailBlock, put, wpc>> /\ tailBlock \in DOMAIN block
        /\ block[tailBlock].next \in DOMAIN block /\ Pending
    BY DFacts, Zenon DEF DState, writer_vars
  <1>2. wpc = "link" => Len(block) \in DOMAIN block
    BY DFacts DEF DState, QState, WriterOK
  <1>3. \A c \in DOMAIN block : Live(c)' = Live(c) /\ block'[c].data = block[c].data
    BY LiveSame, Zenon DEF Same, SameHeld
  <1>4. \A c \in DOMAIN block : block'[c].next = block[c].next /\ block'[c].tail = block[c].tail
    BY Zenon DEF Same, SameHeld
  <1>5. \A c \in DOMAIN block : Numbered(c) => Numbered(c)'
    BY <1>1, <1>3, Zenon DEF Numbered, Same, SameHeld
  <1> QED BY <1>1, <1>2, <1>3, <1>4, <1>5, Zenon DEF Pending

LEMMA QuietWriteData ==
    ASSUME NEW free, NEW u, DState(free, u), Enqueue \/ Full \/ AllocFails
    PROVE  DState(free, u)'
  <1>1. /\ block \in Seq(Block) /\ tailBlock \in DOMAIN block /\ QState(Used(u), free)
    BY DFacts, Zenon DEF DState
  <1>2. DOMAIN block' = DOMAIN block /\ \A c \in DOMAIN block : Same(c)
    <2>1. CASE UNCHANGED block
      BY <2>1, Zenon DEF Same, SameHeld
    <2>2. CASE block' = [block EXCEPT ![tailBlock].localFront = block[tailBlock].front]
      BY <1>1, <2>2, LocalField, Zenon
    <2> QED BY <2>1, <2>2, Zenon DEF Enqueue, Full, AllocFails
  <1>3. UNCHANGED <<frontBlock, tailBlock, result, rpc>>
    BY Zenon DEF Enqueue, Full, AllocFails, Writer, reader_vars
  <1>4. Onward /\ wpc' \in {"idle", "store", "full", "next", "alloc"} /\ (wpc' # "idle" => put' >= 1)
    <2>1. put \in Nat /\ (wpc # "idle" => put >= 1)
      BY DFacts, Zenon DEF DState, Pending
    <2> QED BY <2>1 DEF Onward, Enqueue, Full, AllocFails, Writer
  <1>5. Pending'
    BY <1>4, Zenon DEF Pending
  <1>6. QState(Used(u), free)'
    BY <1>1, EnqueueKeeps, FullKeeps, Zenon
  <1> QED BY <1>2, <1>3, <1>4, <1>5, <1>6, QuietData, Zenon

LEMMA QuietReadData ==
    ASSUME NEW free, NEW u, DState(free, u), TryDequeue \/ LookAhead \/ Recheck \/ ReadNext
    PROVE  DState(free, u)'
  <1>1. /\ block \in Seq(Block) /\ frontBlock \in DOMAIN block /\ block[frontBlock].next \in DOMAIN block
        /\ QState(Used(u), free) /\ DOMAIN block = 1 .. Len(block)
    BY QFacts, DFacts, Zenon DEF DState
  <1>2. DOMAIN block' = DOMAIN block /\ \A c \in DOMAIN block : Same(c)
    <2>1. CASE UNCHANGED block
      BY <2>1, Zenon DEF Same, SameHeld
    <2>2. ASSUME NEW n \in DOMAIN block, block' = [block EXCEPT ![n].localTail = block[n].tail]
          PROVE  DOMAIN block' = DOMAIN block /\ \A c \in DOMAIN block : Same(c)
      BY <1>1, <2>2, LocalField, Zenon
    <2> QED BY <1>1, <2>1, <2>2, Zenon DEF TryDequeue, LookAhead, Recheck, ReadNext
  <1>3. /\ UNCHANGED <<frontBlock, result>> /\ UNCHANGED writer_vars /\ rpc # "free" /\ rpc' # "free"
    BY Zenon DEF TryDequeue, LookAhead, Recheck, ReadNext, Reader
  <1>4. QState(Used(u), free)'
    BY <1>1, TryDequeueKeeps, LookAheadKeeps, RecheckKeeps, ReadNextKeeps, Zenon
  <1>5. Len(block') = Len(block)
    BY <1>1, <1>2, <1>4 DEF QState, QueueType
  <1>6. Pending'
    BY <1>2, <1>3, <1>5, PendingKept, Zenon
  <1>7. Onward /\ UNCHANGED tailBlock
    BY <1>3, Zenon DEF Onward, writer_vars
  <1> QED BY <1>2, <1>3, <1>4, <1>6, <1>7, QuietData, Zenon

(* A step that writes one slot, which then holds no element.               *)
LEMMA SlotWritten ==
    ASSUME NEW free, NEW u, DState(free, u), NEW b \in DOMAIN block, NEW i, NEW v \in Value,
           NEW d, d = [block[b].data EXCEPT ![i] = v],
           NEW r, r = [block[b] EXCEPT !.data = d], block' = [block EXCEPT ![b] = r],
           UNCHANGED <<frontBlock, tailBlock>>, rpc' \in {rpc, "free"}, rpc = "free" => rpc' = "free",
           i \notin Live(b)'
    PROVE  /\ DataType' /\ InUse(u)' /\ Ordered(u)'
           /\ \A c \in DOMAIN block : Live(c)' \subseteq Live(c)
           /\ \A c \in DOMAIN block : \A j \in Live(c)' : block'[c].data[j] = block[c].data[j]
  <1>1. /\ block \in Seq(Block) /\ Used(u) \subseteq DOMAIN block /\ u \in Seq(Nat)
        /\ DataType /\ InUse(u) /\ Ordered(u)
    BY DFacts DEF DState
  <1>2. /\ DOMAIN block' = DOMAIN block /\ \A c \in DOMAIN block : c # b => Same(c)
        /\ block'[b].front = block[b].front /\ block'[b].tail = block[b].tail
        /\ block'[b].size = block[b].size /\ block'[b].next = block[b].next
        /\ block'[b].data = d
    BY <1>1, DataField, Zenon
  <1>3. \A c \in DOMAIN block :
          /\ block'[c].front = block[c].front /\ block'[c].tail = block[c].tail
          /\ block'[c].size = block[c].size /\ block'[c].next = block[c].next
          /\ c # b => block'[c].data = block[c].data
    BY <1>2, Zenon DEF Same, SameHeld
  <1>4. \A c \in DOMAIN block : Live(c)' \subseteq Live(c)
    BY <1>3, Zenon DEF Live
  <1>5. block[b].data \in [0 .. block[b].size - 1 -> Value]
    BY <1>1, Zenon DEF DataType
  <1>6. \A c \in DOMAIN block : \A j \in Live(c)' : block'[c].data[j] = block[c].data[j]
    <2>1. \A j \in Live(b)' : j # i /\ j \in 0 .. block[b].size - 1
      BY <1>3, Zenon DEF Live
    <2> QED BY <1>2, <1>3, <1>5, <2>1
  <1>7. DataType'
    <2>1. d \in [0 .. block[b].size - 1 -> Value]
      BY <1>5, Zenon
    <2> QED BY <1>1, <1>2, <1>3, <2>1, Zenon DEF DataType
  <1>8. InUse(u)'
    BY <1>1, <1>3, UseKept, Zenon
  <1>9. Ordered(u)'
    BY <1>1, <1>3, <1>4, <1>6, OrderKept, Zenon
  <1> QED BY <1>4, <1>6, <1>7, <1>8, <1>9, Zenon

LEMMA StoreData ==
    ASSUME NEW free, NEW u, DState(free, u), Store
    PROVE  DState(free, u)'
  <1>1. /\ block \in Seq(Block) /\ tailBlock \in DOMAIN block /\ QState(Used(u), free) /\ put \in Nat
        /\ Used(u) \subseteq DOMAIN block /\ u \in Seq(Nat) /\ Bounded(u) /\ DataType /\ Pending
        /\ block[tailBlock] \in Block /\ Ring(block[tailBlock])
    BY DFacts DEF DState
  <1> DEFINE t == block[tailBlock].tail
             d == [block[tailBlock].data EXCEPT ![t] = put]
             r == [block[tailBlock] EXCEPT !.data = d]
  <1>2. /\ wpc = "store" /\ wpc' = "publish" /\ UNCHANGED <<tailBlock, put, frontBlock, rpc, result>>
        /\ block' = [block EXCEPT ![tailBlock] = r]
    BY Zenon DEF Store, Writer, reader_vars
  <1>3. put \in Value
    BY <1>1, Zenon DEF QState, QueueType, Value
  <1>a. d = [block[tailBlock].data EXCEPT ![t] = put] /\ r = [block[tailBlock] EXCEPT !.data = d]
    BY Zenon
  <1>b. t = block[tailBlock].tail /\ t \in Nat /\ t < block[tailBlock].size /\ block[tailBlock].size \in Nat
    BY <1>1, SlotRange, Zenon
  <1> HIDE DEF t, d, r
  <1>4. /\ DOMAIN block' = DOMAIN block
        /\ block'[tailBlock].front = block[tailBlock].front /\ block'[tailBlock].tail = t
        /\ block'[tailBlock].data = d
    BY <1>1, <1>2, <1>a, <1>b, DataField, Zenon
  <1>5. t \notin Live(tailBlock)'
    BY <1>2, <1>4 DEF Live, InRange
  <1>6. /\ DataType' /\ InUse(u)' /\ Ordered(u)'
        /\ \A c \in DOMAIN block : Live(c)' \subseteq Live(c)
        /\ \A c \in DOMAIN block : \A j \in Live(c)' : block'[c].data[j] = block[c].data[j]
    BY <1>1, <1>2, <1>3, <1>5, <1>a, SlotWritten, Zenon
  <1>7. Bounded(u)'
    <2>1. Onward
      BY <1>2, Zenon DEF Onward
    <2> QED BY <1>1, <1>2, <1>6, <2>1, BoundKept, Zenon
  <1>8. Pending'
    <2>1. block[tailBlock].data \in [0 .. block[tailBlock].size - 1 -> Value]
      BY <1>1, Zenon DEF DataType
    <2>2. d[t] = put
      BY <1>a, <1>b, <2>1
    <2> QED BY <1>1, <1>2, <1>4, <2>2, Zenon DEF Pending
  <1>9. QState(Used(u), free)'
    BY <1>1, StoreKeeps, Zenon
  <1> QED BY <1>1, <1>6, <1>7, <1>8, <1>9, Zenon DEF DState

(* A message is put behind all others: the blocks in use keep what they    *)
(* have, and the tail block gets a slot that comes last.                   *)
LEMMA PutLast ==
    ASSUME NEW u \in Seq(Nat), InUse(u), Ordered(u), Bounded(u),
           put \in Nat, put >= 1, wpc # "idle", UNCHANGED <<put, result, tailBlock>>, NEW t,
           \A c \in Used(u) : block'[c].front = block[c].front /\ block'[c].data = block[c].data,
           \A c \in Used(u) : c # tailBlock => Live(c)' \subseteq Live(c),
           Live(tailBlock)' \subseteq Live(tailBlock) \cup {t},
           block[tailBlock].data[t] = put, wpc' = "idle",
           \A j \in Live(tailBlock)' : ~Before(block[tailBlock].front, t, j)
    PROVE  Ordered(u)' /\ Bounded(u)'
  <1>1. \A k \in DOMAIN u : u[k] \in Used(u) /\ (k < Len(u) => u[k] # tailBlock)
    <2>1. Len(u) \in DOMAIN u /\ DOMAIN u = 1 .. Len(u)
      BY DEF InUse
    <2> QED BY <2>1 DEF InUse, Used
  <1>2. \A k \in DOMAIN u : \A i \in Live(u[k])' : i \in Live(u[k]) \/ (u[k] = tailBlock /\ i = t)
    BY <1>1, Zenon
  <1>3. \A k \in DOMAIN u : \A i \in Live(u[k]) : block[u[k]].data[i] \in 1 .. put /\ block[u[k]].data[i] < put
    BY Zenon DEF Bounded
  <1>4. ASSUME NEW k \in DOMAIN u, NEW i \in Live(u[k])', NEW j \in Live(u[k])',
               Before(block'[u[k]].front, i, j)
        PROVE  block'[u[k]].data[i] < block'[u[k]].data[j]
    <2>1. block'[u[k]].data = block[u[k]].data /\ Before(block[u[k]].front, i, j)
      BY <1>1, <1>4, Zenon
    <2>2. i \in Live(u[k])
      BY <1>2, <2>1, Zenon
    <2>3. CASE j \in Live(u[k])
      BY <2>1, <2>2, <2>3, Zenon DEF Ordered
    <2>4. CASE u[k] = tailBlock /\ j = t
      BY <1>3, <2>1, <2>2, <2>4, Zenon
    <2> QED BY <1>2, <2>3, <2>4, Zenon
  <1>5. ASSUME NEW k \in DOMAIN u, NEW l \in DOMAIN u, k < l, NEW i \in Live(u[k])', NEW j \in Live(u[l])'
        PROVE  block'[u[k]].data[i] < block'[u[l]].data[j]
    <2>1. block'[u[k]].data = block[u[k]].data /\ block'[u[l]].data = block[u[l]].data
      BY <1>1, Zenon
    <2>2. k < Len(u)
      BY <1>5
    <2>3. i \in Live(u[k])
      BY <1>1, <1>2, <2>2, Zenon
    <2>4. CASE j \in Live(u[l])
      BY <1>5, <2>1, <2>3, <2>4, Zenon DEF Ordered
    <2>5. CASE u[l] = tailBlock /\ j = t
      BY <1>3, <2>1, <2>3, <2>5, Zenon
    <2> QED BY <1>2, <2>4, <2>5, Zenon
  <1>6. result # Empty => result \in 1 .. put /\ result < put
    BY Zenon DEF Bounded
  <1>7. ASSUME NEW k \in DOMAIN u, NEW i \in Live(u[k])'
        PROVE  block'[u[k]].data[i] \in 1 .. put /\ (result # Empty => result < block'[u[k]].data[i])
    <2>1. block'[u[k]].data = block[u[k]].data
      BY <1>1, Zenon
    <2>2. CASE i \in Live(u[k])
      BY <2>1, <2>2, Zenon DEF Bounded
    <2>3. CASE u[k] = tailBlock /\ i = t
      BY <1>6, <2>1, <2>3
    <2> QED BY <1>2, <2>2, <2>3, Zenon
  <1>8. Ordered(u)'
    BY <1>4, <1>5, Zenon DEF Ordered
  <1>9. Bounded(u)'
    BY <1>6, <1>7, Zenon DEF Bounded
  <1> QED BY <1>8, <1>9, Zenon

LEMMA TailField ==
    ASSUME block \in Seq(Block), NEW b \in DOMAIN block, NEW t, NEW r,
           r = [block[b] EXCEPT !.tail = t], block' = [block EXCEPT ![b] = r]
    PROVE  /\ DOMAIN block' = DOMAIN block /\ \A c \in DOMAIN block : c # b => Same(c)
           /\ block'[b].front = block[b].front /\ block'[b].data = block[b].data
           /\ block'[b].size = block[b].size /\ block'[b].next = block[b].next
           /\ block'[b].tail = t
  <1>1. block[b] \in Block
    OBVIOUS
  <1>2. /\ r.front = block[b].front /\ r.tail = t /\ r.size = block[b].size
        /\ r.data = block[b].data /\ r.next = block[b].next
    BY <1>1, Zenon DEF Block
  <1>3. /\ DOMAIN block' = DOMAIN block /\ block'[b] = r
        /\ \A c \in DOMAIN block : c # b => block'[c] = block[c]
    BY Zenon
  <1> QED BY <1>2, <1>3, Zenon DEF Same, SameHeld

LEMMA PublishData ==
    ASSUME NEW free, NEW u, DState(free, u), Publish
    PROVE  DState(free, u)'
  <1>1. /\ block \in Seq(Block) /\ tailBlock \in DOMAIN block /\ QState(Used(u), free) /\ put \in Nat
        /\ Used(u) \subseteq DOMAIN block /\ u \in Seq(Nat) /\ InUse(u) /\ Ordered(u) /\ Bounded(u)
        /\ DataType /\ Pending /\ block[tailBlock] \in Block /\ Ring(block[tailBlock])
    BY DFacts DEF DState
  <1> DEFINE b == block[tailBlock]
             t == b.tail
             g == (b.tail + 1) % b.size
             r == [b EXCEPT !.tail = g]
  <1>2. /\ wpc = "publish" /\ wpc' = "idle" /\ UNCHANGED <<tailBlock, put, frontBlock, rpc, result>>
        /\ block' = [block EXCEPT ![tailBlock] = r]
    BY Zenon DEF Publish, Writer, reader_vars, After
  <1>3. /\ b.size \in Nat /\ b.size >= 2 /\ b.front \in Nat /\ b.front < b.size
        /\ t \in Nat /\ t < b.size
    BY <1>1, SlotRange, Zenon
  <1>4. g = (IF t + 1 = b.size THEN 0 ELSE t + 1) /\ g \in Nat
    BY <1>3, AfterSlot
  <1>5. b.front # g
    <2>1. (b.tail + 1) % b.size # b.localFront
      BY <1>1, <1>2, Zenon DEF QState, WriterOK, After
    <2> QED BY <1>1, <2>1, RingPut, Zenon
  <1>a. r = [block[tailBlock] EXCEPT !.tail = g] /\ b = block[tailBlock] /\ block[tailBlock].tail = t
    BY Zenon
  <1> HIDE DEF r, g, t, b
  <1>6. /\ DOMAIN block' = DOMAIN block /\ \A c \in DOMAIN block : c # tailBlock => Same(c)
        /\ block'[tailBlock].front = b.front /\ block'[tailBlock].data = b.data
        /\ block'[tailBlock].size = b.size /\ block'[tailBlock].next = b.next
        /\ block'[tailBlock].tail = g
    <2>1. /\ DOMAIN block' = DOMAIN block /\ \A c \in DOMAIN block : c # tailBlock => Same(c)
          /\ block'[tailBlock].front = block[tailBlock].front
          /\ block'[tailBlock].data = block[tailBlock].data
          /\ block'[tailBlock].size = block[tailBlock].size
          /\ block'[tailBlock].next = block[tailBlock].next /\ block'[tailBlock].tail = g
      BY <1>1, <1>2, <1>a, TailField, Zenon
    <2> QED BY <1>a, <2>1, Zenon
  <1>7. \A c \in DOMAIN block :
          /\ block'[c].front = block[c].front /\ block'[c].data = block[c].data
          /\ block'[c].size = block[c].size /\ block'[c].next = block[c].next
          /\ c # tailBlock => Live(c)' = Live(c)
    <2>1. \A c \in DOMAIN block : c # tailBlock => SameHeld(c) /\ block'[c].next = block[c].next
      BY <1>6, Zenon DEF Same
    <2>2. \A c \in DOMAIN block : c # tailBlock => Live(c)' = Live(c)
      BY <1>2, <2>1, LiveSame, Zenon
    <2> QED BY <1>6, <1>a, <2>1, <2>2, Zenon DEF SameHeld
  <1>8. ASSUME NEW i \in Live(tailBlock)'
        PROVE  /\ i \in Live(tailBlock) \/ i = t
               /\ ~Before(b.front, t, i)
    <2>1. /\ i \in Nat /\ i < b.size /\ InRange(b.front, i, g)
          /\ ~(rpc = "free" /\ tailBlock = frontBlock /\ i = b.front)
      BY <1>2, <1>3, <1>6 DEF Live
    <2>2. InRange(b.front, i, t) \/ i = t
      BY <1>3, <1>4, <1>5, <2>1, SlotPublished, Zenon
    <2>3. ~Before(b.front, t, i)
      BY <1>3, <2>1, <2>2, OrderPublished DEF Before
    <2>4. InRange(b.front, i, t) => i \in Live(tailBlock)
      BY <1>3, <1>a, <2>1 DEF Live
    <2> QED BY <2>2, <2>3, <2>4, Zenon
  <1>9. b.data[t] = put /\ put >= 1
    BY <1>1, <1>2, <1>a, Zenon DEF Pending
  <1>10. Ordered(u)' /\ Bounded(u)'
    BY <1>1, <1>2, <1>7, <1>8, <1>9, <1>a, PutLast, Zenon
  <1>11. InUse(u)'
    BY <1>1, <1>2, <1>7, UseKept, Zenon
  <1>12. DataType'
    BY <1>1, <1>6, <1>7, Zenon DEF DataType
  <1>13. Pending'
    BY <1>2, Zenon DEF Pending
  <1>14. QState(Used(u), free)'
    BY <1>1, PublishKeeps, Zenon
  <1> QED BY <1>1, <1>10, <1>11, <1>12, <1>13, <1>14, Zenon DEF DState

(* Steps that write blocks that are not in use.                            *)
LEMMA FreeWritten ==
    ASSUME NEW free, NEW u, DState(free, u), \A c \in Used(u) : Same(c),
           UNCHANGED <<frontBlock, tailBlock, rpc, result, put>>, wpc # "idle"
    PROVE  InUse(u)' /\ Ordered(u)' /\ Bounded(u)'
  <1>1. /\ u \in Seq(Nat) /\ put \in Nat /\ InUse(u) /\ Ordered(u) /\ Bounded(u)
    BY DFacts, Zenon DEF DState
  <1>2. \A c \in Used(u) : SameHeld(c) /\ block'[c].next = block[c].next
    BY Zenon DEF Same
  <1>3. Onward
    BY Zenon DEF Onward
  <1>4. Ordered(u)' /\ Bounded(u)'
    BY <1>1, <1>2, <1>3, HeldKept, Zenon
  <1>5. InUse(u)'
    BY <1>1, <1>2, UseKept, Zenon
  <1> QED BY <1>4, <1>5, Zenon

LEMMA StoreNextData ==
    ASSUME NEW free, NEW u, DState(free, u), StoreNext
    PROVE  DState(free, u)'
  <1>1. /\ block \in Seq(Block) /\ QState(Used(u), free) /\ put \in Nat /\ u \in Seq(Nat)
        /\ Used(u) \cap free = {} /\ tailBlock \in Used(u) /\ Used(u) \subseteq DOMAIN block
        /\ DataType /\ Pending
        /\ \A c \in DOMAIN block : block[c] \in Block /\ Ring(block[c])
    BY DFacts DEF DState
  <1> DEFINE n == block[tailBlock].next
             t == block[n].tail
             q == [block[n] EXCEPT !.localFront = block[n].front]
             d == [q.data EXCEPT ![t] = put]
             r == [q EXCEPT !.data = d]
  <1>2. n \in free /\ n \in DOMAIN block
    BY <1>1, DFacts, Zenon DEF StoreNext, Writer, QState, Chain
  <1>3. /\ wpc = "next" /\ wpc' = "publishNext" /\ UNCHANGED <<tailBlock, put, frontBlock, rpc, result>>
        /\ block' = [block EXCEPT ![n] = r]
    BY <1>2, Zenon DEF StoreNext, Writer, reader_vars
  <1>4. put \in Value
    BY <1>1, Zenon DEF QState, QueueType, Value
  <1>5. block[n] \in Block /\ t \in Nat /\ t < block[n].size /\ block[n].size \in Nat
    BY <1>1, <1>2, SlotRange, Zenon
  <1>6. block[n].data \in [0 .. block[n].size - 1 -> Value]
    BY <1>1, <1>2, Zenon DEF DataType
  <1>7. q \in Block /\ q.size = block[n].size /\ q.tail = t /\ q.data = block[n].data
    <2>1. block[n] \in Block /\ Ring(block[n])
      BY <1>1, <1>2, Zenon
    <2> QED BY <2>1, SetLocalFront, Zenon
  <1>a. r = [q EXCEPT !.data = d] /\ d = [q.data EXCEPT ![t] = put]
    BY Zenon
  <1>b. n = block[tailBlock].next /\ t = block[n].tail
    BY Zenon
  <1> HIDE DEF n, t, q, d, r
  <1>8. d \in [0 .. block[n].size - 1 -> Value] /\ d[t] = put
    BY <1>4, <1>5, <1>6, <1>7, <1>a
  <1>9. r.size = block[n].size /\ r.tail = t /\ r.data = d
    BY <1>7, <1>a, Zenon DEF Block
  <1>10. /\ DOMAIN block' = DOMAIN block /\ block'[n] = r
         /\ \A c \in DOMAIN block : c # n => block'[c] = block[c]
    BY <1>2, <1>3, Zenon
  <1>11. \A c \in Used(u) : Same(c)
    BY <1>1, <1>2, <1>10, Zenon DEF Same, SameHeld
  <1>12. InUse(u)' /\ Ordered(u)' /\ Bounded(u)'
    BY <1>3, <1>11, FreeWritten, Zenon
  <1>13. DataType'
    BY <1>1, <1>8, <1>9, <1>10, Zenon DEF DataType
  <1>14. Pending'
    <2>1. block'[tailBlock].next = n
      BY <1>1, <1>11, <1>b, Zenon DEF Same
    <2>2. block'[n].data[block'[n].tail] = put
      BY <1>8, <1>9, <1>10, Zenon
    <2>3. put >= 1
      BY <1>1, <1>3, Zenon DEF Pending
    <2> QED BY <1>3, <2>1, <2>2, <2>3, Zenon DEF Pending
  <1>15. QState(Used(u), free)'
    BY <1>1, StoreNextKeeps, Zenon
  <1> QED BY <1>1, <1>12, <1>13, <1>14, <1>15, Zenon DEF DState

LEMMA PublishNextData ==
    ASSUME NEW free, NEW u, DState(free, u), PublishNext
    PROVE  DState(free, u)'
  <1>1. /\ block \in Seq(Block) /\ QState(Used(u), free) /\ put \in Nat /\ u \in Seq(Nat)
        /\ Used(u) \cap free = {} /\ tailBlock \in Used(u) /\ Used(u) \subseteq DOMAIN block
        /\ DataType /\ Pending /\ frontBlock \in Used(u)
        /\ \A c \in DOMAIN block : block[c] \in Block /\ Ring(block[c])
    BY DFacts DEF DState
  <1>0. PICK n : n = block[tailBlock].next
    BY Zenon
  <1> DEFINE t == block[n].tail
             s == block[n].size
             g == (t + 1) % s
             r == [block[n] EXCEPT !.tail = g]
  <1>2. n \in free /\ n \in DOMAIN block /\ block[n].front = t
    BY <1>0, <1>1, DFacts, Zenon DEF PublishNext, Writer, QState, Chain, IsEmpty
  <1>3. /\ wpc = "publishNext" /\ wpc' = "advance" /\ UNCHANGED <<tailBlock, put, frontBlock, rpc, result>>
        /\ block' = [block EXCEPT ![n] = r]
    BY <1>0, Zenon DEF PublishNext, Writer, reader_vars, After
  <1>4. t \in Nat /\ t < s /\ s \in Nat /\ s >= 2
    BY <1>1, <1>2, SlotRange, Zenon
  <1>5. g = (IF t + 1 = s THEN 0 ELSE t + 1) /\ g \in Nat /\ g # t
    <2> HIDE DEF t, s
    <2>1. g = IF t + 1 = s THEN 0 ELSE t + 1
      BY <1>4, AfterSlot, Zenon
    <2> HIDE DEF g
    <2> QED BY <1>4, <2>1
  <1>a. r = [block[n] EXCEPT !.tail = g]
    BY Zenon
  <1>b. n = block[tailBlock].next /\ t = block[n].tail /\ s = block[n].size
    BY <1>0, Zenon
  <1> HIDE DEF t, s, g, r
  <1>6. /\ DOMAIN block' = DOMAIN block /\ \A c \in DOMAIN block : c # n => Same(c)
        /\ block'[n].front = t /\ block'[n].data = block[n].data
        /\ block'[n].size = s /\ block'[n].tail = g
    BY <1>1, <1>2, <1>3, <1>a, <1>b, TailField, Zenon
  <1>7. \A c \in Used(u) : Same(c)
    BY <1>1, <1>2, <1>6, Zenon
  <1>8. InUse(u)' /\ Ordered(u)' /\ Bounded(u)'
    BY <1>3, <1>7, FreeWritten, Zenon
  <1>9. DataType'
    <2>1. \A c \in DOMAIN block : block'[c].data = block[c].data /\ block'[c].size = block[c].size
      BY <1>6, <1>b, Zenon DEF Same, SameHeld
    <2> QED BY <1>1, <1>6, <2>1, Zenon DEF DataType
  <1>10. block'[n].data[t] = put /\ put >= 1
    BY <1>1, <1>3, <1>6, <1>b, Zenon DEF Pending
  <1>11. ASSUME NEW i \in Live(n)' PROVE i = t
    <2>1. i \in Nat /\ i < s /\ InRange(t, i, g)
      BY <1>4, <1>6 DEF Live
    <2>2. InRange(t, i, t) \/ i = t
      BY <1>4, <1>5, <2>1, SlotPublished, Zenon
    <2> QED BY <1>4, <2>1, <2>2 DEF InRange
  <1>12. Pending'
    <2>1. block'[tailBlock].next = n
      BY <1>1, <1>7, <1>b, Zenon DEF Same
    <2>2. \A i \in Live(n)' : i = block'[n].front /\ block'[n].data[i] = put
      BY <1>6, <1>10, <1>11, Zenon
    <2>3. Numbered(n)'
      BY <1>3, <2>2, Zenon DEF Numbered
    <2> QED BY <1>3, <1>10, <2>1, <2>3, Zenon DEF Pending
  <1>13. QState(Used(u), free)'
    BY <1>1, PublishNextKeeps, Zenon
  <1> QED BY <1>1, <1>8, <1>9, <1>12, <1>13, Zenon DEF DState

LEMMA AllocData ==
    ASSUME NEW free, NEW u, DState(free, u), Alloc
    PROVE  DState(free, u)'
  <1>1. /\ block \in Seq(Block) /\ QState(Used(u), free) /\ put \in Nat /\ u \in Seq(Nat)
        /\ Used(u) \subseteq DOMAIN block /\ DOMAIN block = 1 .. Len(block) /\ Len(block) \in Nat
        /\ DataType /\ Pending
    BY DFacts DEF DState
  <1>2. PICK size : size = IF largest >= MAX_BLOCK_SIZE THEN largest ELSE 2 * largest
    BY Zenon
  <1>3. size \in Nat /\ size >= 2 /\ put \in Value
    BY <1>1, <1>2, InitialAssumption DEF QState, QueueType, Value
  <1> DEFINE e == [i \in 0 .. size - 1 |-> Empty]
             d == [e EXCEPT ![0] = put]
             m == [size |-> size, front |-> 0, localTail |-> 0, tail |-> 0, localFront |-> 0,
                   next |-> 1, data |-> e]
             r == [m EXCEPT !.data = d, !.tail = 1, !.localTail = 1, !.next = block[tailBlock].next]
  <1>4. /\ wpc = "alloc" /\ wpc' = "link" /\ UNCHANGED <<tailBlock, put, frontBlock, rpc, result>>
        /\ block' = Append(block, r)
    BY <1>2, Zenon DEF Alloc, Writer, reader_vars, make_block
  <1>5. d \in [0 .. size - 1 -> Value] /\ d[0] = put
    BY <1>3 DEF Value
  <1> HIDE DEF e, d
  <1>6. r.size = size /\ r.front = 0 /\ r.tail = 1 /\ r.data = d
    BY Zenon
  <1> HIDE DEF r
  <1>7. PICK l : l = Len(block')
    BY Zenon
  <1>8. /\ DOMAIN block' = 1 .. l /\ l = Len(block) + 1 /\ block'[l] = r
        /\ \A c \in DOMAIN block : block'[c] = block[c]
    BY <1>1, <1>4, <1>7
  <1>9. \A c \in Used(u) : Same(c)
    BY <1>1, <1>8, Zenon DEF Same, SameHeld
  <1>10. InUse(u)' /\ Ordered(u)' /\ Bounded(u)'
    BY <1>4, <1>9, FreeWritten, Zenon
  <1>11. DataType'
    <2>1. \A c \in DOMAIN block' : c \in DOMAIN block \/ c = l
      BY <1>1, <1>8
    <2> QED BY <1>1, <1>5, <1>6, <1>8, <2>1, Zenon DEF DataType
  <1>12. ASSUME NEW i \in Live(l)' PROVE i = block'[l].front /\ block'[l].data[i] = put'
    <2>1. i \in 0 .. size - 1 /\ InRange(0, i, 1)
      BY <1>6, <1>8, Zenon DEF Live
    <2>2. i = 0
      BY <1>3, <2>1 DEF InRange
    <2> QED BY <1>4, <1>5, <1>6, <1>8, <2>2, Zenon
  <1>13. Numbered(Len(block))'
    BY <1>7, <1>12, Zenon DEF Numbered, Live
  <1>14. Pending'
    BY <1>1, <1>4, <1>13, Zenon DEF Pending
  <1>15. QState(Used(u), free)'
    BY <1>1, AllocKeeps, Zenon
  <1> QED BY <1>1, <1>10, <1>11, <1>14, <1>15, Zenon DEF DState

(* The new block is linked behind the tail block.                          *)
LEMMA LinkData ==
    ASSUME NEW free, NEW u, DState(free, u), Link, NEW l, l = Len(block)
    PROVE  DState(free \cup {l}, u)'
  <1>1. /\ block \in Seq(Block) /\ QState(Used(u), free) /\ put \in Nat /\ u \in Seq(Nat)
        /\ Used(u) \subseteq DOMAIN block /\ tailBlock \in Used(u) /\ InUse(u) /\ Ordered(u) /\ Bounded(u)
        /\ DOMAIN block = 1 .. Len(block) /\ Len(block) \in Nat /\ DataType /\ Pending
    BY DFacts DEF DState
  <1> DEFINE r == [block[tailBlock] EXCEPT !.next = l]
  <1>2. /\ wpc = "link" /\ wpc' = "advance" /\ UNCHANGED <<tailBlock, put, frontBlock, rpc, result>>
        /\ block' = [block EXCEPT ![tailBlock] = r]
    BY Zenon DEF Link, Writer, reader_vars
  <1>3. block[tailBlock] \in Block /\ l \in DOMAIN block
    BY <1>1, <1>2 DEF QState, WriterOK
  <1>4. /\ r.size = block[tailBlock].size /\ r.front = block[tailBlock].front
        /\ r.tail = block[tailBlock].tail /\ r.data = block[tailBlock].data /\ r.next = l
    BY <1>3, Zenon DEF Block
  <1> HIDE DEF r
  <1>5. /\ DOMAIN block' = DOMAIN block /\ block'[tailBlock] = r
        /\ \A c \in DOMAIN block : c # tailBlock => block'[c] = block[c]
    BY <1>1, <1>2, Zenon
  <1>6. \A c \in DOMAIN block : SameHeld(c)
    BY <1>4, <1>5, Zenon DEF SameHeld
  <1>7. Onward
    BY <1>2, Zenon DEF Onward
  <1>8. Ordered(u)' /\ Bounded(u)'
    BY <1>1, <1>2, <1>6, <1>7, HeldKept, Zenon
  <1>9. InUse(u)'
    BY <1>1, <1>2, <1>5, UseKept, Zenon
  <1>10. DataType'
    BY <1>1, <1>5, <1>6, TypeKept, Zenon
  <1>11. Numbered(l) /\ put >= 1
    BY <1>1, <1>2, Zenon DEF Pending
  <1>12. Live(l)' = Live(l) /\ block'[l].front = block[l].front /\ block'[l].data = block[l].data
    BY <1>2, <1>3, <1>6, LiveSame, Zenon DEF SameHeld
  <1>13. \A i \in Live(l)' : i = block'[l].front /\ block'[l].data[i] = put'
    BY <1>2, <1>11, <1>12, Zenon DEF Numbered
  <1>14. Numbered(block[tailBlock].next)'
    BY <1>2, <1>4, <1>5, <1>13 DEF Numbered, Live
  <1>15. Pending'
    BY <1>2, <1>11, <1>14, Zenon DEF Pending
  <1>16. QState(Used(u), free \cup {l})'
    BY <1>1, LinkKeeps, Zenon
  <1> QED BY <1>1, <1>8, <1>9, <1>10, <1>15, <1>16, Zenon DEF DState

(* The writer goes on to the next block, whose element comes last.         *)
LEMMA AdvanceData ==
    ASSUME NEW free, NEW u, DState(free, u), Advance, NEW n, n = block[tailBlock].next
    PROVE  DState(free \ {n}, Append(u, n))'
  <1> DEFINE v == Append(u, n)
  <1>1. /\ QState(Used(u), free) /\ put \in Nat /\ u \in Seq(Nat) /\ InUse(u) /\ Ordered(u) /\ Bounded(u)
        /\ Used(u) \cap free = {} /\ DataType /\ Pending
    BY DFacts, Zenon DEF DState
  <1>2. /\ wpc = "advance" /\ wpc' = "idle" /\ tailBlock' = n
        /\ UNCHANGED <<block, put, frontBlock, rpc, result>>
    BY Zenon DEF Advance, Writer, reader_vars
  <1>3. n \in free /\ n \in Nat
    BY <1>1, <1>2, DFacts DEF QState, Chain
  <1>4. /\ Len(u) \in Nat /\ DOMAIN u = 1 .. Len(u) /\ Len(u) \in DOMAIN u
    BY <1>1 DEF InUse
  <1>5. /\ v \in Seq(Nat) /\ Len(v) = Len(u) + 1 /\ DOMAIN v = 1 .. Len(v) /\ v[Len(v)] = n
        /\ \A k \in DOMAIN u : v[k] = u[k]
    BY <1>1, <1>3
  <1> HIDE DEF v
  <1>6. \A k \in DOMAIN v : (k \in DOMAIN u /\ k < Len(v)) \/ (k = Len(v) /\ k \notin DOMAIN u)
    BY <1>4, <1>5
  <1>7. Used(v) = Used(u) \cup {n}
    <2>1. \A k \in DOMAIN u : k \in DOMAIN v
      BY <1>4, <1>5
    <2>2. Len(v) \in DOMAIN v
      BY <1>4, <1>5
    <2> QED BY <1>5, <1>6, <2>1, <2>2, Zenon DEF Used
  <1>8. \A k \in DOMAIN u : u[k] # n
    BY <1>1, <1>3, Zenon DEF Used
  <1>9. InUse(v)'
    <2>1. v # <<>> /\ v[1] = frontBlock
      BY <1>1, <1>4, <1>5 DEF InUse
    <2>2. \A k, l \in DOMAIN v : v[k] = v[l] => k = l
      BY <1>1, <1>5, <1>6, <1>8, Zenon DEF InUse
    <2>3. ASSUME NEW k \in DOMAIN v, k < Len(v) PROVE block[v[k]].next = v[k + 1]
      <3>1. CASE k = Len(u)
        BY <1>1, <1>4, <1>5, <3>1, Zenon DEF InUse
      <3>2. CASE k # Len(u)
        <4>1. k \in DOMAIN u /\ k + 1 \in DOMAIN u /\ k < Len(u)
          BY <1>4, <1>5, <2>3, <3>2
        <4> QED BY <1>1, <1>5, <4>1, Zenon DEF InUse
      <3> QED BY <3>1, <3>2, Zenon
    <2> QED BY <1>2, <1>5, <2>1, <2>2, <2>3, Zenon DEF InUse
  <1>10. \A c : Live(c)' = Live(c)
    BY <1>2, Zenon DEF Live
  <1>11. \A i \in Live(n) : i = block[n].front /\ block[n].data[i] = put
    BY <1>1, <1>2, Zenon DEF Pending, Numbered
  <1>12. \A k \in DOMAIN u : \A i \in Live(u[k]) :
           /\ block[u[k]].data[i] \in 1 .. put /\ block[u[k]].data[i] < put
           /\ result # Empty => result < block[u[k]].data[i]
    BY <1>1, <1>2, Zenon DEF Bounded
  <1>13. put >= 1 /\ (result # Empty => result \in 1 .. put /\ result < put)
    BY <1>1, <1>2, Zenon DEF Pending, Bounded
  <1>14. Ordered(v)
    <2>1. ASSUME NEW k \in DOMAIN v, NEW i \in Live(v[k]), NEW j \in Live(v[k]),
                 Before(block[v[k]].front, i, j)
          PROVE  block[v[k]].data[i] < block[v[k]].data[j]
      <3>1. CASE k \in DOMAIN u
        BY <1>1, <1>5, <2>1, <3>1, Zenon DEF Ordered
      <3>2. CASE k = Len(v)
        <4>1. i = block[n].front /\ j = block[n].front
          BY <1>5, <1>11, <3>2, Zenon
        <4>2. block[n].front \in Nat
          BY <1>3, DFacts, SlotRange, Zenon
        <4> QED BY <1>5, <2>1, <3>2, <4>1, <4>2 DEF Before
      <3> QED BY <1>6, <3>1, <3>2, Zenon
    <2>2. ASSUME NEW k \in DOMAIN v, NEW l \in DOMAIN v, k < l, NEW i \in Live(v[k]), NEW j \in Live(v[l])
          PROVE  block[v[k]].data[i] < block[v[l]].data[j]
      <3>1. k \in DOMAIN u
        BY <1>4, <1>5, <2>2
      <3>2. CASE l \in DOMAIN u
        BY <1>1, <1>5, <2>2, <3>1, <3>2, Zenon DEF Ordered
      <3>3. CASE l = Len(v)
        BY <1>5, <1>11, <1>12, <3>1, <3>3, Zenon
      <3> QED BY <1>6, <3>2, <3>3, Zenon
    <2> QED BY <2>1, <2>2, Zenon DEF Ordered
  <1>15. Ordered(v)'
    BY <1>2, <1>10, <1>14, Zenon DEF Ordered
  <1>16. Bounded(v)'
    <2>1. ASSUME NEW k \in DOMAIN v, NEW i \in Live(v[k])
          PROVE  /\ block[v[k]].data[i] \in 1 .. put
                 /\ result # Empty => result < block[v[k]].data[i]
      <3>1. CASE k \in DOMAIN u
        BY <1>5, <1>12, <3>1, Zenon
      <3>2. CASE k = Len(v)
        BY <1>1, <1>5, <1>11, <1>13, <3>2
      <3> QED BY <1>6, <3>1, <3>2, Zenon
    <2> QED BY <1>2, <1>10, <1>13, <2>1, Zenon DEF Bounded
  <1>17. Pending' /\ DataType'
    BY <1>1, <1>2, Zenon DEF Pending, DataType
  <1>18. QState(Used(v), free \ {n})'
    <2>1. QState(Used(u) \cup {n}, free \ {n})'
      BY <1>1, AdvanceKeeps, Zenon
    <2> QED BY <1>7, <2>1, Zenon
  <1>19. DState(free \ {n}, v)'
    BY <1>5, <1>9, <1>15, <1>16, <1>17, <1>18, Zenon DEF DState
  <1> QED BY <1>19, Zenon DEF v

(* The reader goes on to the next block; the one it leaves is empty.       *)
LEMMA MoveData ==
    ASSUME NEW free, NEW u, DState(free, u), Move, NEW f, f = frontBlock
    PROVE  DState(free \cup {f}, Tail(u))'
  <1> DEFINE v == Tail(u)
  <1>1. /\ QState(Used(u), free) /\ u \in Seq(Nat) /\ InUse(u) /\ Ordered(u) /\ Bounded(u)
        /\ DataType /\ Pending
    BY DFacts, Zenon DEF DState
  <1>2. /\ rpc = "move" /\ rpc' = "take" /\ frontBlock' = block[frontBlock].next
        /\ UNCHANGED <<block, put, tailBlock, wpc, result>>
    BY Zenon DEF Move, Reader, writer_vars
  <1>3. f # tailBlock
    BY <1>1, <1>2, Zenon DEF QState, ReaderOK
  <1>4. /\ u # <<>> /\ u[1] = f /\ u[Len(u)] = tailBlock
        /\ \A k, l \in DOMAIN u : u[k] = u[l] => k = l
        /\ \A k \in DOMAIN u : k < Len(u) => block[u[k]].next = u[k + 1]
    BY <1>1, Zenon DEF InUse
  <1>5. Len(u) \in Nat /\ Len(u) >= 2 /\ DOMAIN u = 1 .. Len(u)
    BY <1>1, <1>3, <1>4
  <1>6. /\ v \in Seq(Nat) /\ Len(v) = Len(u) - 1 /\ DOMAIN v = 1 .. Len(v)
        /\ \A k \in DOMAIN v : v[k] = u[k + 1]
    BY <1>1, <1>5
  <1> HIDE DEF v
  <1>7. \A k \in DOMAIN v : k \in Nat /\ k + 1 \in DOMAIN u
    BY <1>5, <1>6
  <1>8. Used(v) = Used(u) \ {f}
    <2>1. ASSUME NEW k \in DOMAIN u, u[k] # f PROVE k - 1 \in DOMAIN v /\ (k - 1) + 1 = k
      BY <1>4, <1>5, <1>6, <2>1
    <2>2. \A k \in DOMAIN v : u[k + 1] # f
      <3>1. \A k \in DOMAIN v : k + 1 # 1 /\ 1 \in DOMAIN u
        BY <1>5, <1>6
      <3> QED BY <1>4, <1>7, <3>1, Zenon
    <2>3. \A x \in Used(v) : x \in Used(u) /\ x # f
      BY <1>6, <1>7, <2>2, Zenon DEF Used
    <2>4. \A x \in Used(u) : x # f => x \in Used(v)
      BY <1>6, <2>1 DEF Used
    <2> QED BY <2>3, <2>4, Zenon
  <1>9. InUse(v)'
    <2>1. v # <<>> /\ v[1] = frontBlock' /\ v[Len(v)] = tailBlock
      <3>1. 1 \in DOMAIN v /\ Len(v) \in DOMAIN v /\ 1 \in DOMAIN u /\ 1 < Len(u)
        BY <1>5, <1>6
      <3> QED BY <1>2, <1>4, <1>5, <1>6, <3>1
    <2>2. \A k, l \in DOMAIN v : v[k] = v[l] => k = l
      BY <1>4, <1>6, <1>7
    <2>3. ASSUME NEW k \in DOMAIN v, k < Len(v) PROVE block[v[k]].next = v[k + 1]
      <3>1. k + 1 \in DOMAIN v /\ k + 1 \in DOMAIN u /\ k + 1 < Len(u)
        BY <1>5, <1>6, <2>3
      <3> QED BY <1>4, <1>6, <3>1, Zenon
    <2> QED BY <1>2, <2>1, <2>2, <2>3, Zenon DEF InUse
  <1>10. \A c : Live(c)' = Live(c)
    BY <1>2, Zenon DEF Live
  <1>11. Ordered(v)
    <2>1. ASSUME NEW k \in DOMAIN v, NEW i \in Live(v[k]), NEW j \in Live(v[k]),
                 Before(block[v[k]].front, i, j)
          PROVE  block[v[k]].data[i] < block[v[k]].data[j]
      BY <1>1, <1>6, <1>7, <2>1, Zenon DEF Ordered
    <2>2. ASSUME NEW k \in DOMAIN v, NEW l \in DOMAIN v, k < l, NEW i \in Live(v[k]), NEW j \in Live(v[l])
          PROVE  block[v[k]].data[i] < block[v[l]].data[j]
      <3>1. k + 1 < l + 1 /\ k + 1 \in DOMAIN u /\ l + 1 \in DOMAIN u
        BY <1>7, <2>2
      <3> QED BY <1>1, <1>6, <2>2, <3>1, Zenon DEF Ordered
    <2> QED BY <2>1, <2>2, Zenon DEF Ordered
  <1>12. Ordered(v)'
    BY <1>2, <1>10, <1>11, Zenon DEF Ordered
  <1>13. Bounded(v)'
    BY <1>1, <1>2, <1>6, <1>7, <1>10, Zenon DEF Bounded
  <1>14. \A c : Numbered(c)' <=> Numbered(c)
    BY <1>2, <1>10, Zenon DEF Numbered
  <1>15. Pending' /\ DataType'
    BY <1>1, <1>2, <1>14, Zenon DEF Pending, DataType
  <1>16. QState(Used(v), free \cup {f})'
    <2>1. QState(Used(u) \ {f}, free \cup {f})'
      BY <1>1, MoveKeeps, Zenon
    <2> QED BY <1>8, <2>1, Zenon
  <1>17. DState(free \cup {f}, v)'
    BY <1>6, <1>9, <1>12, <1>13, <1>15, <1>16, Zenon DEF DState
  <1> QED BY <1>17, Zenon DEF v

(* What the reader does to the front block is not what the writer has      *)
(* prepared: that is in another block, or behind the last element.         *)
LEMMA FrontPending ==
    ASSUME NEW free, NEW u, DState(free, u), UNCHANGED <<tailBlock, put, wpc, frontBlock>>,
           DOMAIN block' = DOMAIN block, Len(block') = Len(block),
           \A c \in DOMAIN block : c # frontBlock => Same(c),
           block'[frontBlock].next = block[frontBlock].next,
           block'[frontBlock].tail = block[frontBlock].tail,
           wpc = "publish" /\ tailBlock = frontBlock =>
             block'[frontBlock].data[block[frontBlock].tail] = block[frontBlock].data[block[frontBlock].tail]
    PROVE  Pending'
  <1>1. /\ QState(Used(u), free) /\ tailBlock \in DOMAIN block /\ Pending
        /\ block[tailBlock].next \in DOMAIN block /\ frontBlock \in Linked
        /\ frontBlock \in Used(u) /\ Used(u) \cap free = {}
        /\ DOMAIN block = 1 .. Len(block) /\ Len(block) \in Nat
    BY DFacts, Zenon DEF DState
  <1>2. wpc \in {"publishNext", "advance"} => block[tailBlock].next # frontBlock
    BY <1>1 DEF QState, Chain
  <1>3. wpc = "link" => Len(block) # frontBlock /\ Len(block) \in DOMAIN block
    <2>1. wpc = "link" => frontBlock \in 1 .. Len(block) - 1
      BY <1>1, Zenon DEF Linked
    <2>2. DOMAIN block = 1 .. Len(block) /\ Len(block) \in Nat
      BY <1>1, Zenon
    <2> QED BY <2>1, <2>2
  <1>4. \A c \in DOMAIN block : c # frontBlock => SameHeld(c)
    BY Zenon DEF Same
  <1>5. \A c \in DOMAIN block : c # frontBlock => Live(c)' = Live(c)
    BY <1>4, Zenon DEF SameHeld, Live
  <1>6. \A c \in DOMAIN block : c # frontBlock => (Numbered(c) => Numbered(c)')
    BY <1>4, <1>5, Zenon DEF SameHeld, Numbered
  <1>7. block'[tailBlock].next = block[tailBlock].next /\ block'[tailBlock].tail = block[tailBlock].tail
    BY <1>1, Zenon DEF Same, SameHeld
  <1>8. wpc = "publish" => block'[tailBlock].data[block'[tailBlock].tail] = put
    BY <1>1, <1>4, <1>7, Zenon DEF SameHeld, Pending
  <1>9. wpc = "publishNext" => LET n == block'[block'[tailBlock].next] IN n.data[n.tail] = put
    BY <1>1, <1>2, <1>4, <1>7, Zenon DEF SameHeld, Pending
  <1>10. wpc = "advance" => Numbered(block[tailBlock].next)'
    <2>1. ASSUME wpc = "advance", NEW n, n = block[tailBlock].next PROVE Numbered(n)'
      BY <1>1, <1>2, <1>6, <2>1, Zenon DEF Pending
    <2> QED BY <1>7, <2>1, Zenon DEF Numbered, Live
  <1>11. wpc = "link" => Numbered(Len(block))'
    <2>1. ASSUME wpc = "link", NEW l, l = Len(block) PROVE Numbered(l)'
      BY <1>1, <1>3, <1>6, <2>1, Zenon DEF Pending
    <2> QED BY <2>1, Zenon DEF Numbered, Live
  <1>12. wpc # "idle" => put >= 1
    BY <1>1, Zenon DEF Pending
  <1> QED BY <1>8, <1>9, <1>10, <1>11, <1>12, Zenon DEF Pending

(* The front slot of the front block holds an element when one is taken.   *)
LEMMA FrontHeld ==
    ASSUME NEW free, NEW u, DState(free, u), rpc \in {"take", "free"}
    PROVE  /\ block[frontBlock].front # block[frontBlock].tail
           /\ InRange(block[frontBlock].front, block[frontBlock].front, block[frontBlock].tail)
  <1>1. block[frontBlock].front # block[frontBlock].localTail
    BY Zenon DEF DState, QState, ReaderOK
  <1>2. PICK b : b = block[frontBlock] /\ b \in Block /\ Ring(b)
    BY DFacts, Zenon
  <1>3. b.front \in Nat /\ b.tail \in Nat /\ b.localTail \in Nat /\ Between(b.front, b.localTail, b.tail)
    BY <1>2, Zenon DEF Block, Ring
  <1> QED BY <1>1, <1>2, <1>3 DEF Between, InRange

(* The first element is moved out: all others come after it.               *)
LEMMA TakeData ==
    ASSUME NEW free, NEW u, DState(free, u), Take
    PROVE  DState(free, u)' /\ result' \in 1 .. put /\ (result # Empty => result < result')
  <1> DEFINE i == block[frontBlock].front
             d == [block[frontBlock].data EXCEPT ![i] = Empty]
             r == [block[frontBlock] EXCEPT !.data = d]
  <1>1. /\ block \in Seq(Block) /\ frontBlock \in DOMAIN block /\ QState(Used(u), free) /\ put \in Nat
        /\ u \in Seq(Nat) /\ InUse(u) /\ Ordered(u) /\ Bounded(u) /\ DataType
        /\ Used(u) \subseteq DOMAIN block /\ block[frontBlock] \in Block /\ Ring(block[frontBlock])
    BY DFacts DEF DState
  <1>2. /\ rpc = "take" /\ rpc' = "free" /\ UNCHANGED <<tailBlock, put, wpc, frontBlock>>
        /\ block' = [block EXCEPT ![frontBlock] = r] /\ result' = block[frontBlock].data[i]
    BY Zenon DEF Take, Reader, writer_vars
  <1>a. d = [block[frontBlock].data EXCEPT ![i] = Empty] /\ r = [block[frontBlock] EXCEPT !.data = d]
        /\ i = block[frontBlock].front
    BY Zenon
  <1> HIDE DEF i, d, r
  <1>3. /\ i \in Nat /\ i < block[frontBlock].size /\ i # block[frontBlock].tail
        /\ block[frontBlock].size \in Nat /\ block[frontBlock].tail \in Nat
        /\ block[frontBlock].tail < block[frontBlock].size
        /\ InRange(i, i, block[frontBlock].tail)
    BY <1>1, <1>2, <1>a, SlotRange, FrontHeld, Zenon
  <1>4. i \in Live(frontBlock)
    BY <1>2, <1>3, <1>a DEF Live
  <1>5. /\ DOMAIN block' = DOMAIN block /\ \A c \in DOMAIN block : c # frontBlock => Same(c)
        /\ block'[frontBlock].front = i /\ block'[frontBlock].tail = block[frontBlock].tail
        /\ block'[frontBlock].size = block[frontBlock].size
        /\ block'[frontBlock].next = block[frontBlock].next /\ block'[frontBlock].data = d
    BY <1>1, <1>2, <1>a, DataField, Zenon
  <1>6. i \notin Live(frontBlock)'
    BY <1>2, <1>5, Zenon DEF Live
  <1>7. /\ DataType' /\ InUse(u)' /\ Ordered(u)'
        /\ \A c \in DOMAIN block : Live(c)' \subseteq Live(c)
        /\ \A c \in DOMAIN block : \A j \in Live(c)' : block'[c].data[j] = block[c].data[j]
    <2>1. Empty \in Value
      BY Zenon DEF Value
    <2> QED BY <1>1, <1>2, <1>6, <1>a, <2>1, SlotWritten, Zenon
  <1>8. Len(u) \in Nat /\ DOMAIN u = 1 .. Len(u) /\ 1 \in DOMAIN u /\ u[1] = frontBlock
    BY <1>1 DEF InUse
  <1>9. /\ result' \in 1 .. put /\ (wpc # "idle" => result' < put)
        /\ result # Empty => result < result'
    BY <1>2, <1>4, <1>8, <1>1, Zenon DEF Bounded
  <1>10. ASSUME NEW k \in DOMAIN u, NEW j \in Live(u[k])'
         PROVE  /\ j \in Live(u[k]) /\ block'[u[k]].data[j] = block[u[k]].data[j]
                /\ result' < block[u[k]].data[j]
    <2>1. u[k] \in DOMAIN block
      BY <1>1, Zenon DEF Used
    <2>2. j \in Live(u[k]) /\ block'[u[k]].data[j] = block[u[k]].data[j]
      BY <1>7, <2>1, Zenon
    <2>3. CASE k = 1
      <3>1. j \in Nat /\ InRange(i, j, block[frontBlock].tail) /\ j # i
        BY <1>2, <1>3, <1>5, <1>6, <1>8, <2>3 DEF Live
      <3>2. Before(i, i, j)
        BY <1>3, <3>1, FrontFirst, Zenon
      <3> QED BY <1>1, <1>2, <1>4, <1>8, <1>a, <2>2, <2>3, <3>2, Zenon DEF Ordered
    <2>4. CASE k # 1
      BY <1>1, <1>2, <1>4, <1>8, <2>2, <2>4 DEF Ordered
    <2> QED BY <2>2, <2>3, <2>4, Zenon
  <1>11. Bounded(u)'
    <2>1. \A k \in DOMAIN u : \A j \in Live(u[k]) :
            block[u[k]].data[j] \in 1 .. put /\ (wpc # "idle" => block[u[k]].data[j] < put)
      BY <1>1, Zenon DEF Bounded
    <2> QED BY <1>2, <1>9, <1>10, <2>1, Zenon DEF Bounded
  <1>12. QState(Used(u), free)'
    BY <1>1, TakeKeeps, Zenon
  <1>13. Len(block') = Len(block)
    BY <1>1, <1>2
  <1>14. Pending'
    <2>1. block[frontBlock].data \in [0 .. block[frontBlock].size - 1 -> Value]
      BY <1>1, Zenon DEF DataType
    <2>2. d[block[frontBlock].tail] = block[frontBlock].data[block[frontBlock].tail]
      BY <1>3, <1>a, <2>1
    <2> QED BY <1>2, <1>5, <1>13, <2>2, FrontPending, Zenon
  <1> QED BY <1>1, <1>7, <1>9, <1>11, <1>12, <1>14, Zenon DEF DState

(* The slot of the element that was moved out is given back.               *)
LEMMA FreeData ==
    ASSUME NEW free, NEW u, DState(free, u), Free
    PROVE  DState(free, u)'
  <1> DEFINE b == block[frontBlock]
             g == (b.front + 1) % b.size
             r == [b EXCEPT !.front = g]
  <1>1. /\ block \in Seq(Block) /\ frontBlock \in DOMAIN block /\ QState(Used(u), free) /\ put \in Nat
        /\ u \in Seq(Nat) /\ InUse(u) /\ Ordered(u) /\ Bounded(u) /\ DataType
        /\ Used(u) \subseteq DOMAIN block /\ b \in Block /\ Ring(b)
    BY DFacts DEF DState
  <1>2. /\ rpc = "free" /\ rpc' = "true" /\ UNCHANGED <<tailBlock, put, wpc, frontBlock, result>>
        /\ block' = [block EXCEPT ![frontBlock] = r]
    BY Zenon DEF Free, Reader, writer_vars, After
  <1>3. /\ b.size \in Nat /\ b.size >= 2 /\ b.front \in Nat /\ b.tail \in Nat
        /\ b.front < b.size /\ b.tail < b.size /\ b.front # b.tail
    BY <1>1, <1>2, SlotRange, FrontHeld, Zenon
  <1>4. r.tail = b.tail /\ r.size = b.size /\ r.data = b.data /\ r.next = b.next /\ r.front = g
    BY <1>1, Zenon DEF Block
  <1> HIDE DEF b
  <1>5. g = (IF b.front + 1 = b.size THEN 0 ELSE b.front + 1) /\ g \in Nat
    BY <1>3, AfterSlot
  <1>a. b = block[frontBlock]
    BY Zenon DEF b
  <1> HIDE DEF g, r
  <1>6. /\ DOMAIN block' = DOMAIN block /\ block'[frontBlock] = r /\ Len(block') = Len(block)
        /\ \A c \in DOMAIN block : c # frontBlock => block'[c] = block[c]
    BY <1>1, <1>2
  <1>7. \A c \in DOMAIN block :
          /\ block'[c].data = block[c].data /\ block'[c].size = block[c].size
          /\ block'[c].tail = block[c].tail /\ block'[c].next = block[c].next
    BY <1>4, <1>6, <1>a, Zenon
  <1>8. ASSUME NEW c \in DOMAIN block, c = frontBlock, NEW j \in Live(c)'
        PROVE  /\ j \in Nat /\ j < b.size /\ InRange(g, j, b.tail) /\ j \in Live(c)
    <2>1. j \in Nat /\ j < b.size /\ InRange(g, j, b.tail)
      BY <1>3, <1>4, <1>6, <1>8 DEF Live
    <2>2. InRange(b.front, j, b.tail) /\ j # b.front
      BY <1>3, <1>5, <2>1, SlotFreed
    <2> QED BY <1>3, <1>8, <1>a, <2>1, <2>2 DEF Live
  <1>9. \A c \in DOMAIN block : Live(c)' \subseteq Live(c)
    <2>1. \A c \in DOMAIN block : c # frontBlock => Live(c)' = Live(c)
      BY <1>2, <1>6, Zenon DEF Live
    <2> QED BY <1>8, <2>1, Zenon
  <1>10. ASSUME NEW c \in DOMAIN block, NEW i \in Live(c)', NEW j \in Live(c)', Before(block'[c].front, i, j)
         PROVE  Before(block[c].front, i, j)
    <2>1. CASE c = frontBlock
      <3>1. Before(g, i, j)
        BY <1>4, <1>6, <1>10, <2>1, Zenon
      <3>2. /\ i \in Nat /\ i < b.size /\ InRange(g, i, b.tail)
            /\ j \in Nat /\ j < b.size /\ InRange(g, j, b.tail)
        BY <1>8, <2>1, Zenon
      <3>3. Before(b.front, i, j)
        BY <1>3, <1>5, <3>1, <3>2, OrderFreed, Zenon
      <3> QED BY <1>a, <2>1, <3>3, Zenon
    <2> QED BY <1>6, <1>10, <2>1, Zenon
  <1>11. Ordered(u)'
    BY <1>1, <1>7, <1>9, <1>10, OrderKept, Zenon
  <1>12. Bounded(u)'
    <2>1. Onward
      BY <1>2, Zenon DEF Onward
    <2> QED BY <1>1, <1>2, <1>7, <1>9, <2>1, BoundKept, Zenon
  <1>13. InUse(u)'
    BY <1>1, <1>2, <1>7, UseKept, Zenon
  <1>14. DataType'
    BY <1>1, <1>6, <1>7, Zenon DEF DataType
  <1>15. Pending'
    <2>1. \A c \in DOMAIN block : c # frontBlock => Same(c)
      BY <1>6, Zenon DEF Same, SameHeld
    <2> QED BY <1>1, <1>2, <1>6, <1>7, <2>1, FrontPending, Zenon
  <1>16. QState(Used(u), free)'
    BY <1>1, FreeKeeps, Zenon
  <1> QED BY <1>1, <1>11, <1>12, <1>13, <1>14, <1>15, <1>16, Zenon DEF DState

LEMMA InitData ==
    ASSUME QueueInit
    PROVE  DState(2 .. BlockCount, <<1>>)
  <1> DEFINE u == <<1>>
             e == [i \in 0 .. BlockSize - 1 |-> Empty]
             m == [size |-> BlockSize, front |-> 0, localTail |-> 0, tail |-> 0, localFront |-> 0,
                   next |-> 1, data |-> e]
  <1>1. BlockSize \in Nat /\ BlockSize >= 2 /\ BlockCount \in Nat /\ BlockCount >= 1
    BY SizeFacts, Zenon
  <1>2. /\ wpc = "idle" /\ frontBlock = 1 /\ tailBlock = 1 /\ put = 0 /\ result = Empty
    BY Zenon DEF QueueInit
  <1>3. block = [i \in 1 .. BlockCount |-> [m EXCEPT !.next = (i % BlockCount) + 1]]
    BY Zenon DEF QueueInit, make_block
  <1>4. e \in [0 .. BlockSize - 1 -> Value]
    BY Zenon DEF Value
  <1> HIDE DEF e
  <1>5. \A c \in DOMAIN block :
          block[c].front = 0 /\ block[c].tail = 0 /\ block[c].size = BlockSize /\ block[c].data = e
    BY <1>3, Zenon
  <1>6. 1 \in DOMAIN block
    BY <1>1, <1>3
  <1>7. DataType
    BY <1>4, <1>5, Zenon DEF DataType
  <1>8. \A c \in DOMAIN block : Live(c) = {}
    BY <1>5 DEF Live, InRange
  <1>9. u \in Seq(Nat) /\ DOMAIN u = {1} /\ Len(u) = 1 /\ u[1] = 1 /\ u # <<>>
    OBVIOUS
  <1> HIDE DEF u, m
  <1>10. Used(u) = {1}
    BY <1>9, Zenon DEF Used
  <1>11. InUse(u)
    BY <1>2, <1>9 DEF InUse
  <1>12. Ordered(u) /\ Bounded(u)
    BY <1>2, <1>6, <1>8, <1>9, Zenon DEF Ordered, Bounded
  <1>13. Pending
    BY <1>2, Zenon DEF Pending
  <1>14. QState({1}, 2 .. BlockCount)
    BY InitKeeps, Zenon
  <1>15. DState(2 .. BlockCount, u)
    BY <1>7, <1>9, <1>10, <1>11, <1>12, <1>13, <1>14, Zenon DEF DState
  <1> QED BY <1>15, Zenon DEF u

-----------------------------------------------------------------------------
DInv == \E free, u : DState(free, u)

(* svc() calls again, or the queue is not touched.                         *)
LEMMA StillData ==
    ASSUME DInv, Again \/ UNCHANGED queue_vars
    PROVE  DInv'
  <1>1. PICK free, u : DState(free, u)
    BY Zenon DEF DInv
  <1>2. /\ UNCHANGED <<block, frontBlock, tailBlock, largest, put, wpc, result>>
        /\ rpc' = rpc \/ (rpc # "free" /\ rpc' = "idle")
    BY Zenon DEF Again, queue_vars, writer_vars, reader_vars
  <1>3. QState(Used(u), free)'
    <2>1. PICK used : used = Used(u) /\ QState(used, free)
      BY <1>1, Zenon DEF DState
    <2> QED BY <2>1, StillQueue, Zenon
  <1>4. /\ \A c \in DOMAIN block : Same(c)
        /\ Onward /\ UNCHANGED writer_vars /\ (rpc' = "free" <=> rpc = "free")
    BY <1>2, Zenon DEF Same, SameHeld, Onward, writer_vars
  <1>5. Pending'
    BY <1>1, <1>2, <1>4, PendingKept, Zenon
  <1>6. DState(free, u)'
    BY <1>1, <1>2, <1>3, <1>4, <1>5, QuietData, Zenon
  <1> QED BY <1>6, Zenon DEF DInv

LEMMA DInvAfter ==
    ASSUME NEW free, NEW u, DState(free, u)'
    PROVE  DInv'
  BY Zenon DEF DInv

LEMMA WriteElements ==
    ASSUME DInv, Enqueue \/ Write
    PROVE  DInv'
  <1>1. PICK free, u : DState(free, u)
    BY Zenon DEF DInv
  <1>2. CASE Enqueue \/ Full \/ AllocFails
    BY <1>1, <1>2, QuietWriteData, DInvAfter, Zenon
  <1>3. CASE Store
    BY <1>1, <1>3, StoreData, DInvAfter, Zenon
  <1>4. CASE Publish
    BY <1>1, <1>4, PublishData, DInvAfter, Zenon
  <1>5. CASE StoreNext
    BY <1>1, <1>5, StoreNextData, DInvAfter, Zenon
  <1>6. CASE PublishNext
    BY <1>1, <1>6, PublishNextData, DInvAfter, Zenon
  <1>7. CASE Alloc
    BY <1>1, <1>7, AllocData, DInvAfter, Zenon
  <1>8. CASE Link
    <2>1. PICK l : l = Len(block)
      BY Zenon
    <2>2. DState(free \cup {l}, u)'
      BY <1>1, <1>8, <2>1, LinkData, Zenon
    <2> QED BY <2>2, DInvAfter, Zenon
  <1>9. CASE Advance
    <2>1. PICK n : n = block[tailBlock].next
      BY Zenon
    <2>2. DState(free \ {n}, Append(u, n))'
      BY <1>1, <1>9, <2>1, AdvanceData, Zenon
    <2> QED BY <2>2, DInvAfter, Zenon
  <1> QED BY <1>2, <1>3, <1>4, <1>5, <1>6, <1>7, <1>8, <1>9, Zenon DEF Write

LEMMA ReadElements ==
    ASSUME DInv, Read
    PROVE  /\ DInv'
           /\ Take => result' \in 1 .. put /\ (result # Empty => result < result')
  <1>1. PICK free, u : DState(free, u)
    BY Zenon DEF DInv
  <1>2. CASE TryDequeue \/ LookAhead \/ Recheck \/ ReadNext
    <2>1. DInv'
      BY <1>1, <1>2, QuietReadData, DInvAfter, Zenon
    <2> QED BY <1>2, <2>1, Zenon DEF TryDequeue, LookAhead, Recheck, ReadNext, Take, Reader
  <1>3. CASE Move
    <2>1. PICK f : f = frontBlock
      BY Zenon
    <2>2. DState(free \cup {f}, Tail(u))'
      BY <1>1, <1>3, <2>1, MoveData, Zenon
    <2> QED BY <1>3, <2>2, DInvAfter, Zenon DEF Move, Take, Reader
  <1>4. CASE Take
    BY <1>1, <1>4, TakeData, DInvAfter, Zenon
  <1>5. CASE Free
    <2>1. DInv'
      BY <1>1, <1>5, FreeData, DInvAfter, Zenon
    <2> QED BY <1>5, <2>1, Zenon DEF Free, Take, Reader
  <1> QED BY <1>2, <1>3, <1>4, <1>5, Zenon DEF Read

(* The elements in the queue ascend from the front block to the tail block *)
(* and are above all that try_dequeue() has returned: true of every state  *)
(* that inner_enqueue() and try_dequeue() reach together.                  *)
THEOREM ElementsAscend == Spec => []DInv
  <1>1. Init => DInv
    BY InitData, Zenon DEF Init, DInv
  <1>2. DInv /\ [Next]_vars => DInv'
    <2> SUFFICES ASSUME DInv, [Next]_vars PROVE DInv'
      BY Zenon
    <2>1. CASE Queue(Enqueue) \/ Queue(Write)
      BY <2>1, WriteElements, Zenon DEF Queue
    <2>2. CASE Queue(Read)
      BY <2>2, ReadElements, Zenon DEF Queue
    <2>3. CASE Again \/ UNCHANGED queue_vars
      BY <2>3, StillData, Zenon
    <2>4. CASE WriteData \/ OpenFile \/ CheckFile \/ ReopenFile \/ Fwrite \/ FwriteFails \/ Stamp
      BY <2>3, <2>4, Zenon DEF WriteData, OpenFile, CheckFile, ReopenFile, Fwrite, FwriteFails, Stamp, File
    <2>5. CASE Hour \/ UNCHANGED vars
      BY <2>3, <2>5, Zenon DEF Hour, vars
    <2> QED BY <2>1, <2>2, <2>3, <2>4, <2>5, Zenon DEF Next, Record
  <1> QED BY <1>1, <1>2, PTL DEF Spec

-----------------------------------------------------------------------------
(* A line that has been taken and is neither written nor dropped yet.      *)
InFlight == rpc = "free" \/ (rpc = "true" /\ fpc \notin {"stamp", "done"})

FileType ==
    /\ file \in Seq([named : Nat, lines : Seq(Nat), bytes : Nat])
    /\ stream \in BOOLEAN /\ line \in Nat /\ hour \in Nat /\ taken \in Seq(Nat)

Position ==
    /\ fpc # "out" => rpc = "true"
    /\ stream => file # <<>> /\ Len(file[Cur].lines) <= line
    /\ fpc \in {"check", "write"} => stream
    /\ fpc = "reopen" => line = 0
    /\ fpc = "write" => line < MaxLine /\ file[Cur].bytes < MaxBytes

Ascending ==
    \A i, j \in DOMAIN file : \A k \in DOMAIN file[i].lines, l \in DOMAIN file[j].lines :
       i < j \/ (i = j /\ k < l) => file[i].lines[k] < file[j].lines[l]

(* What is in the files comes before a line in flight.                     *)
Below ==
    /\ \A n \in Lines : result # Empty /\ n <= result /\ (InFlight => n < result)
    /\ result # Empty => result \in Nat

Accounted ==
    /\ InFlight => taken # <<>> /\ result = taken[Len(taken)] /\ result # Empty
    /\ \A i \in DOMAIN taken : taken[i] \in Lines \cup dropped \/ (i = Len(taken) /\ InFlight)

FileInv == FileType /\ Position /\ FilesBounded /\ Ascending /\ Below /\ Accounted

LEMMA LineOf ==
    ASSUME NEW n
    PROVE  n \in Lines <=> \E i \in DOMAIN file : \E k \in DOMAIN file[i].lines : n = file[i].lines[k]
  BY DEF Lines, Range

LEMMA LineAfter ==
    ASSUME NEW n
    PROVE  n \in Lines' <=> \E i \in DOMAIN file' : \E k \in DOMAIN file'[i].lines : n = file'[i].lines[k]
  BY DEF Lines, Range

LEMMA LineType ==
    ASSUME FileType
    PROVE  /\ Lines \subseteq Nat /\ Cur \in Nat /\ DOMAIN file = 1 .. Cur /\ DOMAIN taken = 1 .. Len(taken)
           /\ \A i \in DOMAIN file : file[i].lines \in Seq(Nat) /\ file[i].bytes \in Nat
  <1>1. \A i \in DOMAIN file : file[i] \in [named : Nat, lines : Seq(Nat), bytes : Nat]
    <2> DEFINE F == [named : Nat, lines : Seq(Nat), bytes : Nat]
    <2>1. file \in Seq(F)
      BY Zenon DEF FileType
    <2> HIDE DEF F
    <2>2. \A i \in DOMAIN file : file[i] \in F
      BY <2>1
    <2> QED BY <2>2, Zenon DEF F
  <1>2. \A i \in DOMAIN file : file[i].lines \in Seq(Nat) /\ file[i].bytes \in Nat
    BY <1>1, Zenon
  <1>3. \A i \in DOMAIN file : \A k \in DOMAIN file[i].lines : file[i].lines[k] \in Nat
    BY <1>2
  <1>4. Lines \subseteq Nat
    BY <1>3, LineOf
  <1> QED BY <1>2, <1>4 DEF FileType, Cur

(* No line is added: files may be created empty, and get bytes of a line   *)
(* that fwrite() did not take whole.                                       *)
LEMMA NoLine ==
    ASSUME Ascending, DOMAIN file \subseteq DOMAIN file',
           \A i \in DOMAIN file : file'[i].lines = file[i].lines,
           \A i \in DOMAIN file' : i \in DOMAIN file \/ file'[i].lines = <<>>
    PROVE  Ascending' /\ Lines' = Lines
  <1>1. \A i \in DOMAIN file' : \A k \in DOMAIN file'[i].lines : i \in DOMAIN file
    OBVIOUS
  <1>2. Ascending'
    BY <1>1, Zenon DEF Ascending
  <1>3. \A n : n \in Lines' <=> n \in Lines
    BY <1>1, LineOf, LineAfter
  <1> QED BY <1>2, <1>3, Zenon

(* The line in flight is dropped.                                          *)
LEMMA DropKeeps ==
    ASSUME FileInv, InFlight, Drop, Lines' = Lines, UNCHANGED <<rpc, result, taken>>, rpc = "true"
    PROVE  Below' /\ Accounted'
  <1>1. ~InFlight' /\ dropped' = dropped \cup {result}
    BY Zenon DEF Drop, InFlight
  <1>2. Below'
    BY <1>1, Zenon DEF FileInv, Below
  <1>3. Accounted'
    BY <1>1, Zenon DEF FileInv, Accounted
  <1> QED BY <1>2, <1>3, Zenon

(* Steps that leave the files and what was taken alone.                    *)
LEMMA QuietFiles ==
    ASSUME FileInv, UNCHANGED <<file, result, taken, dropped>>, InFlight' <=> InFlight, Position',
           line' \in Nat, stream' \in BOOLEAN, hour' \in Nat
    PROVE  FileInv'
  <1>1. FileType' /\ FilesBounded'
    BY Zenon DEF FileInv, FileType, FilesBounded
  <1>2. Ascending' /\ Lines' = Lines
    BY DEF FileInv, Ascending, Lines
  <1>3. Below'
    BY <1>2, Zenon DEF FileInv, Below
  <1>4. Accounted'
    BY <1>2, Zenon DEF FileInv, Accounted
  <1> QED BY <1>1, <1>2, <1>3, <1>4, Zenon DEF FileInv

(* The record thread in the queue.                                         *)
LEMMA ReadFiles ==
    ASSUME FileInv, DInv, Queue(Read)
    PROVE  FileInv'
  <1>1. UNCHANGED <<hour, fpc, file, stream, line, last_write, fails, dropped>>
    BY Zenon DEF Queue, file_vars
  <1>2. fpc = "out" /\ Position'
    <2>1. rpc # "true"
      BY Zenon DEF Queue, Read, TryDequeue, LookAhead, Recheck, ReadNext, Move, Take, Free, Reader
    <2> QED BY <1>1, <2>1, Zenon DEF FileInv, Position, Cur
  <1>3. line' \in Nat /\ stream' \in BOOLEAN /\ hour' \in Nat
    BY <1>1, Zenon DEF FileInv, FileType
  <1>4. CASE Take
    <2>1. /\ ~InFlight /\ InFlight' /\ taken' = Append(taken, result')
      BY <1>1, <1>2, <1>4, Zenon DEF Take, Reader, InFlight
    <2>2. /\ result' \in Nat /\ result' # Empty /\ (result # Empty => result < result')
      <3>1. result' \in 1 .. put /\ (result # Empty => result < result')
        BY <1>4, ReadElements, Zenon DEF Queue
      <3>2. put \in Nat
        <4>1. PICK free, u : DState(free, u)
          BY Zenon DEF DInv
        <4> QED BY <4>1, DFacts, Zenon
      <3> QED BY <3>1, <3>2, PutAssumption
    <2>3. Lines' = Lines /\ Lines \subseteq Nat
      BY <1>1, LineType, Zenon DEF FileInv, Lines
    <2>4. taken \in Seq(Nat) /\ \A i \in DOMAIN taken : taken[i] \in Lines \cup dropped
      BY <2>1, Zenon DEF FileInv, FileType, Accounted
    <2>5. /\ taken' \in Seq(Nat) /\ taken' # <<>> /\ taken'[Len(taken')] = result'
          /\ \A i \in DOMAIN taken' : taken'[i] \in Lines \cup dropped \/ i = Len(taken')
      BY <2>1, <2>2, <2>4
    <2>6. Accounted'
      BY <1>1, <2>1, <2>2, <2>3, <2>5, Zenon DEF Accounted
    <2>7. Below'
      BY <2>2, <2>3 DEF FileInv, Below
    <2>8. FileType' /\ FilesBounded' /\ Ascending'
      BY <1>1, <2>5 DEF FileInv, FileType, FilesBounded, Ascending
    <2> QED BY <1>2, <2>6, <2>7, <2>8, Zenon DEF FileInv
  <1>5. CASE ~Take
    <2>1. UNCHANGED <<result, taken>> /\ (InFlight' <=> InFlight)
      BY <1>1, <1>2, <1>5, Zenon DEF Queue, Read, TryDequeue, LookAhead, Recheck, ReadNext, Move, Free, Reader, InFlight
    <2> QED BY <1>1, <1>2, <1>3, <2>1, QuietFiles, Zenon
  <1> QED BY <1>4, <1>5, Zenon

(* The record thread before, between and after its calls of fopen() and    *)
(* fwrite().                                                               *)
LEMMA BetweenCalls ==
    ASSUME FileInv, WriteData \/ CheckFile \/ Stamp \/ Again
    PROVE  FileInv'
  <1>1. /\ UNCHANGED <<file, result, taken, dropped, hour>>
        /\ line' \in {line, 0} /\ (stream' = stream \/ stream' = FALSE)
    BY Zenon DEF WriteData, CheckFile, Stamp, Again, File, queue_vars, reader_vars
  <1>2. line' \in Nat /\ stream' \in BOOLEAN /\ hour' \in Nat
    <2>1. line \in Nat /\ stream \in BOOLEAN /\ hour \in Nat
      BY Zenon DEF FileInv, FileType
    <2>2. stream' \in BOOLEAN
      BY <1>1, <2>1, Zenon
    <2>3. line' \in Nat /\ hour' \in Nat
      BY <1>1, <2>1
    <2> QED BY <2>2, <2>3, Zenon
  <1>3. FileType
    BY Zenon DEF FileInv
  <1>4. /\ Cur \in Nat /\ DOMAIN file = 1 .. Cur
    BY <1>3, LineType, Zenon
  <1>5. CASE WriteData
    <2>1. /\ rpc = "true" /\ rpc' = rpc /\ fpc = "out" /\ fpc' = IF stream THEN "check" ELSE "open"
          /\ UNCHANGED <<line, stream>>
      BY <1>5, Zenon DEF WriteData, File, queue_vars, reader_vars
    <2>2. InFlight' <=> InFlight
      BY <2>1, Zenon DEF InFlight
    <2>3. Position'
      BY <1>1, <2>1, Zenon DEF FileInv, Position, Cur
    <2> QED BY <1>1, <1>2, <2>2, <2>3, QuietFiles, Zenon
  <1>6. CASE CheckFile
    <2>1. /\ rpc' = rpc /\ fpc = "check"
          /\ \/ stream' = FALSE /\ line' = 0 /\ fpc' = "reopen"
             \/ /\ fpc' = "write" /\ UNCHANGED <<stream, line>>
                /\ ~(line >= MaxLine) /\ ~(file[Cur].bytes >= MaxBytes)
      BY <1>6, Zenon DEF CheckFile, File, queue_vars, reader_vars
    <2>2. InFlight' <=> InFlight
      BY <2>1, Zenon DEF InFlight
    <2>3. rpc = "true" /\ stream /\ file # <<>> /\ Len(file[Cur].lines) <= line /\ line \in Nat
      BY <2>1, Zenon DEF FileInv, FileType, Position
    <2>4. file[Cur].bytes \in Nat
      BY <1>3, <1>4, <2>3, LineType
    <2>5. Position'
      <3>1. CASE fpc' = "reopen"
        BY <2>1, <2>3, <3>1, Zenon DEF Position
      <3>2. CASE fpc' = "write"
        BY <1>1, <2>1, <2>3, <2>4, <3>2, FileAssumption DEF Position, Cur
      <3> QED BY <2>1, <3>1, <3>2, Zenon
    <2> QED BY <1>1, <1>2, <2>2, <2>5, QuietFiles, Zenon
  <1>7. CASE Stamp
    <2>1. rpc' = rpc /\ fpc = "stamp" /\ fpc' = "done" /\ UNCHANGED <<stream, line>>
      BY <1>7, Zenon DEF Stamp, File, queue_vars, reader_vars
    <2>2. InFlight' <=> InFlight
      BY <2>1, Zenon DEF InFlight
    <2>3. Position'
      BY <1>1, <2>1, Zenon DEF FileInv, Position, Cur
    <2> QED BY <1>1, <1>2, <2>2, <2>3, QuietFiles, Zenon
  <1>8. CASE Again
    <2>1. /\ fpc' = "out" /\ UNCHANGED <<stream, line>> /\ rpc' = "idle"
          /\ (rpc = "true" /\ fpc = "done") \/ rpc = "false"
      BY <1>8, Zenon DEF Again
    <2>2. InFlight' <=> InFlight
      BY <2>1, Zenon DEF InFlight
    <2>3. Position'
      BY <1>1, <2>1, Zenon DEF FileInv, Position, Cur
    <2> QED BY <1>1, <1>2, <2>2, <2>3, QuietFiles, Zenon
  <1> QED BY <1>5, <1>6, <1>7, <1>8, Zenon

(* create_file() appends an empty file, or drops the line.                 *)
LEMMA CreateFiles ==
    ASSUME FileInv, OpenFile \/ ReopenFile
    PROVE  FileInv'
  <1> DEFINE new == [named |-> hour, lines |-> <<>>, bytes |-> 0]
  <1>1. /\ UNCHANGED <<result, taken, hour, rpc, line>> /\ fpc \in {"open", "reopen"} /\ rpc = "true"
        /\ \/ /\ file' = Append(file, new) /\ stream' = TRUE /\ UNCHANGED dropped
              /\ fpc' = IF fpc = "open" THEN "check" ELSE "write"
           \/ Drop /\ stream' = FALSE /\ UNCHANGED file
    BY Zenon DEF OpenFile, ReopenFile, create_file, File, queue_vars, reader_vars, FileInv, Position
  <1>2. InFlight
    BY <1>1, Zenon DEF InFlight
  <1>3. /\ FileType /\ FilesBounded /\ Ascending /\ line \in Nat /\ hour \in Nat /\ taken \in Seq(Nat)
        /\ Cur \in Nat /\ DOMAIN file = 1 .. Cur /\ (fpc = "reopen" => line = 0)
    BY LineType, Zenon DEF FileInv, FileType, Position
  <1>4. CASE Drop /\ stream' = FALSE /\ UNCHANGED file
    <2>1. FileType' /\ FilesBounded'
      BY <1>1, <1>3, <1>4, Zenon DEF FileType, FilesBounded
    <2>2. Ascending' /\ Lines' = Lines
      BY <1>3, <1>4 DEF Ascending, Lines
    <2>3. Below' /\ Accounted'
      BY <1>1, <1>2, <1>4, <2>2, DropKeeps, Zenon
    <2>4. Position'
      BY <1>1, <1>4, Zenon DEF Position, Drop
    <2> QED BY <2>1, <2>2, <2>3, <2>4, Zenon DEF FileInv
  <1>5. CASE /\ file' = Append(file, new) /\ stream' = TRUE /\ UNCHANGED dropped
             /\ fpc' = IF fpc = "open" THEN "check" ELSE "write"
    <2> DEFINE F == [named : Nat, lines : Seq(Nat), bytes : Nat]
    <2>1. file \in Seq(F)
      BY <1>3, Zenon DEF FileType
    <2>2. new \in F /\ new.lines = <<>> /\ new.bytes = 0
      BY <1>3
    <2> HIDE DEF F, new
    <2>3. /\ file' \in Seq(F) /\ Len(file') = Cur + 1 /\ DOMAIN file' = 1 .. Cur + 1
          /\ \A i \in DOMAIN file : file'[i] = file[i]
          /\ file'[Cur + 1] = new /\ file' # <<>>
      BY <1>3, <1>5, <2>1, <2>2 DEF Cur
    <2>4. FileType'
      BY <1>1, <1>3, <1>5, <2>3, Zenon DEF FileType, F
    <2>5. Ascending' /\ Lines' = Lines
      <3>1. \A i \in DOMAIN file' : i \in DOMAIN file \/ file'[i].lines = <<>>
        BY <1>3, <2>2, <2>3
      <3> QED BY <1>3, <2>3, <3>1, NoLine
    <2>6. FilesBounded'
      <3>1. \A i \in DOMAIN file' : i \in DOMAIN file \/ (Len(file'[i].lines) = 0 /\ file'[i].bytes = 0)
        BY <1>3, <2>2, <2>3
      <3> QED BY <1>3, <2>3, <3>1, FileAssumption DEF FilesBounded
    <2>7. Position'
      <3>1. Cur' = Cur + 1 /\ file'[Cur'].lines = <<>> /\ file'[Cur'].bytes = 0
        BY <2>2, <2>3, Zenon DEF Cur
      <3>2. Len(file'[Cur'].lines) = 0
        BY <3>1, Zenon
      <3> QED BY <1>1, <1>3, <1>5, <2>3, <3>1, <3>2, FileAssumption DEF Position
    <2>8. InFlight'
      BY <1>1, <1>5, Zenon DEF InFlight
    <2>9. Below' /\ Accounted'
      BY <1>1, <1>2, <1>5, <2>5, <2>8, Zenon DEF FileInv, Below, Accounted
    <2> QED BY <2>4, <2>5, <2>6, <2>7, <2>9, Zenon DEF FileInv
  <1> QED BY <1>1, <1>4, <1>5, Zenon

(* fwrite() takes a part of the line, which is dropped.                    *)
LEMMA FailedWrite ==
    ASSUME FileInv, FwriteFails
    PROVE  FileInv'
  <1>1. /\ UNCHANGED <<result, taken, hour, rpc, line, stream>> /\ fpc = "write" /\ rpc = "true"
        /\ Drop /\ fpc' = "done"
    BY Zenon DEF FwriteFails, Drop, File, queue_vars, reader_vars, FileInv, Position
  <1>2. /\ FileType /\ FilesBounded /\ Ascending /\ line \in Nat /\ hour \in Nat /\ taken \in Seq(Nat)
        /\ stream /\ file # <<>> /\ Len(file[Cur].lines) <= line /\ file[Cur].bytes < MaxBytes
    BY <1>1, Zenon DEF FileInv, FileType, Position
  <1>3. /\ Cur \in Nat /\ DOMAIN file = 1 .. Cur /\ Cur \in DOMAIN file /\ file[Cur].bytes \in Nat
    BY <1>2, LineType DEF FileType
  <1>4. PICK n \in 0 .. LineLen - 1 : file' = [file EXCEPT ![Cur].bytes = @ + n]
    BY Zenon DEF FwriteFails
  <1> DEFINE F == [named : Nat, lines : Seq(Nat), bytes : Nat]
             r == [file[Cur] EXCEPT !.bytes = @ + n]
  <1>5. file \in Seq(F) /\ file[Cur] \in F
    <2>1. file \in Seq(F)
      BY <1>2, Zenon DEF FileType
    <2> HIDE DEF F
    <2> QED BY <1>3, <2>1
  <1>6. r \in F /\ r.lines = file[Cur].lines /\ r.bytes = file[Cur].bytes + n
    <2>1. PICK m \in Nat : m = file[Cur].bytes + n
      BY <1>3, FileAssumption
    <2>2. file[Cur] \in F /\ r = [file[Cur] EXCEPT !.bytes = m]
      BY <1>5, <2>1, Zenon
    <2> HIDE DEF r
    <2> QED BY <2>1, <2>2, Zenon
  <1>7. file' = [file EXCEPT ![Cur] = r]
    BY <1>4, Zenon
  <1> HIDE DEF F, r
  <1>8. /\ file' \in Seq(F) /\ DOMAIN file' = DOMAIN file /\ Len(file') = Len(file)
        /\ \A i \in DOMAIN file : i # Cur => file'[i] = file[i]
        /\ file'[Cur] = r
    BY <1>3, <1>5, <1>6, <1>7
  <1>9. \A i \in DOMAIN file : file'[i].lines = file[i].lines
    BY <1>6, <1>8, Zenon
  <1>10. FileType'
    BY <1>1, <1>2, <1>8, Zenon DEF FileType, F
  <1>11. Ascending' /\ Lines' = Lines
    BY <1>2, <1>8, <1>9, NoLine, Zenon
  <1>12. FilesBounded'
    <2>1. r.bytes < MaxBytes + LineLen
      BY <1>2, <1>3, <1>6, FileAssumption
    <2> QED BY <1>2, <1>8, <1>9, <2>1, Zenon DEF FilesBounded
  <1>13. Position'
    <2>1. Cur' = Cur /\ file' # <<>>
      BY <1>2, <1>3, <1>8 DEF Cur
    <2> QED BY <1>1, <1>2, <1>3, <1>9, <2>1, Zenon DEF Position
  <1>14. Below' /\ Accounted'
    <2>1. InFlight
      BY <1>1, Zenon DEF InFlight
    <2> QED BY <1>1, <1>11, <2>1, DropKeeps, Zenon
  <1> QED BY <1>10, <1>11, <1>12, <1>13, <1>14, Zenon DEF FileInv

(* fwrite() takes the line: it follows all that are in the files.          *)
LEMMA GoodWrite ==
    ASSUME FileInv, Fwrite
    PROVE  FileInv'
  <1>1. /\ UNCHANGED <<result, taken, hour, rpc, stream, dropped>> /\ fpc = "write" /\ rpc = "true"
        /\ fpc' = "stamp" /\ line' = line + 1
    BY Zenon DEF Fwrite, File, queue_vars, reader_vars, FileInv, Position
  <1>2. /\ FileType /\ FilesBounded /\ Ascending /\ line \in Nat /\ hour \in Nat /\ taken \in Seq(Nat)
        /\ stream /\ file # <<>> /\ Len(file[Cur].lines) <= line /\ file[Cur].bytes < MaxBytes /\ line < MaxLine
    BY <1>1, Zenon DEF FileInv, FileType, Position
  <1>3. /\ Cur \in Nat /\ DOMAIN file = 1 .. Cur /\ Cur \in DOMAIN file
        /\ file[Cur].bytes \in Nat /\ file[Cur].lines \in Seq(Nat) /\ Lines \subseteq Nat
    BY <1>2, LineType DEF FileType
  <1>4. /\ InFlight /\ ~InFlight'
    BY <1>1, Zenon DEF InFlight
  <1>5. /\ result \in Nat /\ result # Empty /\ \A n \in Lines : n < result
        /\ \A i \in DOMAIN taken : taken[i] \in Lines \cup dropped \/ taken[i] = result
    BY <1>4, Zenon DEF FileInv, Below, Accounted
  <1> DEFINE F == [named : Nat, lines : Seq(Nat), bytes : Nat]
             s == file[Cur].lines
             t == Append(s, result)
             r == [file[Cur] EXCEPT !.lines = t, !.bytes = @ + LineLen]
  <1>6. file \in Seq(F) /\ file[Cur] \in F
    <2>1. file \in Seq(F)
      BY <1>2, Zenon DEF FileType
    <2> HIDE DEF F
    <2> QED BY <1>3, <2>1
  <1>7. file' = [file EXCEPT ![Cur] = r]
    BY Zenon DEF Fwrite
  <1>8. /\ t \in Seq(Nat) /\ Len(t) = Len(s) + 1 /\ DOMAIN t = 1 .. Len(s) + 1 /\ t[Len(s) + 1] = result
        /\ DOMAIN s = 1 .. Len(s) /\ Len(s) \in Nat /\ \A k \in DOMAIN s : t[k] = s[k]
    BY <1>3, <1>5
  <1>9. r \in F /\ r.lines = t /\ r.bytes = file[Cur].bytes + LineLen
    <2>1. PICK m \in Nat : m = file[Cur].bytes + LineLen
      BY <1>3, FileAssumption
    <2>2. file[Cur] \in F /\ r = [file[Cur] EXCEPT !.lines = t, !.bytes = m] /\ t \in Seq(Nat)
      BY <1>6, <1>8, <2>1, Zenon
    <2> HIDE DEF r, t
    <2> QED BY <2>1, <2>2, Zenon
  <1>a. s = file[Cur].lines
    BY Zenon
  <1> HIDE DEF F, r, s, t
  <1>10. /\ file' \in Seq(F) /\ DOMAIN file' = DOMAIN file /\ Len(file') = Len(file)
         /\ \A i \in DOMAIN file : i # Cur => file'[i] = file[i]
         /\ file'[Cur] = r
    BY <1>3, <1>6, <1>7, <1>9
  <1>11. FileType'
    BY <1>1, <1>2, <1>10 DEF FileType, F
  <1>12. ASSUME NEW i \in DOMAIN file, NEW k \in DOMAIN file'[i].lines
         PROVE  \/ k \in DOMAIN file[i].lines /\ file'[i].lines[k] = file[i].lines[k]
                                              /\ file[i].lines[k] \in Lines
                \/ i = Cur /\ k = Len(s) + 1 /\ file'[i].lines[k] = result
    <2>1. CASE i # Cur
      BY <1>10, <2>1, LineOf, Zenon
    <2>2. CASE i = Cur
      <3>1. k \in 1 .. Len(s) + 1 /\ file'[i].lines = t
        BY <1>8, <1>9, <1>10, <2>2, Zenon
      <3>2. CASE k = Len(s) + 1
        BY <1>8, <2>2, <3>1, <3>2, Zenon
      <3>3. CASE k \in DOMAIN s
        BY <1>8, <1>a, <2>2, <3>1, <3>3, LineOf, Zenon
      <3> QED BY <1>8, <3>1, <3>2, <3>3
    <2> QED BY <2>1, <2>2, Zenon
  <1>13. Ascending'
    <2> SUFFICES ASSUME NEW i \in DOMAIN file, NEW j \in DOMAIN file,
                        NEW k \in DOMAIN file'[i].lines, NEW l \in DOMAIN file'[j].lines,
                        i < j \/ (i = j /\ k < l)
                 PROVE  file'[i].lines[k] < file'[j].lines[l]
      BY <1>10, Zenon DEF Ascending
    <2>1. i \in Nat /\ j \in Nat /\ i <= Cur /\ j <= Cur
      BY <1>3
    <2>2. CASE i = Cur /\ k = Len(s) + 1
      <3>1. l \in 1 .. Len(s) + 1 /\ j = i
        BY <1>3, <1>8, <1>9, <1>10, <2>1, <2>2
      <3> QED BY <1>8, <2>1, <2>2, <3>1
    <2>3. CASE ~(i = Cur /\ k = Len(s) + 1)
      <3>1. k \in DOMAIN file[i].lines /\ file'[i].lines[k] = file[i].lines[k] /\ file[i].lines[k] \in Lines
        BY <1>12, <2>3, Zenon
      <3>2. CASE j = Cur /\ l = Len(s) + 1
        BY <1>5, <1>12, <1>8, <1>9, <1>10, <3>1, <3>2, Zenon
      <3>3. CASE ~(j = Cur /\ l = Len(s) + 1)
        BY <1>2, <1>12, <3>1, <3>3, Zenon DEF Ascending
      <3> QED BY <3>2, <3>3, Zenon
    <2> QED BY <2>2, <2>3, Zenon
  <1>14. \A n : n \in Lines' <=> n \in Lines \cup {result}
    <2>1. ASSUME NEW n \in Lines' PROVE n \in Lines \cup {result}
      BY <1>10, <1>12, LineAfter
    <2>2. result \in Lines'
      <3>1. PICK c \in DOMAIN file' : c = Cur /\ file'[c].lines = t
        BY <1>3, <1>9, <1>10, Zenon
      <3>2. Len(s) + 1 \in DOMAIN file'[c].lines /\ file'[c].lines[Len(s) + 1] = result
        BY <1>8, <3>1
      <3> QED BY <3>2, LineAfter, Zenon
    <2>3. ASSUME NEW n \in Lines PROVE n \in Lines'
      <3>1. PICK i \in DOMAIN file : \E k \in DOMAIN file[i].lines : n = file[i].lines[k]
        BY LineOf, Zenon
      <3>2. PICK k \in DOMAIN file[i].lines : n = file[i].lines[k]
        BY <3>1, Zenon
      <3>3. k \in DOMAIN file'[i].lines /\ file'[i].lines[k] = n
        <4>1. CASE i # Cur
          BY <1>10, <3>2, <4>1, Zenon
        <4>2. CASE i = Cur
          <5>1. file'[i].lines = t /\ file[i].lines = s
            BY <1>9, <1>10, <1>a, <4>2, Zenon
          <5> QED BY <1>8, <3>2, <5>1
        <4> QED BY <4>1, <4>2, Zenon
      <3> QED BY <1>10, <3>3, LineAfter, Zenon
    <2> QED BY <2>1, <2>2, <2>3, Zenon
  <1>15. Below'
    <2>1. ASSUME NEW n \in Lines' PROVE n <= result
      <3>1. n \in Lines \/ n = result
        BY <1>14, Zenon
      <3>2. CASE n \in Lines
        <4>1. n \in Nat /\ result \in Nat /\ n < result
          BY <1>3, <1>5, <3>2, Zenon
        <4> QED BY <4>1
      <3>3. CASE n = result
        BY <1>5, <3>3
      <3> QED BY <3>1, <3>2, <3>3, Zenon
    <2> QED BY <1>1, <1>4, <1>5, <2>1, Zenon DEF Below
  <1>16. Accounted'
    BY <1>1, <1>4, <1>5, <1>14, Zenon DEF Accounted
  <1>17. FilesBounded'
    <2>1. r.bytes < MaxBytes + LineLen /\ Len(r.lines) <= MaxLine
      <3>1. Len(s) <= line /\ Len(r.lines) = Len(s) + 1
        BY <1>2, <1>8, <1>9, <1>a, Zenon
      <3>2. Len(r.lines) <= MaxLine
        BY <1>2, <1>8, <3>1, FileAssumption
      <3> QED BY <1>2, <1>3, <1>9, <3>2, FileAssumption
    <2> QED BY <1>2, <1>10, <2>1, Zenon DEF FilesBounded
  <1>18. Position'
    <2>1. Cur' = Cur /\ file' # <<>> /\ Len(file'[Cur].lines) <= line + 1
      BY <1>2, <1>3, <1>8, <1>9, <1>10, <1>a DEF Cur
    <2> QED BY <1>1, <1>2, <2>1, Zenon DEF Position
  <1> QED BY <1>11, <1>13, <1>15, <1>16, <1>17, <1>18, Zenon DEF FileInv

(* Steps of the reactor thread and of the clock.                           *)
LEMMA OtherSteps ==
    ASSUME FileInv, Queue(Enqueue) \/ Queue(Write) \/ Hour \/ UNCHANGED vars
    PROVE  FileInv'
  <1>1. /\ UNCHANGED <<file, result, taken, dropped, fpc, rpc, line, stream>>
        /\ hour' = hour \/ hour' = hour + 1
    BY Zenon DEF Queue, Enqueue, Write, Store, Publish, Full, StoreNext, PublishNext, Alloc, AllocFails, Link,
           Advance, Writer, Hour, vars, file_vars, queue_vars, reader_vars
  <1>2. line' \in Nat /\ stream' \in BOOLEAN /\ hour' \in Nat
    BY <1>1 DEF FileInv, FileType
  <1>3. InFlight' <=> InFlight
    BY <1>1, Zenon DEF InFlight
  <1>4. Position'
    BY <1>1, Zenon DEF FileInv, Position, Cur
  <1> QED BY <1>1, <1>2, <1>3, <1>4, QuietFiles, Zenon

LEMMA NoFiles ==
    ASSUME Init
    PROVE  FileInv
  <1>1. /\ fpc = "out" /\ rpc = "idle" /\ file = <<>> /\ stream = FALSE /\ line = 0 /\ hour = 0
        /\ taken = <<>> /\ result = Empty
    BY Zenon DEF Init, QueueInit
  <1>2. FileType /\ FilesBounded /\ Ascending
    <2>1. \A i \in DOMAIN file : FALSE
      BY <1>1
    <2>2. FilesBounded /\ Ascending
      BY <2>1, Zenon DEF FilesBounded, Ascending
    <2>a. stream \in BOOLEAN
      BY <1>1, Zenon
    <2>3. stream \in BOOLEAN /\ line \in Nat /\ hour \in Nat /\ taken \in Seq(Nat)
      BY <1>1, <2>a
    <2>4. file \in Seq([named : Nat, lines : Seq(Nat), bytes : Nat])
      BY <1>1
    <2> QED BY <2>2, <2>3, <2>4, Zenon DEF FileType
  <1>3. Lines = {} /\ ~InFlight
    BY <1>1, LineOf DEF InFlight
  <1>4. Position
    BY <1>1, Zenon DEF Position
  <1>5. Below /\ Accounted
    BY <1>1, <1>3 DEF Below, Accounted
  <1> QED BY <1>2, <1>4, <1>5, Zenon DEF FileInv

(* What write_data(), check_file() and create_file() keep true of the      *)
(* files and of the line in hand, together with what the queue promises.   *)
THEOREM FilesInvariant == Spec => []FileInv
  <1>1. Init => FileInv
    BY NoFiles, Zenon
  <1>2. FileInv /\ DInv /\ [Next]_vars => FileInv'
    <2> SUFFICES ASSUME FileInv, DInv, [Next]_vars PROVE FileInv'
      BY Zenon
    <2>1. CASE Queue(Enqueue) \/ Queue(Write) \/ Hour \/ UNCHANGED vars
      BY <2>1, OtherSteps, Zenon
    <2>2. CASE Queue(Read)
      BY <2>2, ReadFiles, Zenon
    <2>3. CASE WriteData \/ CheckFile \/ Stamp \/ Again
      BY <2>3, BetweenCalls, Zenon
    <2>4. CASE OpenFile \/ ReopenFile
      BY <2>4, CreateFiles, Zenon
    <2>5. CASE Fwrite
      BY <2>5, GoodWrite, Zenon
    <2>6. CASE FwriteFails
      BY <2>6, FailedWrite, Zenon
    <2> QED BY <2>1, <2>2, <2>3, <2>4, <2>5, <2>6, Zenon DEF Next, Record
  <1> QED BY <1>1, <1>2, ElementsAscend, PTL DEF Spec

(* No file has more than file_max_line lines, and none goes on growing     *)
(* after it has reached file_max_size: for any limits, and however often   *)
(* fopen() and fwrite() fail.                                              *)
THEOREM BoundedFiles == Spec => []FilesBounded
  <1>1. FileInv => FilesBounded
    BY Zenon DEF FileInv
  <1> QED BY <1>1, FilesInvariant, PTL

(* The files hold the lines in the order in which put_msg() was called,    *)
(* each once, and what is in no file was dropped after an error: for any   *)
(* size of the queue, whenever the two threads run.                        *)
THEOREM LinesInOrder == Spec => []WrittenInOrder
  <1>1. ASSUME FileInv PROVE WrittenInOrder
    <2>1. Ascending /\ Accounted
      BY <1>1, Zenon DEF FileInv
    <2>2. fpc = "out" /\ rpc # "true" => \A i \in DOMAIN taken : rpc = "free" \/ taken[i] \in Lines \cup dropped
      BY <2>1, Zenon DEF Accounted, InFlight
    <2> QED BY <2>1, <2>2, Zenon DEF WrittenInOrder, Ascending
  <1> QED BY <1>1, FilesInvariant, PTL

=============================================================================

-------------------------- MODULE ReaderWriterQueue -------------------------
(***************************************************************************)
(* The lock-free queue (one writer thread, one reader thread) behind the   *)
(* record threads: a ring of blocks, each a ring of slots.  The writer     *)
(* owns the tails, the reader the fronts; each also reads what the other   *)
(* owns.  One step is one access to a word that both threads use, together *)
(* with what the thread does on its own before the next; the fences of the *)
(* code are taken to make these accesses sequentially consistent.          *)
(***************************************************************************)
EXTENDS Integers, Sequences, Functions

CONSTANTS
    MaxSize,         \* maxSize of the constructor, 1000000 in the code
    MAX_BLOCK_SIZE,  \* 512 in the code
    MaxPut,          \* bound: messages the writer puts
    Empty            \* a slot that holds no element

ASSUME SizeAssumption == MaxSize \in Nat \ {0} /\ \E k \in 1 .. 16 : MAX_BLOCK_SIZE = 2 ^ k
ASSUME PutAssumption == MaxPut \in Nat /\ Empty \notin Nat

VARIABLES
    block,       \* the blocks, in the order of their allocation
    frontBlock,  \* the block the reader takes from
    tailBlock,   \* the block the writer puts to
    largest,     \* largestBlockSize
    put,         \* how many messages the writer has begun to put; the last is put
    wpc,         \* where the writer is in inner_enqueue()
    rpc,         \* where the reader is in try_dequeue()
    result,      \* what try_dequeue() returned last
    taken        \* history: what it returned

writer_vars == <<tailBlock, largest, put, wpc>>
reader_vars == <<frontBlock, rpc, result, taken>>
queue_vars == <<block, writer_vars, reader_vars>>

-----------------------------------------------------------------------------
ceilToPow2(x) == CHOOSE p \in {2 ^ k : k \in 0 .. 20} : x <= p /\ p < 2 * x

make_block(size) ==
    [size |-> size, front |-> 0, localTail |-> 0, tail |-> 0, localFront |-> 0,
     next |-> 1, data |-> [i \in 0 .. size - 1 |-> Empty]]

Initial == ceilToPow2(MaxSize + 1)

(* MaxSize is in the range that ceilToPow2() is modelled for.              *)
ASSUME InitialAssumption ==
    Initial \in Nat /\ Initial >= 2 /\ MAX_BLOCK_SIZE \in Nat /\ MAX_BLOCK_SIZE >= 2

Several == Initial > 2 * MAX_BLOCK_SIZE
BlockSize == IF Several THEN MAX_BLOCK_SIZE ELSE Initial
BlockCount == IF Several THEN (MaxSize + MAX_BLOCK_SIZE * 2 - 3) \div (MAX_BLOCK_SIZE - 1) ELSE 1

(* The constructor: enough blocks for MaxSize elements, linked in a circle.*)
QueueInit ==
    /\ block = [i \in 1 .. BlockCount |-> [make_block(BlockSize) EXCEPT !.next = (i % BlockCount) + 1]]
    /\ frontBlock = 1 /\ tailBlock = 1 /\ largest = BlockSize
    /\ put = 0 /\ wpc = "idle"
    /\ rpc = "idle" /\ result = Empty /\ taken = <<>>

-----------------------------------------------------------------------------
(* inner_enqueue<CanAlloc>(), step by step.                                *)

After(b, i) == (i + 1) % block[b].size

Writer(step) == wpc = step /\ UNCHANGED reader_vars

(* The writer tries its own copy of the front first, and reads the front   *)
(* only when the block looks full.                                         *)
Enqueue ==
    LET b == block[tailBlock]
        end == After(tailBlock, b.tail)
    IN /\ Writer("idle") /\ put < MaxPut
       /\ put' = put + 1
       /\ IF end # b.localFront
          THEN wpc' = "store" /\ UNCHANGED block
          ELSE /\ block' = [block EXCEPT ![tailBlock].localFront = b.front]
               /\ wpc' = IF end # b.front THEN "store" ELSE "full"
       /\ UNCHANGED <<tailBlock, largest>>

Store ==
    /\ Writer("store") /\ wpc' = "publish"
    /\ block' = [block EXCEPT ![tailBlock].data[block[tailBlock].tail] = put]
    /\ UNCHANGED <<tailBlock, largest, put>>

Publish ==
    /\ Writer("publish") /\ wpc' = "idle"
    /\ block' = [block EXCEPT ![tailBlock].tail = After(tailBlock, @)]
    /\ UNCHANGED <<tailBlock, largest, put>>

(* Mutant: a full block is followed by the next one even when the reader   *)
(* still is in it.                                                         *)
Full_NoCheck ==
    /\ Writer("full")
    /\ wpc' = IF Len(block) > 1 THEN "next" ELSE "alloc"
    /\ UNCHANGED <<block, tailBlock, largest, put>>

(* The block ahead is free unless the reader is in it.                     *)
Full ==
    /\ Writer("full")
    /\ wpc' = IF block[tailBlock].next # frontBlock THEN "next" ELSE "alloc"
    /\ UNCHANGED <<block, tailBlock, largest, put>>

StoreNext ==
    LET n == block[tailBlock].next IN
    /\ Writer("next") /\ wpc' = "publishNext"
    /\ block' = [block EXCEPT ![n].localFront = block[n].front, ![n].data[block[n].tail] = put]
    /\ UNCHANGED <<tailBlock, largest, put>>

PublishNext ==
    LET n == block[tailBlock].next IN
    /\ Writer("publishNext") /\ wpc' = "advance"
    /\ block' = [block EXCEPT ![n].tail = After(n, @)]
    /\ UNCHANGED <<tailBlock, largest, put>>

(* Mutant: the tail of the new block is not set.                           *)
Alloc_NoTail ==
    LET size == IF largest >= MAX_BLOCK_SIZE THEN largest ELSE 2 * largest IN
    /\ Writer("alloc") /\ wpc' = "link"
    /\ largest' = size
    /\ block' = Append(block, [make_block(size) EXCEPT !.data[0] = put, !.next = block[tailBlock].next])
    /\ UNCHANGED <<tailBlock, put>>

(* A new block, still unreachable, with the element in its first slot.     *)
Alloc ==
    LET size == IF largest >= MAX_BLOCK_SIZE THEN largest ELSE 2 * largest IN
    /\ Writer("alloc") /\ wpc' = "link"
    /\ largest' = size
    /\ block' = Append(block, [make_block(size) EXCEPT !.data[0] = put, !.tail = 1, !.localTail = 1,
                                                       !.next = block[tailBlock].next])
    /\ UNCHANGED <<tailBlock, put>>

(* make_block() gets no memory: enqueue() returns false, which put_msg()   *)
(* does not look at.                                                       *)
AllocFails ==
    /\ Writer("alloc") /\ wpc' = "idle"
    /\ UNCHANGED <<block, tailBlock, largest, put>>

Link ==
    /\ Writer("link") /\ wpc' = "advance"
    /\ block' = [block EXCEPT ![tailBlock].next = Len(block)]
    /\ UNCHANGED <<tailBlock, largest, put>>

Advance ==
    /\ Writer("advance") /\ wpc' = "idle"
    /\ tailBlock' = block[tailBlock].next
    /\ UNCHANGED <<block, largest, put>>

Write == Store \/ Publish \/ Full \/ StoreNext \/ PublishNext \/ Alloc \/ AllocFails \/ Link \/ Advance

-----------------------------------------------------------------------------
(* try_dequeue(), step by step.                                            *)
Reader(step) == rpc = step /\ UNCHANGED writer_vars

TryDequeue ==
    LET b == block[frontBlock] IN
    /\ Reader("idle")
    /\ IF b.front # b.localTail
       THEN rpc' = "take" /\ UNCHANGED block
       ELSE /\ block' = [block EXCEPT ![frontBlock].localTail = b.tail]
            /\ rpc' = IF b.front # b.tail THEN "take" ELSE "empty"
    /\ UNCHANGED <<frontBlock, result, taken>>

(* Mutant: the front block is not looked at again.                         *)
LookAhead_NoRecheck ==
    /\ Reader("empty")
    /\ rpc' = IF frontBlock # tailBlock THEN "ahead" ELSE "false"
    /\ UNCHANGED <<block, frontBlock, result, taken>>

(* Mutant: an empty front block is taken for an empty queue.               *)
LookAhead_Never ==
    /\ Reader("empty") /\ rpc' = "false"
    /\ UNCHANGED <<block, frontBlock, result, taken>>

(* The front block was empty: is there another one?                        *)
LookAhead ==
    /\ Reader("empty")
    /\ rpc' = IF frontBlock # tailBlock THEN "recheck" ELSE "false"
    /\ UNCHANGED <<block, frontBlock, result, taken>>

(* The writer may have filled the front block before it went on.           *)
Recheck ==
    LET b == block[frontBlock] IN
    /\ Reader("recheck")
    /\ block' = [block EXCEPT ![frontBlock].localTail = b.tail]
    /\ rpc' = IF b.front # b.tail THEN "take" ELSE "ahead"
    /\ UNCHANGED <<frontBlock, result, taken>>

ReadNext ==
    LET n == block[frontBlock].next IN
    /\ Reader("ahead") /\ rpc' = "move"
    /\ block' = [block EXCEPT ![n].localTail = block[n].tail]
    /\ UNCHANGED <<frontBlock, result, taken>>

Move ==
    /\ Reader("move") /\ rpc' = "take"
    /\ frontBlock' = block[frontBlock].next
    /\ UNCHANGED <<block, result, taken>>

(* The element is moved out of its slot and destroyed.                     *)
Take ==
    LET b == block[frontBlock] IN
    /\ Reader("take") /\ rpc' = "free"
    /\ result' = b.data[b.front]
    /\ taken' = Append(taken, b.data[b.front])
    /\ block' = [block EXCEPT ![frontBlock].data[b.front] = Empty]
    /\ UNCHANGED frontBlock

Free ==
    /\ Reader("free") /\ rpc' = "true"
    /\ block' = [block EXCEPT ![frontBlock].front = After(frontBlock, @)]
    /\ UNCHANGED <<frontBlock, result, taken>>

Read == TryDequeue \/ LookAhead \/ Recheck \/ ReadNext \/ Move \/ Take \/ Free

-----------------------------------------------------------------------------
(* The elements of a block, from its front to its tail.                    *)
Elements(i) ==
    LET b == block[i] IN [k \in 1 .. (b.tail - b.front) % b.size |-> b.data[(b.front + k - 1) % b.size]]

(* The block k links ahead of the front block.                             *)
Ahead[k \in Nat] == IF k = 0 THEN frontBlock ELSE block[Ahead[k - 1]].next

Distance == CHOOSE k \in 0 .. Len(block) - 1 : Ahead[k] = tailBlock /\ \A j \in 0 .. k - 1 : Ahead[j] # tailBlock

(* What is in the queue: the blocks from the front to the tail block, but  *)
(* for an element that has been moved out.                                 *)
Contents ==
    LET first[k \in 0 .. Distance + 1] == IF k = 0 THEN <<>> ELSE first[k - 1] \o Elements(Ahead[k - 1])
        all == first[Distance + 1]
    IN IF rpc = "free" THEN Tail(all) ELSE all

Abstract == INSTANCE Fifo WITH Message <- 1 .. MaxPut, queue <- Contents, out <- taken

(* However the steps of the two threads interleave, the blocks behave as   *)
(* one queue: what is put comes out once, in order.                        *)
IsFifo == Abstract!Spec

(* assert(nextBlockFront == nextBlockTail) in inner_enqueue(): the block   *)
(* the writer goes on to is empty.                                         *)
NextBlockEmpty ==
    wpc = "next" => LET n == block[block[tailBlock].next] IN n.front = n.tail

(* assert(nextBlockFront != nextBlockTail) in try_dequeue(): the block the *)
(* reader goes on to has an element.                                       *)
NextBlockFilled ==
    rpc \in {"ahead", "move"} => LET n == block[block[frontBlock].next] IN n.front # n.tail
=============================================================================

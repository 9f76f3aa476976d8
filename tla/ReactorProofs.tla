--------------------------- MODULE ReactorProofs ----------------------------
(***************************************************************************)
(* Proofs about the reactor loop and the handlers it drives.  First those  *)
(* about the output queue of CEventHandler, for any number of handlers,    *)
(* buffers, packets and any queue limit.  Then those about the loop: what  *)
(* the kernel and the map of the poller know of the handlers, what a batch *)
(* of events may still refer to, and that everything proved about the      *)
(* output queues holds in the loop.                                        *)
(***************************************************************************)
EXTENDS Reactor, SequenceTheorems, TLAPS

(* What the queue of one handler is after a packet was put back in front   *)
(* of the rest of the queue: it has the same packets as before.            *)
LEMMA PushFrontOfTail ==
    ASSUME NEW q \in Seq(Entry), q # <<>>
    PROVE  /\ push_front(Head(q), Tail(q)) = q
           /\ Tail(q) \in Seq(Entry)
           /\ Head(q) \in Entry
           /\ Head(q) = q[1]
           /\ Len(q) \in Nat \ {0}
           /\ Len(Tail(q)) = Len(q) - 1
           /\ \A i \in 1 .. Len(Tail(q)) : Tail(q)[i] = q[i + 1]
  <1>1. /\ Tail(q) \in Seq(Entry) /\ Head(q) \in Entry /\ Head(q) = q[1]
        /\ Len(q) \in Nat \ {0} /\ Len(Tail(q)) = Len(q) - 1
        /\ \A i \in 1 .. Len(Tail(q)) : Tail(q)[i] = q[i + 1]
    BY HeadTailProperties, EmptySeq
  <1>2. push_front(Head(q), Tail(q)) \in Seq(Entry)
    BY <1>1 DEF push_front
  <1>3. Len(push_front(Head(q), Tail(q))) = Len(q)
    BY <1>1 DEF push_front
  <1>4. \A i \in 1 .. Len(q) : push_front(Head(q), Tail(q))[i] = q[i]
    BY <1>1 DEF push_front
  <1>5. push_front(Head(q), Tail(q)) = q
    BY <1>2, <1>3, <1>4, SeqEqual
  <1> QED BY <1>1, <1>5

(* The facts about one handler that its own steps must preserve, as a      *)
(* relation between its fields.                                            *)
Consistent(is_open, events, q, acc, last) ==
    /\ Len(q) <= MaxMsgInBuffer
    /\ is_open =>
        /\ "WRITE" \in events <=> q # <<>>
        /\ \A i \in 1 .. Len(q) : q[i].no = acc - Len(q) + i
        /\ last \in {acc - Len(q), acc - Len(q) + 1}
        /\ Len(q) = 0 => last = acc

HandlerInv(h) == Consistent(open[h], mask[h], queue[h], accepted[h], last_no[h])

IInv == TypeOK /\ \A h \in Handler : HandlerInv(h)

(* The handlers start closed, with empty queues.                           *)
LEMMA InitIInv == Init => IInv
  <1> SUFFICES ASSUME Init PROVE IInv
    OBVIOUS
  <1>1. TypeOK
    <2>1. queue \in [Handler -> Seq(Entry)]
      BY EmptySeq DEF Init
    <2>2. /\ rptr \in [Mbuf -> 0 .. PktLen - 1] /\ accepted \in [Handler -> 0 .. MaxPut]
          /\ written \in [Handler -> 0 .. PktLen] /\ last_no \in [Handler -> Nat]
      BY LengthAssumption, BoundAssumption DEF Init
    <2>3. /\ open \in [Handler -> BOOLEAN] /\ fault \in BOOLEAN
          /\ mask \in [Handler -> SUBSET {"READ", "WRITE"}]
          /\ errno \in Errno
      BY DEF Init, Errno
    <2> QED BY <2>1, <2>2, <2>3 DEF TypeOK
  <1>2. ASSUME NEW h \in Handler PROVE HandlerInv(h)
    BY BufferAssumption DEF Init, HandlerInv, Consistent
  <1> QED BY <1>1, <1>2 DEF IInv

(* send() keeps the read pointer inside the packet and errno a code.       *)
LEMMA SendType ==
    ASSUME TypeOK, NEW h \in Handler, NEW e \in Entry, NEW w \in WriteResult,
           w <= length(e.mbuf), send(h, e, w)
    PROVE  /\ rptr' \in [Mbuf -> 0 .. PktLen - 1]
           /\ errno' \in Errno
           /\ written' \in [Handler -> 0 .. PktLen]
           /\ last_no' \in [Handler -> Nat]
           /\ last_no'[h] = IF w > 0 THEN e.no ELSE last_no[h]
           /\ \A g \in Handler \ {h} : last_no'[g] = last_no[g]
  <1>1. e.mbuf \in Mbuf /\ rptr \in [Mbuf -> 0 .. PktLen - 1]
    BY DEF TypeOK, Entry
  <1>2. rptr' \in [Mbuf -> 0 .. PktLen - 1]
    <2>1. rptr[e.mbuf] \in 0 .. PktLen - 1
      BY <1>1
    <2>2. rptr[e.mbuf] + Skipped(e.mbuf, w) \in 0 .. PktLen - 1
      BY <2>1, LengthAssumption DEF Skipped, length, WriteResult
    <2>3. rptr' = [rptr EXCEPT ![e.mbuf] = rptr[e.mbuf] + Skipped(e.mbuf, w)]
      BY DEF send
    <2> QED BY <1>1, <2>2, <2>3
  <1> USE LengthAssumption DEF TypeOK, send, Entry, WriteResult, length, Error, Block
  <1>3. errno' \in Errno
    BY DEF Errno
  <1>4. Requeued(e.mbuf, w) => w >= 0
    BY DEF Requeued
  <1>5. written' \in [Handler -> 0 .. PktLen]
    BY <1>4
  <1> QED BY <1>2, <1>3, <1>5

(* A step that leaves the state of handler g alone keeps its invariant.    *)
LEMMA Frame ==
    ASSUME NEW g \in Handler, HandlerInv(g),
           open'[g] = open[g], mask'[g] = mask[g], queue'[g] = queue[g],
           accepted'[g] = accepted[g], last_no'[g] = last_no[g]
    PROVE  HandlerInv(g)'
  BY DEF HandlerInv

(* open() starts a connection with an empty queue and no write event.      *)
LEMMA OpenStep ==
    ASSUME IInv, NEW h \in Handler, Open(h)
    PROVE  IInv'
  <1>1. TypeOK'
    BY BoundAssumption, LengthAssumption DEF IInv, TypeOK, Open
  <1>2. ASSUME NEW g \in Handler PROVE HandlerInv(g)'
    <2>1. CASE g = h
      BY <2>1, BufferAssumption DEF IInv, TypeOK, Open, HandlerInv, Consistent
    <2>2. CASE g # h
      BY <2>2, Frame DEF IInv, TypeOK, Open
    <2> QED BY <2>1, <2>2
  <1> QED BY <1>1, <1>2 DEF IInv

(* handle_close() drops the queue and the events with the descriptor.      *)
LEMMA CloseStep ==
    ASSUME IInv, NEW h \in Handler, HandleClose(h)
    PROVE  IInv'
  <1>1. TypeOK'
    <2>1. accepted' \in [Handler -> 0 .. MaxPut] /\ written' \in [Handler -> 0 .. PktLen]
      BY BoundAssumption, LengthAssumption DEF IInv, TypeOK, HandleClose
    <2>2. last_no' \in [Handler -> Nat] /\ rptr' = rptr /\ errno' = errno /\ fault' = fault
      BY DEF IInv, TypeOK, HandleClose
    <2>3. /\ open' \in [Handler -> BOOLEAN] /\ mask' \in [Handler -> SUBSET {"READ", "WRITE"}]
          /\ queue' \in [Handler -> Seq(Entry)]
      BY DEF IInv, TypeOK, HandleClose, Closed
    <2> QED BY <2>1, <2>2, <2>3 DEF IInv, TypeOK
  <1>2. ASSUME NEW g \in Handler PROVE HandlerInv(g)'
    <2>1. CASE g = h
      BY <2>1, BufferAssumption DEF IInv, TypeOK, HandleClose, Closed, HandlerInv, Consistent
    <2>2. CASE g # h
      BY <2>2, Frame DEF IInv, TypeOK, HandleClose, Closed
    <2> QED BY <2>1, <2>2
  <1> QED BY <1>1, <1>2 DEF IInv

(* put() behind other packets: the new packet is the last and gets the     *)
(* next ordinal.                                                           *)
LEMMA AppendConsistent ==
    ASSUME NEW q \in Seq(Entry), NEW acc \in Nat, NEW last \in Nat,
           NEW events, NEW e \in Entry, e.no = acc + 1,
           q # <<>>, Len(q) < MaxMsgInBuffer,
           Consistent(TRUE, events, q, acc, last)
    PROVE  Consistent(TRUE, schedule_write(events), Append(q, e), acc + 1, last)
  <1> DEFINE r == Append(q, e)
  <1>1. /\ r # <<>> /\ Len(r) = Len(q) + 1 /\ Len(q) \in Nat \ {0}
        /\ \A i \in 1 .. Len(q) : r[i] = q[i]
        /\ r[Len(q) + 1] = e
    BY AppendProperties, EmptySeq
  <1> HIDE DEF r
  <1>2. ASSUME NEW i \in 1 .. Len(r) PROVE r[i].no = acc + 1 - Len(r) + i
    <2>1. CASE i = Len(q) + 1
      BY <2>1, <1>1
    <2>2. CASE i \in 1 .. Len(q)
      <3>1. q[i].no = acc - Len(q) + i
        BY <2>2 DEF Consistent
      <3> QED BY <3>1, <2>2, <1>1
    <2> QED BY <2>1, <2>2, <1>1
  <1>3. last \in {acc + 1 - Len(r), acc + 1 - Len(r) + 1}
    BY <1>1 DEF Consistent
  <1>4. Len(r) <= MaxMsgInBuffer /\ Len(r) # 0
    BY <1>1, BufferAssumption
  <1>5. "WRITE" \in schedule_write(events)
    BY DEF schedule_write
  <1>6. Consistent(TRUE, schedule_write(events), r, acc + 1, last)
    BY <1>1, <1>2, <1>3, <1>4, <1>5 DEF Consistent
  <1> QED BY <1>6 DEF r

(* put() with packets waiting.                                             *)
LEMMA PutQueueStep ==
    ASSUME IInv, NEW h \in Handler, NEW m \in Mbuf, PutQueue(h, m)
    PROVE  IInv'
  <1> DEFINE e == [mbuf |-> m, no |-> accepted[h] + 1]
  <1>1. /\ accepted[h] \in Nat /\ accepted[h] + 1 \in 0 .. MaxPut /\ last_no[h] \in Nat
        /\ queue[h] \in Seq(Entry)
    BY BoundAssumption DEF IInv, TypeOK, PutQueue
  <1>2. e \in Entry /\ e.no = accepted[h] + 1
    BY <1>1 DEF Entry
  <1> HIDE DEF e
  <1>3. Consistent(TRUE, schedule_write(mask[h]), Append(queue[h], e), accepted[h] + 1, last_no[h])
    BY <1>1, <1>2, AppendConsistent DEF IInv, HandlerInv, PutQueue
  <1>4. /\ queue' = [queue EXCEPT ![h] = Append(queue[h], e)]
        /\ mask' = [mask EXCEPT ![h] = schedule_write(mask[h])]
        /\ accepted' = [accepted EXCEPT ![h] = accepted[h] + 1]
        /\ open[h] = TRUE
        /\ UNCHANGED <<open, rptr, errno, fault, written, last_no>>
    BY DEF PutQueue, e, IInv, TypeOK
  <1>5. TypeOK'
    <2>1. Append(queue[h], e) \in Seq(Entry)
      BY <1>1, <1>2, AppendProperties
    <2> QED BY <2>1, <1>1, <1>4 DEF IInv, TypeOK, schedule_write
  <1>6. ASSUME NEW g \in Handler PROVE HandlerInv(g)'
    <2>1. CASE g = h
      BY <2>1, <1>3, <1>4 DEF HandlerInv, IInv, TypeOK
    <2>2. CASE g # h
      BY <2>2, <1>4, Frame DEF IInv, TypeOK
    <2> QED BY <2>1, <2>2
  <1> QED BY <1>5, <1>6 DEF IInv

(* A write that does not put the packet back took all of it.               *)
LEMMA SentInFull ==
    ASSUME TypeOK, NEW m \in Mbuf, NEW w \in WriteResult, w # Error, w <= length(m),
           ~Requeued(m, w)
    PROVE  w > 0
  BY LengthAssumption DEF TypeOK, Requeued, my_errno, WriteResult, Error, Block, length

(* put() with an empty queue, with every outcome of the write.             *)
LEMMA PutSendStep ==
    ASSUME IInv, NEW h \in Handler, NEW m \in Mbuf, NEW w \in WriteResult, PutSend(h, m, w)
    PROVE  IInv'
  <1> DEFINE e == [mbuf |-> m, no |-> accepted[h] + 1]
             q == IF Requeued(m, w) THEN push_front(e, queue[h]) ELSE queue[h]
             events == IF Requeued(m, w) THEN schedule_write(mask[h]) ELSE mask[h]
  <1>1. /\ accepted[h] \in Nat /\ accepted[h] + 1 \in 0 .. MaxPut /\ last_no[h] \in Nat
        /\ queue[h] = <<>> /\ open[h] = TRUE /\ w <= length(m)
    BY BoundAssumption DEF IInv, TypeOK, PutSend
  <1>2. e \in Entry /\ e.no = accepted[h] + 1 /\ e.mbuf = m
    BY <1>1 DEF Entry
  <1>3. send(h, e, w) /\ UNCHANGED fault
    BY DEF PutSend
  <1> HIDE DEF e
  <1>4. /\ rptr' \in [Mbuf -> 0 .. PktLen - 1]
        /\ errno' \in Errno
        /\ written' \in [Handler -> 0 .. PktLen]
        /\ last_no' \in [Handler -> Nat]
        /\ last_no'[h] = IF w > 0 THEN e.no ELSE last_no[h]
        /\ \A g \in Handler \ {h} : last_no'[g] = last_no[g]
    BY <1>1, <1>2, <1>3, SendType DEF IInv
  <1>5. CASE w = Error
    <2>1. Closed(h) /\ UNCHANGED accepted
      BY <1>5 DEF PutSend
    <2>2. queue' \in [Handler -> Seq(Entry)]
      BY <2>1, EmptySeq DEF IInv, TypeOK, Closed
    <2>3. TypeOK'
      BY <2>1, <2>2, <1>3, <1>4 DEF IInv, TypeOK, Closed
    <2>4. ASSUME NEW g \in Handler PROVE HandlerInv(g)'
      <3>1. CASE g = h
        BY <3>1, <2>1, BufferAssumption DEF IInv, TypeOK, Closed, HandlerInv, Consistent
      <3>2. CASE g # h
        BY <3>2, <2>1, <1>4, Frame DEF IInv, TypeOK, Closed
      <3> QED BY <3>1, <3>2
    <2> QED BY <2>3, <2>4 DEF IInv
  <1>6. CASE w # Error
    <2>1. /\ accepted' = [accepted EXCEPT ![h] = accepted[h] + 1]
          /\ queue' = [queue EXCEPT ![h] = q]
          /\ mask' = [mask EXCEPT ![h] = events]
          /\ UNCHANGED open
      BY <1>6 DEF PutSend, e
    <2>2. q = IF Requeued(m, w) THEN <<e>> ELSE <<>>
      BY <1>1, <1>2 DEF push_front
    <2>3. q \in Seq(Entry)
      <3>1. <<e>> \in Seq(Entry) /\ <<>> \in Seq(Entry)
        BY <1>2, EmptySeq
      <3> QED BY <2>2, <3>1
    <2>4. Consistent(TRUE, events, q, accepted[h] + 1, last_no'[h])
      <3>0. "WRITE" \notin mask[h] /\ last_no[h] = accepted[h]
        BY <1>1 DEF IInv, HandlerInv, Consistent
      <3>1. CASE Requeued(m, w)
        <4>1. Len(q) = 1 /\ q[1] = e /\ q # <<>>
          BY <3>1, <2>2
        <4>2. last_no'[h] \in {accepted[h], accepted[h] + 1}
          BY <3>0, <1>4, <1>2
        <4>3. "WRITE" \in events
          BY <3>1 DEF schedule_write
        <4> HIDE DEF q, events
        <4> QED BY <4>1, <4>2, <4>3, <1>1, <1>2, BufferAssumption DEF Consistent
      <3>2. CASE ~Requeued(m, w)
        <4>1. last_no'[h] = accepted[h] + 1
          BY <3>2, <1>1, <1>2, <1>4, <1>6, SentInFull DEF IInv
        <4>2. q = <<>> /\ Len(q) = 0 /\ events = mask[h]
          BY <3>2, <2>2
        <4> HIDE DEF q, events
        <4> QED BY <4>1, <4>2, <3>0, <1>1, BufferAssumption DEF Consistent
      <3> QED BY <3>1, <3>2
    <2>5. events \in SUBSET {"READ", "WRITE"}
      BY DEF IInv, TypeOK, schedule_write
    <2> HIDE DEF q, events
    <2>6. TypeOK'
      BY <2>1, <2>3, <2>5, <1>1, <1>3, <1>4 DEF IInv, TypeOK
    <2>7. ASSUME NEW g \in Handler PROVE HandlerInv(g)'
      <3>1. CASE g = h
        BY <3>1, <2>1, <2>4, <1>1 DEF IInv, TypeOK, HandlerInv
      <3>2. CASE g # h
        BY <3>2, <2>1, <1>4, Frame DEF IInv, TypeOK
      <3> QED BY <3>1, <3>2
    <2> QED BY <2>6, <2>7 DEF IInv
  <1> QED BY <1>5, <1>6

(* handle_output() after a full write: the queue loses its first packet,   *)
(* the socket has reached it, and the write event goes with the last one.  *)
LEMMA PopConsistent ==
    ASSUME NEW q \in Seq(Entry), NEW acc \in Nat, NEW last \in Nat, NEW events,
           q # <<>>, Consistent(TRUE, events, q, acc, last)
    PROVE  Consistent(TRUE, IF Tail(q) = <<>> THEN cancel_schedule_write(events) ELSE events,
                      Tail(q), acc, Head(q).no)
  <1> DEFINE r == Tail(q)
             after == IF r = <<>> THEN cancel_schedule_write(events) ELSE events
  <1>1. /\ r \in Seq(Entry) /\ Head(q) = q[1] /\ Len(q) \in Nat \ {0} /\ Len(r) = Len(q) - 1
        /\ \A i \in 1 .. Len(r) : r[i] = q[i + 1]
    BY PushFrontOfTail
  <1>2. "WRITE" \in after <=> r # <<>>
    BY DEF Consistent, cancel_schedule_write
  <1> HIDE DEF r, after
  <1>3. Head(q).no = acc - Len(q) + 1
    BY <1>1 DEF Consistent
  <1>4. ASSUME NEW i \in 1 .. Len(r) PROVE r[i].no = acc - Len(r) + i
    <2>1. i + 1 \in 1 .. Len(q) /\ r[i] = q[i + 1]
      BY <1>1
    <2>2. q[i + 1].no = acc - Len(q) + (i + 1)
      BY <2>1 DEF Consistent
    <2> QED BY <2>1, <2>2, <1>1
  <1>5. Len(r) <= MaxMsgInBuffer
    BY <1>1, BufferAssumption DEF Consistent
  <1>6. Head(q).no \in {acc - Len(r), acc - Len(r) + 1} /\ (Len(r) = 0 => Head(q).no = acc)
    BY <1>1, <1>3
  <1>7. Consistent(TRUE, after, r, acc, Head(q).no)
    BY <1>2, <1>4, <1>5, <1>6 DEF Consistent
  <1> QED BY <1>7 DEF r, after

(* handle_output() after a partial or blocked write: the queue is the same *)
(* and the socket is in its first packet, or still before it.              *)
LEMMA RetryConsistent ==
    ASSUME NEW q \in Seq(Entry), NEW acc \in Nat, NEW last \in Nat, NEW events, NEW new_last,
           q # <<>>, Consistent(TRUE, events, q, acc, last), new_last \in {last, Head(q).no}
    PROVE  Consistent(TRUE, schedule_write(events), q, acc, new_last)
  <1>1. Head(q) = q[1] /\ Len(q) \in Nat \ {0}
    BY PushFrontOfTail
  <1>2. Head(q).no = acc - Len(q) + 1
    BY <1>1 DEF Consistent
  <1>3. new_last \in {acc - Len(q), acc - Len(q) + 1}
    BY <1>2 DEF Consistent
  <1>4. "WRITE" \in schedule_write(events)
    BY DEF schedule_write
  <1> QED BY <1>1, <1>3, <1>4 DEF Consistent

(* EPOLLOUT on a handler, with every outcome of the write.                 *)
LEMMA HandleOutputStep ==
    ASSUME IInv, NEW h \in Handler, NEW w \in WriteResult, HandleOutput(h, w)
    PROVE  IInv'
  <1> DEFINE e == Head(queue[h])
             m == e.mbuf
             rest == Tail(queue[h])
             q == IF Requeued(m, w) THEN push_front(e, rest) ELSE rest
             scheduled == IF Requeued(m, w) THEN schedule_write(mask[h]) ELSE mask[h]
             events == IF q = <<>> THEN cancel_schedule_write(scheduled) ELSE scheduled
  <1>1. /\ accepted[h] \in Nat /\ last_no[h] \in Nat /\ queue[h] \in Seq(Entry)
        /\ open[h] = TRUE /\ queue[h] # <<>>
        /\ Consistent(TRUE, mask[h], queue[h], accepted[h], last_no[h])
    <2>1. accepted[h] \in Nat
      BY BoundAssumption DEF IInv, TypeOK
    <2>2. /\ last_no[h] \in Nat /\ queue[h] \in Seq(Entry) /\ open[h] = TRUE
          /\ "WRITE" \in mask[h]
      BY DEF IInv, TypeOK, HandleOutput
    <2>3. Consistent(TRUE, mask[h], queue[h], accepted[h], last_no[h])
      BY <2>2 DEF IInv, HandlerInv
    <2>4. queue[h] # <<>>
      BY <2>2, <2>3 DEF Consistent
    <2> QED BY <2>1, <2>2, <2>3, <2>4
  <1>2. /\ e \in Entry /\ rest \in Seq(Entry) /\ push_front(e, rest) = queue[h]
    BY <1>1, PushFrontOfTail
  <1>3. m \in Mbuf /\ e.no \in Nat
    BY <1>2 DEF Entry
  <1>4. /\ w <= length(m) /\ send(h, e, w) /\ UNCHANGED accepted
    BY <1>1 DEF HandleOutput
  <1>5. /\ rptr' \in [Mbuf -> 0 .. PktLen - 1]
        /\ errno' \in Errno
        /\ written' \in [Handler -> 0 .. PktLen]
        /\ last_no' \in [Handler -> Nat]
        /\ last_no'[h] = IF w > 0 THEN e.no ELSE last_no[h]
        /\ \A g \in Handler \ {h} : last_no'[g] = last_no[g]
    BY <1>2, <1>4, SendType DEF IInv
  <1>6. CASE w = Error
    <2>1. Closed(h) /\ fault' = TRUE
      BY <1>1, <1>6 DEF HandleOutput
    <2>2. queue' \in [Handler -> Seq(Entry)]
      BY <2>1, EmptySeq DEF IInv, TypeOK, Closed
    <2>3. TypeOK'
      BY <2>1, <2>2, <1>4, <1>5 DEF IInv, TypeOK, Closed
    <2>4. ASSUME NEW g \in Handler PROVE HandlerInv(g)'
      <3>1. CASE g = h
        BY <3>1, <2>1, BufferAssumption DEF IInv, TypeOK, Closed, HandlerInv, Consistent
      <3>2. CASE g # h
        BY <3>2, <2>1, <1>4, <1>5, Frame DEF IInv, TypeOK, Closed
      <3> QED BY <3>1, <3>2
    <2> QED BY <2>3, <2>4 DEF IInv
  <1>7. CASE w # Error
    <2>1. /\ queue' = [queue EXCEPT ![h] = q]
          /\ mask' = [mask EXCEPT ![h] = events]
          /\ UNCHANGED <<open, fault>>
      BY <1>1, <1>7 DEF HandleOutput
    <2>2. q \in Seq(Entry)
      BY <1>1, <1>2
    <2>3. events \in SUBSET {"READ", "WRITE"}
      BY DEF IInv, TypeOK, schedule_write, cancel_schedule_write
    <2>4. Consistent(TRUE, events, q, accepted[h], last_no'[h])
      <3>1. CASE Requeued(m, w)
        <4>1. q = queue[h] /\ events = schedule_write(mask[h])
          BY <3>1, <1>1, <1>2
        <4>2. last_no'[h] \in {last_no[h], Head(queue[h]).no}
          BY <1>5
        <4> HIDE DEF q, events
        <4>3. Consistent(TRUE, schedule_write(mask[h]), queue[h], accepted[h], last_no'[h])
          BY <4>2, <1>1, RetryConsistent
        <4> QED BY <4>1, <4>3
      <3>2. CASE ~Requeued(m, w)
        <4>1. last_no'[h] = Head(queue[h]).no
          BY <3>2, <1>3, <1>4, <1>5, <1>7, SentInFull DEF IInv
        <4>2. /\ q = Tail(queue[h])
              /\ events = IF Tail(queue[h]) = <<>> THEN cancel_schedule_write(mask[h]) ELSE mask[h]
          BY <3>2
        <4> HIDE DEF q, events
        <4>3. Consistent(TRUE, IF Tail(queue[h]) = <<>> THEN cancel_schedule_write(mask[h]) ELSE mask[h],
                         Tail(queue[h]), accepted[h], Head(queue[h]).no)
          BY <1>1, PopConsistent
        <4> QED BY <4>1, <4>2, <4>3
      <3> QED BY <3>1, <3>2
    <2> HIDE DEF q, events
    <2>5. TypeOK'
      BY <2>1, <2>2, <2>3, <1>4, <1>5 DEF IInv, TypeOK
    <2>6. ASSUME NEW g \in Handler PROVE HandlerInv(g)'
      <3>1. CASE g = h
        BY <3>1, <2>1, <2>4, <1>1, <1>4 DEF IInv, TypeOK, HandlerInv
      <3>2. CASE g # h
        BY <3>2, <2>1, <1>4, <1>5, Frame DEF IInv, TypeOK
      <3> QED BY <3>1, <3>2
    <2> QED BY <2>5, <2>6 DEF IInv
  <1> QED BY <1>6, <1>7

(* The steps that touch no handler: a fresh buffer, another errno.         *)
LEMMA OtherSteps ==
    ASSUME IInv, (\E m \in Mbuf : NewMbuf(m)) \/ (\E err \in Errno : OtherError(err)) \/ UNCHANGED vars
    PROVE  IInv'
  <1>1. UNCHANGED <<open, mask, queue, accepted, last_no>>
    BY DEF NewMbuf, OtherError, sock_vars, hist_vars, vars
  <1>2. TypeOK'
    <2>1. CASE \E m \in Mbuf : NewMbuf(m)
      BY <2>1, LengthAssumption DEF IInv, TypeOK, NewMbuf, sock_vars, hist_vars
    <2>2. CASE \E err \in Errno : OtherError(err)
      BY <2>2 DEF IInv, TypeOK, OtherError, sock_vars, hist_vars
    <2>3. CASE UNCHANGED vars
      BY <2>3 DEF IInv, TypeOK, vars
    <2> QED BY <2>1, <2>2, <2>3
  <1>3. ASSUME NEW g \in Handler PROVE HandlerInv(g)'
    BY <1>1, Frame DEF IInv
  <1> QED BY <1>2, <1>3 DEF IInv

(* Every step of the handlers preserves the inductive invariant.           *)
LEMMA NextIInv == IInv /\ [Next]_vars => IInv'
  <1> SUFFICES ASSUME IInv, [Next]_vars PROVE IInv'
    OBVIOUS
  <1>1. CASE \E h \in Handler : Open(h) \/ HandleClose(h)
    BY <1>1, OpenStep, CloseStep
  <1>2. CASE \E h \in Handler, m \in Mbuf : PutQueue(h, m)
    BY <1>2, PutQueueStep
  <1>3. CASE \E h \in Handler, m \in Mbuf, w \in WriteResult : PutSend(h, m, w)
    BY <1>3, PutSendStep
  <1>4. CASE \E h \in Handler, w \in WriteResult : HandleOutput(h, w)
    BY <1>4, HandleOutputStep
  <1>5. CASE (\E m \in Mbuf : NewMbuf(m)) \/ (\E err \in Errno : OtherError(err)) \/ UNCHANGED vars
    BY <1>5, OtherSteps
  <1> QED BY <1>1, <1>2, <1>3, <1>4, <1>5 DEF Next

(* The inductive invariant holds in every reachable state.                 *)
THEOREM Invariance == Spec => []IInv
  BY InitIInv, NextIInv, PTL DEF Spec

(* The state of the handlers is always of its type; in particular the read *)
(* pointer that send() moves after a partial write stays inside the packet.*)
THEOREM TypeCorrect == Spec => []TypeOK
  <1>1. IInv => TypeOK
    BY DEF IInv
  <1> QED BY <1>1, Invariance, PTL

(* EVENT_WRITE is registered exactly while m_send_msg_queue holds packets: *)
(* the toggle of cancel_schedule_write() only ever clears the bit.         *)
THEOREM WriteScheduledHolds == Spec => []WriteScheduled
  <1>1. IInv => WriteScheduled
    BY DEF IInv, HandlerInv, Consistent, WriteScheduled
  <1> QED BY <1>1, Invariance, PTL

(* m_send_msg_queue never outgrows m_max_msg_in_buffer, the push_front of  *)
(* nonblk_send() included.                                                 *)
THEOREM QueueBoundedHolds == Spec => []QueueBounded
  <1>1. IInv => QueueBounded
    BY DEF IInv, HandlerInv, Consistent, QueueBounded
  <1> QED BY <1>1, Invariance, PTL

(* The queue holds the latest accepted packets in order, and the socket is *)
(* right before or in the first of them.                                   *)
THEOREM FifoNoLossHolds == Spec => []FifoNoLoss
  <1>1. IInv => FifoNoLoss
    BY DEF IInv, HandlerInv, Consistent, FifoNoLoss
  <1> QED BY <1>1, Invariance, PTL

(* One step moves the ordinal on the wire of an open handler by at most 1. *)
LEMMA StepInOrder ==
    ASSUME IInv, [Next]_vars, NEW h \in Handler, open[h], open'[h]
    PROVE  last_no'[h] \in {last_no[h], last_no[h] + 1}
  <1>0. /\ accepted[h] \in Nat /\ last_no[h] \in Nat /\ queue[h] \in Seq(Entry)
        /\ open[h] = TRUE
        /\ Consistent(TRUE, mask[h], queue[h], accepted[h], last_no[h])
    <2>1. accepted[h] \in Nat
      BY BoundAssumption DEF IInv, TypeOK
    <2>2. last_no[h] \in Nat /\ queue[h] \in Seq(Entry) /\ open[h] = TRUE
      BY DEF IInv, TypeOK
    <2> QED BY <2>1, <2>2 DEF IInv, HandlerInv
  <1>1. ASSUME NEW g \in Handler, Open(g) \/ HandleClose(g)
        PROVE  last_no'[h] \in {last_no[h], last_no[h] + 1}
    <2>1. g # h
      BY <1>1 DEF Open, HandleClose, Closed, IInv, TypeOK
    <2> QED BY <2>1, <1>1, <1>0 DEF Open, HandleClose, IInv, TypeOK
  <1>2. CASE \E g \in Handler, m \in Mbuf : PutQueue(g, m)
    BY <1>2 DEF PutQueue
  <1>3. ASSUME NEW g \in Handler, NEW m \in Mbuf, NEW w \in WriteResult, PutSend(g, m, w)
        PROVE  last_no'[h] \in {last_no[h], last_no[h] + 1}
    <2> DEFINE e == [mbuf |-> m, no |-> accepted[g] + 1]
    <2>1. send(g, e, w) /\ queue[g] = <<>>
      BY <1>3 DEF PutSend
    <2>2. last_no'[h] = IF g = h /\ w > 0 THEN accepted[h] + 1 ELSE last_no[h]
      BY <2>1 DEF send, IInv, TypeOK
    <2>3. g = h => last_no[h] = accepted[h]
      BY <2>1, <1>0 DEF Consistent
    <2> QED BY <2>2, <2>3
  <1>4. ASSUME NEW g \in Handler, NEW w \in WriteResult, HandleOutput(g, w)
        PROVE  last_no'[h] \in {last_no[h], last_no[h] + 1}
    <2>1. CASE queue[g] = <<>>
      BY <2>1, <1>4 DEF HandleOutput, hist_vars
    <2>2. CASE queue[g] # <<>>
      <3>1. send(g, Head(queue[g]), w)
        BY <2>2, <1>4 DEF HandleOutput
      <3>2. last_no'[h] = IF g = h /\ w > 0 THEN Head(queue[h]).no ELSE last_no[h]
        BY <3>1 DEF send, IInv, TypeOK
      <3>3. CASE g = h
        <4>1. Head(queue[h]) = queue[h][1] /\ Len(queue[h]) \in Nat \ {0}
          BY <3>3, <2>2, <1>0, PushFrontOfTail
        <4>2. Head(queue[h]).no = accepted[h] - Len(queue[h]) + 1
          BY <4>1, <1>0 DEF Consistent
        <4>3. last_no[h] \in {accepted[h] - Len(queue[h]), accepted[h] - Len(queue[h]) + 1}
          BY <1>0 DEF Consistent
        <4> QED BY <3>2, <4>1, <4>2, <4>3, <1>0
      <3> QED BY <3>2, <3>3
    <2> QED BY <2>1, <2>2
  <1>5. CASE (\E m \in Mbuf : NewMbuf(m)) \/ (\E err \in Errno : OtherError(err)) \/ UNCHANGED vars
    BY <1>5 DEF NewMbuf, OtherError, sock_vars, hist_vars, vars
  <1> QED BY <1>1, <1>2, <1>3, <1>4, <1>5 DEF Next

(* The peer of an open connection never sees a packet overtaken by a later *)
(* one, nor one left out: the queue preserves order across partial writes. *)
THEOREM WireInOrderHolds == Spec => WireInOrder
  <1>1. IInv /\ [Next]_vars =>
          [\A h \in Handler : open[h] /\ open'[h] =>
              last_no'[h] \in {last_no[h], last_no[h] + 1}]_vars
    BY StepInOrder
  <1> QED BY <1>1, Invariance, PTL DEF Spec, WireInOrder

-----------------------------------------------------------------------------
(* The reactor loop.                                                       *)
RegType ==
    /\ fd \in [Handler -> Fd \cup {NoFd}]
    /\ interest \in [Fd -> Handler \cup {NoHandler}]
    /\ table \in [Fd -> Handler \cup {NoHandler}]
    /\ writable \subseteq Handler

RInv == IInv /\ RegType /\ RegisteredExactly

LEMMA FdFacts == Fd \subseteq Int /\ NoFd \notin Fd /\ NoHandler \notin Handler
  <1>1. NoFd \notin Fd /\ Fd \subseteq Int
    BY DEF Fd, NoFd
  <1>2. NoHandler \notin Handler
    BY PointerAssumption
  <1> QED BY <1>1, <1>2

-----------------------------------------------------------------------------
(* What the steps of a handler do to the objects: one is made, one is      *)
(* deleted, or none.                                                       *)
Kept == open' = open
Deletes(h) == open[h] /\ open' = [open EXCEPT ![h] = FALSE]

(* put() and handle_output() delete the handler when ::write() fails, and  *)
(* handle_close() always does.                                             *)
LEMMA HandlerEffect ==
    ASSUME NEW h \in Handler
    PROVE  /\ HandleClose(h) => Deletes(h)
           /\ \A w \in WriteResult : HandleOutput(h, w) => open[h] /\ (Kept \/ Deletes(h))
           /\ \A m \in Mbuf : PutQueue(h, m) => open[h] /\ Kept
           /\ \A m \in Mbuf, w \in WriteResult : PutSend(h, m, w) => open[h] /\ (Kept \/ Deletes(h))
  <1>1. HandleClose(h) => Deletes(h)
    BY DEF HandleClose, Closed, Deletes
  <1>2. ASSUME NEW w \in WriteResult, HandleOutput(h, w)
        PROVE  open[h] /\ (Kept \/ Deletes(h))
    BY <1>2 DEF HandleOutput, Closed, Kept, Deletes
  <1>3. ASSUME NEW m \in Mbuf, PutQueue(h, m) PROVE open[h] /\ Kept
    BY <1>3 DEF PutQueue, Kept
  <1>4. ASSUME NEW m \in Mbuf, NEW w \in WriteResult, PutSend(h, m, w)
        PROVE  open[h] /\ (Kept \/ Deletes(h))
    BY <1>4 DEF PutSend, Closed, Kept, Deletes
  <1> QED BY <1>1, <1>2, <1>3, <1>4

(* del_event() and close() take the deleted handler out of the kernel and  *)
(* the map, and nothing else.                                              *)
LEMMA UnregisterKeeps ==
    ASSUME RInv, NEW h \in Handler, Deletes(h), Unregister(h), writable' \subseteq Handler
    PROVE  RegType' /\ RegisteredExactly'
  <1>1. open \in [Handler -> BOOLEAN]
    BY DEF RInv, IInv, TypeOK
  <1>2. fd[h] \in Fd
    BY DEF RInv, RegType, RegisteredExactly, Deletes
  <1>3. /\ interest' = [interest EXCEPT ![fd[h]] = NoHandler]
        /\ table' = [table EXCEPT ![fd[h]] = NoHandler]
        /\ fd' = [fd EXCEPT ![h] = NoFd]
    BY DEF Unregister, del_event
  <1>4. RegType'
    BY <1>2, <1>3 DEF RInv, RegType
  <1>5. interest' = table'
    BY <1>3 DEF RInv, RegisteredExactly
  <1>6. ASSUME NEW g \in Handler, NEW d \in Fd
        PROVE  table'[d] = g <=> open'[g] /\ fd'[g] = d
    <2>1. CASE g = h
      BY <2>1, <1>1, <1>2, <1>3, FdFacts DEF RInv, RegType, RegisteredExactly, Deletes
    <2>2. CASE g # h
      BY <2>2, <1>1, <1>2, <1>3, FdFacts DEF RInv, RegType, RegisteredExactly, Deletes
    <2> QED BY <2>1, <2>2
  <1>7. ASSUME NEW g \in Handler PROVE open'[g] <=> fd'[g] # NoFd
    BY <1>1, <1>3 DEF RInv, RegType, RegisteredExactly, Deletes
  <1> QED BY <1>4, <1>5, <1>6, <1>7 DEF RegisteredExactly

(* A step that leaves the objects and the registrations alone.             *)
LEMMA NothingRegistered ==
    ASSUME RInv, Kept, UNCHANGED <<fd, interest, table>>, writable' \subseteq Handler
    PROVE  RegType' /\ RegisteredExactly'
  BY DEF RInv, RegType, RegisteredExactly, Kept

LEMMA RegisteredKeeps ==
    ASSUME RInv, NEW h \in Handler, open[h], Kept \/ Deletes(h), Registered(h),
           writable' \subseteq Handler
    PROVE  RegType' /\ RegisteredExactly'
  <1>1. open \in [Handler -> BOOLEAN]
    BY DEF RInv, IInv, TypeOK
  <1>2. CASE Kept
    BY <1>2, NothingRegistered DEF Registered, reg_vars, Kept
  <1>3. CASE Deletes(h)
    BY <1>1, <1>3, UnregisterKeeps DEF Registered, Deletes
  <1> QED BY <1>2, <1>3

(* accept4() returns a descriptor that no handler has, so the entry of the *)
(* map that add_event() would leave as it is is free.                      *)
LEMMA AcceptKeeps ==
    ASSUME RInv, NEW h \in Handler, NEW d \in Fd, Accept(h, d)
    PROVE  RegType' /\ RegisteredExactly'
  <1>1. /\ open \in [Handler -> BOOLEAN] /\ ~open[h] /\ open' = [open EXCEPT ![h] = TRUE]
        /\ fd' = [fd EXCEPT ![h] = d] /\ writable' \subseteq Handler
        /\ \A g \in Handler : fd[g] # d
    BY DEF RInv, IInv, TypeOK, RegType, Accept, Open, Dispatch, LowestFree
  <1>2. table[d] = NoHandler
    BY <1>1 DEF RInv, RegType, RegisteredExactly
  <1>3. interest' = [interest EXCEPT ![d] = h] /\ table' = [table EXCEPT ![d] = h]
    BY <1>2 DEF Accept, add_event
  <1>4. RegType'
    BY <1>1, <1>3 DEF RInv, RegType
  <1>5. interest' = table'
    BY <1>3 DEF RInv, RegisteredExactly
  <1>6. fd[h] = NoFd
    BY <1>1 DEF RInv, RegType, RegisteredExactly
  <1>7. ASSUME NEW g \in Handler, NEW e \in Fd
        PROVE  table'[e] = g <=> open'[g] /\ fd'[g] = e
    <2>1. CASE g = h
      BY <2>1, <1>1, <1>2, <1>3, <1>6, FdFacts DEF RInv, RegType, RegisteredExactly
    <2>2. CASE g # h
      BY <2>2, <1>1, <1>2, <1>3, FdFacts DEF RInv, RegType, RegisteredExactly
    <2> QED BY <2>1, <2>2
  <1>8. ASSUME NEW g \in Handler PROVE open'[g] <=> fd'[g] # NoFd
    BY <1>1, FdFacts DEF RInv, RegType, RegisteredExactly
  <1> QED BY <1>4, <1>5, <1>7, <1>8 DEF RegisteredExactly

-----------------------------------------------------------------------------
(* The loop goes on with a deleted object: fault is all that is known.     *)
Abandoned == fault' = TRUE /\ UNCHANGED <<open, mask, queue, rptr, errno, hist_vars>>

(* Where the steps of a handler are Next steps of EventHandler.            *)
LEMMA HandlerSteps ==
    ASSUME NEW h \in Handler
    PROVE  /\ HandleClose(h) => Next
           /\ Open(h) => Next
           /\ \A w \in WriteResult : HandleOutput(h, w) => Next
           /\ \A m \in Mbuf : PutQueue(h, m) => Next
           /\ \A m \in Mbuf, w \in WriteResult : PutSend(h, m, w) => Next
  BY DEF Next

(* What a step of the loop does to one handler: a step that EventHandler   *)
(* specifies, nothing, or the use of a deleted object.                     *)
LEMMA StepOfHandlers ==
    ASSUME RInv, [ReactorNext]_reactor_vars
    PROVE  [Next]_vars \/ Abandoned
  <1>1. CASE Poll \/ EndBatch \/ EndLoop \/ ClosePoller \/ InputDone \/ Signal \/ UNCHANGED reactor_vars
    BY <1>1 DEF Poll, EndBatch, EndLoop, ClosePoller, InputDone, Signal, reactor_vars
  <1>2. ASSUME NEW d \in Fd, CloseFirst(d)
        PROVE  [Next]_vars \/ Abandoned
    <2>1. table[d] \in Handler
      BY <1>2 DEF CloseFirst, RInv, RegType
    <2>2. CASE open[table[d]]
      BY <1>2, <2>1, <2>2, HandlerSteps DEF CloseFirst
    <2>3. CASE ~open[table[d]]
      BY <1>2, <2>3 DEF CloseFirst, Abandoned
    <2> QED BY <2>2, <2>3
  <1>3. CASE InputDeleted
    BY <1>3 DEF InputDeleted, Abandoned
  <1>4. CASE InputFails
    BY <1>4, HandlerSteps DEF InputFails
  <1>5. ASSUME NEW h \in Handler, StaleEvent(h)
        PROVE  Abandoned
    BY <1>5 DEF StaleEvent, Abandoned
  <1>6. ASSUME NEW h \in Handler, Hangup(h) \/ CloseInInput(h)
        PROVE  Next
    BY <1>6, HandlerSteps DEF Hangup, CloseInInput
  <1>7. ASSUME NEW h \in Handler, Put(h)
        PROVE  Next
    BY <1>7, HandlerSteps DEF Put
  <1>8. ASSUME NEW h \in Handler, NEW d \in Fd, Accept(h, d)
        PROVE  Next
    BY <1>8, HandlerSteps DEF Accept
  <1>9. ASSUME NEW p \in Handler \cup {Service}, Input(p)
        PROVE  [Next]_vars
    BY <1>9 DEF Input
  <1>10. ASSUME NEW h \in Handler, NEW w \in WriteResult, OutputStep(h, w)
         PROVE  Next
    BY <1>10, HandlerSteps DEF OutputStep, Output, InputOutput
  <1>11. CASE Buffers \/ \E err \in Errno : Errors(err)
    BY <1>11 DEF Buffers, Errors, Next
  <1> QED BY <1>1, <1>2, <1>3, <1>4, <1>5, <1>6, <1>7, <1>8, <1>9, <1>10, <1>11
          DEF ReactorNext, Loop, Events

(* Using a deleted object changes nothing that the proofs about the        *)
(* handlers speak of.                                                      *)
LEMMA AbandonedKeeps == IInv /\ Abandoned => IInv'
  <1> SUFFICES ASSUME IInv, Abandoned PROVE IInv'
    OBVIOUS
  <1>1. TypeOK'
    BY DEF IInv, TypeOK, Abandoned, hist_vars
  <1>2. ASSUME NEW g \in Handler PROVE HandlerInv(g)'
    BY Frame DEF IInv, Abandoned, hist_vars
  <1> QED BY <1>1, <1>2 DEF IInv

(* Every step of the loop keeps the map, the kernel and the handlers in    *)
(* agreement.                                                              *)
LEMMA RegistrationStep ==
    ASSUME RInv, [ReactorNext]_reactor_vars
    PROVE  RegType' /\ RegisteredExactly'
  <1>0. writable \subseteq Handler
    BY DEF RInv, RegType
  <1>1. CASE Poll \/ EndBatch \/ EndLoop \/ ClosePoller \/ InputDone \/ InputDeleted \/ Signal
    <2>1. Kept /\ UNCHANGED <<fd, interest, table>>
      BY <1>1 DEF Poll, EndBatch, EndLoop, ClosePoller, InputDone, InputDeleted, Signal, vars, reg_vars, Kept
    <2>2. writable' \subseteq Handler
      BY <1>0, <1>1 DEF Poll, EndBatch, EndLoop, ClosePoller, InputDone, InputDeleted, Signal, Leave
    <2> QED BY <2>1, <2>2, NothingRegistered
  <1>2. ASSUME NEW d \in Fd, CloseFirst(d)
        PROVE  RegType' /\ RegisteredExactly'
    <2>1. table[d] \in Handler /\ open[table[d]] /\ writable' \subseteq Handler
      BY <1>0, <1>2 DEF CloseFirst, RInv, RegType, RegisteredExactly, poller_vars
    <2>2. HandleClose(table[d]) /\ Unregister(table[d])
      BY <1>2, <2>1 DEF CloseFirst
    <2> QED BY <2>1, <2>2, HandlerEffect, UnregisterKeeps
  <1>3. CASE InputFails
    <2>1. current \in Handler /\ HandleClose(current) /\ Unregister(current) /\ writable' \subseteq Handler
      BY <1>0, <1>3 DEF InputFails, Leave
    <2> QED BY <2>1, HandlerEffect, UnregisterKeeps
  <1>4. ASSUME NEW h \in Handler, StaleEvent(h)
        PROVE  RegType' /\ RegisteredExactly'
    <2>1. Kept /\ UNCHANGED <<fd, interest, table>> /\ writable' \subseteq Handler
      BY <1>0, <1>4 DEF StaleEvent, Dispatch, reg_vars, Kept
    <2> QED BY <2>1, NothingRegistered
  <1>5. ASSUME NEW h \in Handler, Hangup(h) \/ CloseInInput(h)
        PROVE  RegType' /\ RegisteredExactly'
    <2>1. HandleClose(h) /\ Unregister(h) /\ writable' \subseteq Handler
      BY <1>0, <1>5 DEF Hangup, CloseInInput, Dispatch, InInput, poller_vars
    <2> QED BY <2>1, HandlerEffect, UnregisterKeeps
  <1>6. ASSUME NEW h \in Handler, Put(h)
        PROVE  RegType' /\ RegisteredExactly'
    <2>1. Registered(h) /\ writable' \subseteq Handler
      BY <1>0, <1>6 DEF Put, InInput, poller_vars
    <2>2. open[h] /\ (Kept \/ Deletes(h))
      BY <1>6, HandlerEffect DEF Put
    <2> QED BY <2>1, <2>2, RegisteredKeeps
  <1>7. ASSUME NEW h \in Handler, NEW d \in Fd, Accept(h, d)
        PROVE  RegType' /\ RegisteredExactly'
    BY <1>7, AcceptKeeps
  <1>8. ASSUME NEW p \in Handler \cup {Service}, Input(p)
        PROVE  RegType' /\ RegisteredExactly'
    <2>1. Kept /\ UNCHANGED <<fd, interest, table>> /\ writable' \subseteq Handler
      BY <1>0, <1>8 DEF Input, Dispatch, vars, reg_vars, Kept
    <2> QED BY <2>1, NothingRegistered
  <1>9. ASSUME NEW h \in Handler, NEW w \in WriteResult, OutputStep(h, w)
        PROVE  RegType' /\ RegisteredExactly'
    <2>1. HandleOutput(h, w) /\ Registered(h) /\ writable' \subseteq Handler
      BY <1>0, <1>9 DEF OutputStep, Output, InputOutput, Dispatch, Leave
    <2>2. open[h] /\ (Kept \/ Deletes(h))
      BY <2>1, HandlerEffect
    <2> QED BY <2>1, <2>2, RegisteredKeeps
  <1>10. CASE Buffers \/ (\E err \in Errno : Errors(err)) \/ UNCHANGED reactor_vars
    <2>1. Kept /\ UNCHANGED <<fd, interest, table>> /\ writable' \subseteq Handler
      BY <1>0, <1>10 DEF Buffers, Errors, NewMbuf, OtherError, sock_vars, reg_vars, poller_vars,
                         reactor_vars, vars, Kept
    <2> QED BY <2>1, NothingRegistered
  <1> QED BY <1>1, <1>2, <1>3, <1>4, <1>5, <1>6, <1>7, <1>8, <1>9, <1>10
          DEF ReactorNext, Loop, Events

LEMMA RInvInit == ReactorInit => RInv
  <1> SUFFICES ASSUME ReactorInit PROVE RInv
    OBVIOUS
  <1>1. IInv
    BY InitIInv DEF ReactorInit
  <1>2. RegType /\ RegisteredExactly
    BY FdFacts DEF ReactorInit, Init, RegType, RegisteredExactly
  <1> QED BY <1>1, <1>2 DEF RInv

LEMMA RInvStep == RInv /\ [ReactorNext]_reactor_vars => RInv'
  <1> SUFFICES ASSUME RInv, [ReactorNext]_reactor_vars PROVE RInv'
    OBVIOUS
  <1>1. IInv'
    BY StepOfHandlers, NextIInv, AbandonedKeeps DEF RInv
  <1> QED BY <1>1, RegistrationStep DEF RInv

(* The inductive invariant of the loop.                                    *)
THEOREM ReactorInvariance == ReactorSpec => []RInv
  BY RInvInit, RInvStep, PTL DEF ReactorSpec

(* CPollerEpoll's map and the epoll set know exactly the open handlers,    *)
(* each under its own descriptor, however descriptors and addresses are    *)
(* reused.  So close() of the poller, which calls handle_close() of        *)
(* whatever the map holds, never calls a deleted handler.                  *)
THEOREM RegisteredExactlyHolds == ReactorSpec => []RegisteredExactly
  <1>1. RInv => RegisteredExactly
    BY DEF RInv
  <1> QED BY <1>1, ReactorInvariance, PTL

(* What CEventHandler promises of its output queue holds in the loop:      *)
(* EVENT_WRITE is registered exactly while packets wait, the queue is      *)
(* bounded, and nothing accepted is lost or overtaken.                     *)
THEOREM QueuesInTheLoop == ReactorSpec => [](WriteScheduled /\ QueueBounded /\ FifoNoLoss)
  <1>1. IInv => WriteScheduled /\ QueueBounded /\ FifoNoLoss
    BY DEF IInv, HandlerInv, Consistent, WriteScheduled, QueueBounded, FifoNoLoss
  <1>2. RInv => WriteScheduled /\ QueueBounded /\ FifoNoLoss
    BY <1>1 DEF RInv
  <1> QED BY <1>2, ReactorInvariance, PTL

(* No step of the loop lets a packet overtake another on the wire or       *)
(* leaves one out.                                                         *)
THEOREM WireInOrderInTheLoop == ReactorSpec => WireInOrder
  <1>1. RInv /\ [ReactorNext]_reactor_vars =>
          [\A h \in Handler : open[h] /\ open'[h] =>
              last_no'[h] \in {last_no[h], last_no[h] + 1}]_vars
    <2> SUFFICES ASSUME RInv, [ReactorNext]_reactor_vars
                 PROVE  [\A h \in Handler : open[h] /\ open'[h] =>
                            last_no'[h] \in {last_no[h], last_no[h] + 1}]_vars
      OBVIOUS
    <2>1. CASE [Next]_vars
      BY <2>1, StepInOrder DEF RInv
    <2>2. CASE Abandoned
      BY <2>2 DEF Abandoned, hist_vars
    <2> QED BY <2>1, <2>2, StepOfHandlers
  <1> QED BY <1>1, ReactorInvariance, PTL DEF ReactorSpec, WireInOrder

-----------------------------------------------------------------------------
(* A handler that the rest of the batch refers to is open, or its deletion *)
(* since epoll_wait() is on record.                                        *)
Tracked == \A h \in Handler : h \in batch => h \in stale \/ open[h]

(* Poller's side of a deletion puts the handler on record if the batch     *)
(* still refers to it.                                                     *)
LEMMA DeletedIsTracked ==
    ASSUME RInv, Tracked, NEW h \in Handler, open[h], Kept \/ Deletes(h), Registered(h) \/ Unregister(h),
           batch' \subseteq batch
    PROVE  Tracked'
  <1>1. open \in [Handler -> BOOLEAN]
    BY DEF RInv, IInv, TypeOK
  <1>2. stale \subseteq stale'
    BY DEF Registered, Unregister, reg_vars
  <1>3. CASE Kept
    BY <1>2, <1>3 DEF Tracked, Kept
  <1>4. CASE Deletes(h)
    <2>1. Unregister(h)
      BY <1>1, <1>4 DEF Registered, Deletes
    <2>2. h \in batch' => h \in stale'
      BY <2>1 DEF Unregister
    <2> QED BY <1>1, <1>2, <1>4, <2>2 DEF Tracked, Deletes
  <1> QED BY <1>3, <1>4

LEMMA TrackedStep ==
    ASSUME RInv, Tracked, [ReactorNext]_reactor_vars
    PROVE  Tracked'
  <1>1. CASE Poll
    <2>1. ASSUME NEW h \in Handler, h \in batch' PROVE open'[h]
      <3>1. PICK d \in Fd : interest[d] = h
        BY <1>1, <2>1, PointerAssumption DEF Poll
      <3> QED BY <1>1, <3>1 DEF Poll, RInv, RegisteredExactly, vars
    <2> QED BY <2>1 DEF Tracked
  <1>2. CASE EndBatch
    BY <1>2 DEF EndBatch, Tracked
  <1>3. CASE EndLoop \/ ClosePoller \/ InputDone \/ InputDeleted \/ Signal
    BY <1>3 DEF EndLoop, ClosePoller, InputDone, InputDeleted, Signal, Leave, vars, reg_vars, Tracked
  <1>4. ASSUME NEW d \in Fd, CloseFirst(d)
        PROVE  Tracked'
    <2>1. table[d] \in Handler /\ open[table[d]] /\ batch' \subseteq batch
      BY <1>4 DEF CloseFirst, RInv, RegType, RegisteredExactly, poller_vars
    <2>2. HandleClose(table[d]) /\ Unregister(table[d])
      BY <1>4, <2>1 DEF CloseFirst
    <2> QED BY <2>1, <2>2, HandlerEffect, DeletedIsTracked
  <1>5. CASE InputFails
    <2>1. /\ current \in Handler /\ open[current] /\ batch' \subseteq batch
          /\ HandleClose(current) /\ Unregister(current)
      BY <1>5 DEF InputFails, Leave
    <2> QED BY <2>1, HandlerEffect, DeletedIsTracked
  <1>6. ASSUME NEW p \in Handler \cup {Service}, (p \in Handler /\ StaleEvent(p)) \/ Input(p)
        PROVE  Tracked'
    BY <1>6 DEF StaleEvent, Input, Dispatch, vars, reg_vars, Tracked
  <1>7. ASSUME NEW h \in Handler, Hangup(h) \/ CloseInInput(h)
        PROVE  Tracked'
    <2>1. HandleClose(h) /\ Unregister(h) /\ batch' \subseteq batch
      BY <1>7 DEF Hangup, CloseInInput, Dispatch, InInput, poller_vars
    <2> QED BY <2>1, HandlerEffect, DeletedIsTracked DEF Deletes
  <1>8. ASSUME NEW h \in Handler, Put(h)
        PROVE  Tracked'
    <2>1. Registered(h) /\ batch' \subseteq batch
      BY <1>8 DEF Put, InInput, poller_vars
    <2>2. open[h] /\ (Kept \/ Deletes(h))
      BY <1>8, HandlerEffect DEF Put
    <2> QED BY <2>1, <2>2, DeletedIsTracked
  <1>9. ASSUME NEW h \in Handler, NEW d \in Fd, Accept(h, d)
        PROVE  Tracked'
    <2>1. open \in [Handler -> BOOLEAN] /\ open' = [open EXCEPT ![h] = TRUE]
      BY <1>9 DEF RInv, IInv, TypeOK, Accept, Open
    <2>2. batch' \subseteq batch /\ stale' = stale
      BY <1>9 DEF Accept, Dispatch
    <2> QED BY <2>1, <2>2 DEF Tracked
  <1>10. ASSUME NEW h \in Handler, NEW w \in WriteResult, OutputStep(h, w)
         PROVE  Tracked'
    <2>1. HandleOutput(h, w) /\ Registered(h) /\ batch' \subseteq batch
      BY <1>10 DEF OutputStep, Output, InputOutput, Dispatch, Leave
    <2>2. open[h] /\ (Kept \/ Deletes(h))
      BY <2>1, HandlerEffect
    <2> QED BY <2>1, <2>2, DeletedIsTracked
  <1>11. CASE Buffers \/ (\E err \in Errno : Errors(err)) \/ UNCHANGED reactor_vars
    BY <1>11 DEF Buffers, Errors, NewMbuf, OtherError, sock_vars, reg_vars, poller_vars,
                 reactor_vars, vars, Tracked
  <1> QED BY <1>1, <1>2, <1>3, <1>4, <1>5, <1>6, <1>7, <1>8, <1>9, <1>10, <1>11
          DEF ReactorNext, Loop, Events

(* An event of the batch finds its handler open, unless the handler was    *)
(* deleted after epoll_wait() returned: only events of handlers deleted    *)
(* within their own batch reach a deleted object, or a new one at its      *)
(* address.                                                                *)
THEOREM BatchIsTracked == ReactorSpec => []Tracked
  <1>1. ReactorInit => Tracked
    BY DEF ReactorInit, Tracked
  <1>2. RInv /\ Tracked /\ [ReactorNext]_reactor_vars => Tracked'
    BY TrackedStep
  <1> QED BY <1>1, <1>2, ReactorInvariance, PTL DEF ReactorSpec

=============================================================================

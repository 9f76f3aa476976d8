---------------------------- MODULE EventHandler ----------------------------
(***************************************************************************)
(* The output side of CEventHandler (src/src/reactor/event_handler.cpp):   *)
(* every packet the broker sends goes through put(), which writes to a     *)
(* non-blocking socket and keeps what the kernel did not take in           *)
(* m_send_msg_queue until epoll reports EPOLLOUT and handle_output() runs. *)
(*                                                                         *)
(* All handlers of a reactor live in one thread.  They share the thread's  *)
(* errno, and they share message buffers: a PUBLISH is one CMbuf that is   *)
(* put() on the socket of every subscriber, with one read pointer.         *)
(***************************************************************************)
EXTENDS Integers, Sequences

CONSTANTS
    Handler,        \* the CEventHandler objects (connections)
    Mbuf,           \* the message buffers
    MaxMsgInBuffer, \* m_max_msg_in_buffer, 50 in the code
    PktLen,         \* the bytes of a packet
    MaxPut,         \* bound: packets accepted by one handler
    SpuriousOut     \* whether a write right after EPOLLOUT may still block

ASSUME BufferAssumption == MaxMsgInBuffer \in Nat \ {0}
ASSUME LengthAssumption == PktLen \in Nat \ {0}
ASSUME BoundAssumption  == MaxPut \in Nat
ASSUME SpuriousAssumption == SpuriousOut \in BOOLEAN

VARIABLES
    open,     \* open[h]: the object exists and its descriptor is registered
    mask,     \* m_current_event_mask
    queue,    \* m_send_msg_queue; "no" is the ordinal the packet was accepted under
    rptr,     \* the read pointer of each mbuf
    errno,    \* the thread's errno: "EAGAIN" (EWOULDBLOCK, EINTR) or another value
    fault,    \* a deleted handler has been used: nothing is known any more
    accepted, \* history: how many packets put() took on since open()
    written,  \* history: bytes of the oldest unfinished packet already written
    last_no   \* history: the ordinal of the packet last written to the socket

sock_vars == <<open, mask, queue>>
hist_vars == <<accepted, written, last_no>>
vars == <<open, mask, queue, rptr, errno, fault, accepted, written, last_no>>

Entry == [mbuf : Mbuf, no : Nat]

Errno == {"EAGAIN", "other"}

(* What ::write() can return: -1 a hard error, 0 stands for EAGAIN,        *)
(* EWOULDBLOCK or EINTR, and n > 0 the bytes the kernel took.              *)
Error == -1
Block == 0
WriteResult == -1 .. PktLen

length(m) == PktLen - rptr[m]

Init ==
    /\ open = [h \in Handler |-> FALSE]
    /\ mask = [h \in Handler |-> {}]
    /\ queue = [h \in Handler |-> <<>>]
    /\ rptr = [m \in Mbuf |-> 0]
    /\ errno = "other"
    /\ fault = FALSE
    /\ accepted = [h \in Handler |-> 0]
    /\ written = [h \in Handler |-> 0]
    /\ last_no = [h \in Handler |-> 0]

-----------------------------------------------------------------------------
(* Mutant: the write event is never registered.                            *)
schedule_write_forgotten(events) == events

schedule_write(events) == events \cup {"WRITE"}

(* mod_event() is called with mask ^ EVENT_WRITE: the bit is toggled.      *)
cancel_schedule_write(events) ==
    IF "WRITE" \in events THEN events \ {"WRITE"} ELSE events \cup {"WRITE"}

(* send() copies errno after every ::write(), but a successful call leaves *)
(* errno alone: a full write reports the value an earlier call left there. *)
my_errno(m, w) == IF w = Block \/ w \in 1 .. length(m) - 1 THEN "EAGAIN" ELSE errno

(* Mutant: the packet is put back behind the waiting ones.                 *)
push_front_at_back(e, q) == Append(q, e)

(* nonblk_send() puts an unfinished packet back at the front of the queue. *)
push_front(e, q) == <<e>> \o q

(* The branch of nonblk_send() that puts the packet back.                  *)
Requeued(m, w) == w # Error /\ my_errno(m, w) = "EAGAIN"

(* The bytes by which send() moves the read pointer after a partial write. *)
Skipped(m, w) == IF w \in 1 .. length(m) - 1 THEN w ELSE 0

(* The effect of send() on the buffer, on errno and on the peer's stream.  *)
send(h, e, w) ==
    /\ rptr' = [rptr EXCEPT ![e.mbuf] = @ + Skipped(e.mbuf, w)]
    /\ errno' = CASE w = Block -> "EAGAIN"
                  [] w \in {Error, length(e.mbuf)} -> "other"
                  [] OTHER -> errno
    /\ written' = [written EXCEPT ![h] = 
           IF ~Requeued(e.mbuf, w) THEN 0 ELSE IF @ + w > PktLen THEN PktLen ELSE @ + w]
    /\ last_no' = [last_no EXCEPT ![h] = IF w > 0 THEN e.no ELSE @]

(* handle_close(): del_event(), close the descriptor, delete this.         *)
Closed(h) ==
    /\ open' = [open EXCEPT ![h] = FALSE]
    /\ mask' = [mask EXCEPT ![h] = {}]
    /\ queue' = [queue EXCEPT ![h] = <<>>]

-----------------------------------------------------------------------------
(* A descriptor is accepted and registered for EVENT_READ.                 *)
Open(h) ==
    /\ ~fault /\ ~open[h]
    /\ open' = [open EXCEPT ![h] = TRUE]
    /\ mask' = [mask EXCEPT ![h] = {"READ"}]
    /\ queue' = [queue EXCEPT ![h] = <<>>]
    /\ accepted' = [accepted EXCEPT ![h] = 0]
    /\ written' = [written EXCEPT ![h] = 0]
    /\ last_no' = [last_no EXCEPT ![h] = 0]
    /\ UNCHANGED <<rptr, errno, fault>>

(* put() with an empty queue: nonblk_send() writes at once.  The packet is *)
(* accepted unless ::write() fails, in which case the handler is deleted   *)
(* and the caller only sees -1.                                            *)
PutSend(h, m, w) ==
    /\ ~fault /\ open[h] /\ queue[h] = <<>> /\ accepted[h] < MaxPut
    /\ w <= length(m)
    /\ LET e == [mbuf |-> m, no |-> accepted[h] + 1] IN
        /\ send(h, e, w)
        /\ IF w = Error
           THEN Closed(h) /\ UNCHANGED accepted
           ELSE /\ accepted' = [accepted EXCEPT ![h] = @ + 1]
                /\ queue' = [queue EXCEPT ![h] = IF Requeued(m, w) THEN push_front(e, @) ELSE @]
                /\ mask' = [mask EXCEPT ![h] = IF Requeued(m, w) THEN schedule_write(@) ELSE @]
                /\ UNCHANGED open
    /\ UNCHANGED fault

(* Mutant: the size of the queue is compared with > instead of >=.         *)
PutQueue_OneTooMany(h, m) ==
    /\ ~fault /\ open[h] /\ queue[h] # <<>> /\ accepted[h] < MaxPut
    /\ Len(queue[h]) <= MaxMsgInBuffer
    /\ queue' = [queue EXCEPT ![h] = Append(@, [mbuf |-> m, no |-> accepted[h] + 1])]
    /\ mask' = [mask EXCEPT ![h] = schedule_write(@)]
    /\ accepted' = [accepted EXCEPT ![h] = @ + 1]
    /\ UNCHANGED <<open, rptr, errno, fault, written, last_no>>

(* put() behind other packets.  A full queue refuses the packet with -1    *)
(* and changes nothing.                                                    *)
PutQueue(h, m) ==
    /\ ~fault /\ open[h] /\ queue[h] # <<>> /\ accepted[h] < MaxPut
    /\ Len(queue[h]) < MaxMsgInBuffer
    /\ queue' = [queue EXCEPT ![h] = Append(@, [mbuf |-> m, no |-> accepted[h] + 1])]
    /\ mask' = [mask EXCEPT ![h] = schedule_write(@)]
    /\ accepted' = [accepted EXCEPT ![h] = @ + 1]
    /\ UNCHANGED <<open, rptr, errno, fault, written, last_no>>

(* epoll reports EPOLLOUT: one packet is taken from the front and sent.    *)
(* When ::write() fails, nonblk_send() deletes the handler, and            *)
(* handle_output() goes on to read the queue of the deleted object.        *)
HandleOutput(h, w) ==
    /\ ~fault /\ open[h] /\ "WRITE" \in mask[h]
    /\ w = Block => SpuriousOut
    /\ IF queue[h] = <<>>
       THEN /\ mask' = [mask EXCEPT ![h] = cancel_schedule_write(@)]
            /\ UNCHANGED <<open, queue, rptr, errno, fault, hist_vars>>
       ELSE LET e == Head(queue[h])
                m == e.mbuf
                rest == Tail(queue[h])
                q == IF Requeued(m, w) THEN push_front(e, rest) ELSE rest
                scheduled == IF Requeued(m, w) THEN schedule_write(mask[h]) ELSE mask[h]
            IN /\ w <= length(m)
               /\ send(h, e, w)
               /\ UNCHANGED accepted
               /\ IF w = Error
                  THEN Closed(h) /\ fault' = TRUE
                  ELSE /\ queue' = [queue EXCEPT ![h] = q]
                       /\ mask' = [mask EXCEPT ![h] =
                             IF q = <<>> THEN cancel_schedule_write(scheduled) ELSE scheduled]
                       /\ UNCHANGED <<open, fault>>

(* The reactor closes a handler after EPOLLHUP, EPOLLERR or a failed       *)
(* handle_input(), outside of put() and handle_output().                   *)
HandleClose(h) ==
    /\ ~fault /\ open[h]
    /\ Closed(h)
    /\ accepted' = [accepted EXCEPT ![h] = 0]
    /\ written' = [written EXCEPT ![h] = 0]
    /\ last_no' = [last_no EXCEPT ![h] = 0]
    /\ UNCHANGED <<rptr, errno, fault>>

(* The last reference to a buffer goes and a new packet is built in a      *)
(* fresh one.                                                              *)
NewMbuf(m) ==
    /\ ~fault /\ rptr[m] # 0
    /\ \A h \in Handler : \A i \in 1 .. Len(queue[h]) : queue[h][i].mbuf # m
    /\ rptr' = [rptr EXCEPT ![m] = 0]
    /\ UNCHANGED <<sock_vars, errno, fault, hist_vars>>

(* Another system call of the thread fails and leaves its own error code.  *)
OtherError(err) ==
    /\ ~fault /\ errno # err
    /\ errno' = err
    /\ UNCHANGED <<sock_vars, rptr, fault, hist_vars>>

Next ==
    \/ \E h \in Handler : Open(h) \/ HandleClose(h)
    \/ \E h \in Handler, m \in Mbuf : PutQueue(h, m)
    \/ \E h \in Handler, m \in Mbuf, w \in WriteResult : PutSend(h, m, w)
    \/ \E h \in Handler, w \in WriteResult : HandleOutput(h, w)
    \/ \E m \in Mbuf : NewMbuf(m)
    \/ \E err \in Errno : OtherError(err)

Spec == Init /\ [][Next]_vars

(* The reactor loop dispatches EPOLLOUT again and again while EVENT_WRITE  *)
(* is registered, and a peer that keeps reading frees space, so that some  *)
(* of these writes take bytes.                                             *)
Progress(h) == \E w \in 1 .. PktLen : HandleOutput(h, w)
Fairness == \A h \in Handler : WF_vars(Progress(h))
FairSpec == Spec /\ Fairness

-----------------------------------------------------------------------------
TypeOK ==
    /\ open \in [Handler -> BOOLEAN]
    /\ mask \in [Handler -> SUBSET {"READ", "WRITE"}]
    /\ queue \in [Handler -> Seq(Entry)]
    /\ rptr \in [Mbuf -> 0 .. PktLen - 1]
    /\ errno \in Errno
    /\ fault \in BOOLEAN
    /\ accepted \in [Handler -> 0 .. MaxPut]
    /\ written \in [Handler -> 0 .. PktLen]
    /\ last_no \in [Handler -> Nat]

(* EVENT_WRITE is registered exactly while packets wait.  If it were not,  *)
(* a queue would never be drained, or handle_output() would be called with *)
(* an empty queue ("The list had better not be empty", line 118) and the   *)
(* toggle in cancel_schedule_write() would keep EPOLLOUT registered.       *)
WriteScheduled ==
    \A h \in Handler : open[h] => ("WRITE" \in mask[h] <=> queue[h] # <<>>)

(* The queue never outgrows m_max_msg_in_buffer, although nonblk_send()    *)
(* pushes to the front without looking at its size.                        *)
QueueBounded == \A h \in Handler : Len(queue[h]) <= MaxMsgInBuffer

(* What waits in the queue is the most recently accepted packets, in the   *)
(* order put() took them ("Queue in *front* of the list to preserve        *)
(* order"), and the socket is at the packet before the first of them or in *)
(* the first: nothing accepted is skipped, overtaken or lost while the     *)
(* handler is open.                                                        *)
FifoNoLoss ==
    \A h \in Handler : open[h] =>
        LET n == Len(queue[h]) IN
        /\ \A i \in 1 .. n : queue[h][i].no = accepted[h] - n + i
        /\ last_no[h] \in {accepted[h] - n, accepted[h] - n + 1}
        /\ n = 0 => last_no[h] = accepted[h]

(* The peer never sees a packet after a later one, and never misses one in *)
(* between: the ordinal on the wire stays or moves to the next one.        *)
WireInOrder ==
    [][\A h \in Handler : open[h] /\ open'[h] =>
          last_no'[h] \in {last_no[h], last_no[h] + 1}]_vars

(* Every accepted packet reaches the socket unless the handler is closed.  *)
EventuallyWritten ==
    \A h \in Handler : \A k \in 1 .. MaxPut :
        (open[h] /\ accepted[h] >= k) ~> (last_no[h] >= k \/ ~open[h] \/ fault)

(* Line 282: the read pointer is moved "to skip over the part we did       *)
(* send": no socket starts or resumes a packet past what it has written.   *)
SkippedWasSent ==
    [][\A h \in Handler, m \in Mbuf, w \in 1 .. PktLen :
          /\ PutSend(h, m, w) => rptr[m] = 0
          /\ HandleOutput(h, w) => rptr[Head(queue[h]).mbuf] <= written[h]]_vars
=============================================================================

------------------------------ MODULE Reactor -------------------------------
(***************************************************************************)
(* The reactor loop around the event handlers: CPollerEpoll collects a     *)
(* batch of events with epoll_wait() and dispatches them one by one, and a *)
(* handler that runs may send on and close other handlers of the batch.    *)
(*                                                                         *)
(* A handler is an address: new may return that of a deleted object.  The  *)
(* kernel gives out the lowest free descriptor.  Which events come in is   *)
(* decided when they are dispatched, from what was registered when the     *)
(* batch was collected.  An event for an object that was deleted meanwhile *)
(* sets fault, after which nothing is known.                               *)
(***************************************************************************)
EXTENDS EventHandler, FiniteSets

CONSTANTS
    Acceptor,  \* the handler of the listening socket
    Service,   \* the handlers of the timerfd, the eventfd and the signalfd
    NoHandler

ASSUME PointerAssumption == Acceptor # Service /\ {Acceptor, Service, NoHandler} \cap Handler = {}

VARIABLES
    fd,        \* m_sock_handle of each handler
    interest,  \* the kernel: the handler registered with each descriptor
    table,     \* m_map_event_handlers
    phase,     \* where the loop is
    batch,     \* the handlers of the batch that may still have an event
    writable,  \* those of them that were registered for EVENT_WRITE
    stale,     \* those of them that were deleted after the batch was collected
    current,   \* the handler whose handle_input() runs
    running    \* m_running_flag

poller_vars == <<phase, batch, writable, current, running>>
reg_vars == <<fd, interest, table, stale>>
reactor_vars == <<vars, reg_vars, poller_vars>>

NoFd == 0
Fd == 1 .. Cardinality(Handler)

ReactorInit ==
    /\ Init
    /\ fd = [h \in Handler |-> NoFd]
    /\ interest = [d \in Fd |-> NoHandler] /\ table = [d \in Fd |-> NoHandler]
    /\ phase = "poll" /\ batch = {} /\ writable = {} /\ stale = {}
    /\ current = NoHandler /\ running = TRUE

-----------------------------------------------------------------------------
(* add_event(): an entry that is already in the map is left as it is.      *)
add_event(h, d) ==
    /\ interest' = [interest EXCEPT ![d] = h]
    /\ table' = [table EXCEPT ![d] = IF @ = NoHandler THEN h ELSE @]

(* Mutant: the map keeps the entry.                                        *)
del_event_NoErase(h) ==
    /\ interest' = [interest EXCEPT ![fd[h]] = NoHandler]
    /\ UNCHANGED table

del_event(h) ==
    /\ interest' = [interest EXCEPT ![fd[h]] = NoHandler]
    /\ table' = [table EXCEPT ![fd[h]] = NoHandler]

(* Poller's side of handle_close(): del_event(), close the descriptor.     *)
Unregister(h) ==
    /\ del_event(h)
    /\ fd' = [fd EXCEPT ![h] = NoFd]
    /\ stale' = IF h \in batch' THEN stale \cup {h} ELSE stale

(* What a step of a handler means for the poller.                          *)
Registered(h) == IF open'[h] THEN UNCHANGED reg_vars ELSE Unregister(h)

-----------------------------------------------------------------------------
(* Mutant: the flag is not looked at before the next batch.                *)
Poll_Stopped ==
    /\ ~fault /\ phase = "poll"
    /\ batch' = {interest[d] : d \in {e \in Fd : interest[e] # NoHandler}} \cup {Acceptor, Service}
    /\ writable' = {h \in Handler : "WRITE" \in mask[h]}
    /\ phase' = "dispatch" /\ stale' = {}
    /\ UNCHANGED <<vars, fd, interest, table, current, running>>

(* run(): epoll_wait() reports on the descriptors that are registered now. *)
Poll ==
    /\ ~fault /\ phase = "poll" /\ running
    /\ batch' = {interest[d] : d \in {e \in Fd : interest[e] # NoHandler}} \cup {Acceptor, Service}
    /\ writable' = {h \in Handler : "WRITE" \in mask[h]}
    /\ phase' = "dispatch" /\ stale' = {}
    /\ UNCHANGED <<vars, fd, interest, table, current, running>>

Dispatch(p) ==
    /\ ~fault /\ phase = "dispatch" /\ p \in batch
    /\ batch' = batch \ {p} /\ writable' = writable \cap batch
    /\ UNCHANGED running

Sound(h) == h \in Handler \ stale

(* The pointer in the event belongs to an object that is gone.             *)
StaleEvent(h) ==
    /\ Dispatch(h) /\ h \in stale
    /\ fault' = TRUE
    /\ UNCHANGED <<open, mask, queue, rptr, errno, hist_vars, reg_vars, phase, current>>

(* EPOLLHUP or EPOLLERR.                                                   *)
Hangup(h) ==
    /\ Dispatch(h) /\ Sound(h)
    /\ HandleClose(h) /\ Unregister(h)
    /\ UNCHANGED <<phase, current>>

LowestFree(d) ==
    /\ \A g \in Handler : fd[g] # d
    /\ \A e \in 1 .. d - 1 : \E g \in Handler : fd[g] = e

(* EPOLLIN of the listening socket: accept a connection and open() it.     *)
(* When accept4() fails, the new object is not registered and leaks.       *)
Accept(h, d) ==
    /\ Dispatch(Acceptor) /\ LowestFree(d)
    /\ Open(h) /\ add_event(h, d)
    /\ fd' = [fd EXCEPT ![h] = d]
    /\ UNCHANGED <<stale, phase, current>>

(* EPOLLIN: handle_input() begins.                                         *)
Input(p) ==
    /\ Dispatch(p) /\ (Sound(p) \/ p = Service)
    /\ phase' = "input" /\ current' = p
    /\ UNCHANGED <<vars, reg_vars>>

(* EPOLLOUT without EPOLLIN.                                               *)
Output(h, w) ==
    /\ Dispatch(h) /\ Sound(h) /\ h \in writable
    /\ HandleOutput(h, w) /\ Registered(h)
    /\ UNCHANGED <<phase, current>>

(* What handle_input() does to handlers: it puts packets on the sockets of *)
(* subscribers, and closes connections: that of a client that connects     *)
(* again, its own after a second CONNECT with the same client id, and in   *)
(* store() those that have been idle for too long.                         *)
InInput == ~fault /\ phase = "input" /\ UNCHANGED poller_vars

Put(h) ==
    /\ InInput
    /\ \E m \in Mbuf : PutQueue(h, m) \/ \E w \in WriteResult : PutSend(h, m, w)
    /\ Registered(h)

CloseInInput(h) ==
    /\ InInput
    /\ HandleClose(h) /\ Unregister(h)

(* CSigHandler::handle_input().                                            *)
Signal ==
    /\ ~fault /\ phase = "input" /\ current = Service /\ running
    /\ running' = FALSE
    /\ UNCHANGED <<vars, reg_vars, phase, batch, writable, current>>

(* handle_input() returns.  If it has closed its own connection, or one of *)
(* its own packets could not be written, it ran on in a deleted object.    *)
Leave ==
    /\ ~fault /\ phase = "input"
    /\ phase' = "dispatch" /\ current' = NoHandler
    /\ UNCHANGED <<batch, writable, running>>

InputDeleted ==
    /\ Leave /\ current \in Handler /\ ~open[current]
    /\ fault' = TRUE
    /\ UNCHANGED <<open, mask, queue, rptr, errno, hist_vars, reg_vars>>

InputDone ==
    /\ Leave /\ (current \in Handler => open[current])
    /\ UNCHANGED <<vars, reg_vars>>

(* The event had EPOLLOUT, too.                                            *)
InputOutput(w) ==
    /\ Leave /\ current \in writable
    /\ HandleOutput(current, w) /\ Registered(current)

(* handle_input() < 0: the poller closes the handler.                      *)
InputFails ==
    /\ Leave /\ current \in Handler /\ open[current]
    /\ HandleClose(current) /\ Unregister(current)

(* No more events in the batch; run_event_loop() calls run() again.        *)
EndBatch ==
    /\ ~fault /\ phase = "dispatch"
    /\ phase' = "poll" /\ batch' = {} /\ writable' = {} /\ stale' = {}
    /\ UNCHANGED <<vars, fd, interest, table, current, running>>

(* run() returns false, and the loop ends.                                 *)
EndLoop ==
    /\ ~fault /\ phase = "poll" /\ ~running
    /\ phase' = "close"
    /\ UNCHANGED <<vars, reg_vars, batch, writable, current, running>>

(* close() of the poller calls handle_close() of the first entry of the    *)
(* map until the map is empty.                                             *)
CloseFirst(d) ==
    /\ ~fault /\ phase = "close" /\ table[d] # NoHandler
    /\ UNCHANGED poller_vars
    /\ IF open[table[d]]
       THEN HandleClose(table[d]) /\ Unregister(table[d])
       ELSE /\ fault' = TRUE
            /\ UNCHANGED <<open, mask, queue, rptr, errno, hist_vars, reg_vars>>

ClosePoller ==
    /\ ~fault /\ phase = "close" /\ \A d \in Fd : table[d] = NoHandler
    /\ phase' = "closed"
    /\ UNCHANGED <<vars, reg_vars, batch, writable, current, running>>

(* errno after other system calls, and fresh buffers.                      *)
Errors(err) == OtherError(err) /\ UNCHANGED <<reg_vars, poller_vars>>
Buffers == (\E m \in Mbuf : NewMbuf(m)) /\ UNCHANGED <<reg_vars, poller_vars>>

OutputStep(h, w) == Output(h, w) \/ (current = h /\ InputOutput(w))

Loop ==
    \/ Poll \/ EndBatch \/ EndLoop \/ ClosePoller
    \/ \E d \in Fd : CloseFirst(d)
    \/ InputDeleted \/ InputDone \/ InputFails

Events ==
    \/ \E h \in Handler : StaleEvent(h) \/ Hangup(h) \/ Put(h) \/ CloseInInput(h)
    \/ \E h \in Handler, d \in Fd : Accept(h, d)
    \/ \E p \in Handler \cup {Service} : Input(p)
    \/ Signal

ReactorNext ==
    \/ Loop \/ Events
    \/ \E h \in Handler, w \in WriteResult : OutputStep(h, w)
    \/ Buffers \/ \E err \in Errno : Errors(err)

ReactorSpec == ReactorInit /\ [][ReactorNext]_reactor_vars

(* The loop runs; epoll reports a socket that has space for bytes in one   *)
(* of the next batches; and there is an end to the connections that come   *)
(* and to the calls that fail with EAGAIN.  (Both leave an errno that      *)
(* makes a handler take a packet it has written for one that blocked, and  *)
(* send it again; without an end the packets behind it wait for ever.)     *)
FairReactor ==
    /\ ReactorSpec /\ WF_reactor_vars(Loop)
    /\ \A h \in Handler : SF_reactor_vars(\E w \in 1 .. PktLen : OutputStep(h, w))
    /\ <>[][~Errors("EAGAIN") /\ ~\E h \in Handler, d \in Fd : Accept(h, d)]_reactor_vars

-----------------------------------------------------------------------------
(* The map and the kernel know the open handlers and only these, each      *)
(* under its own descriptor, however descriptors and addresses are reused: *)
(* a pointer to a deleted handler is at most in the batch being dispatched.*)
RegisteredExactly ==
    /\ interest = table
    /\ \A h \in Handler, d \in Fd : table[d] = h <=> open[h] /\ fd[h] = d
    /\ \A h \in Handler : open[h] <=> fd[h] # NoFd

(* After a signal the loop ends, and close() has closed every handler; its *)
(* loop over a map that handle_close() erases from comes to an end.        *)
ShutsDown == ~running ~> (fault \/ (phase = "closed" /\ \A h \in Handler : ~open[h]))
=============================================================================

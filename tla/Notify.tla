------------------------------- MODULE Notify -------------------------------
(***************************************************************************)
(* The threads of the broker process and the queue between them.  The      *)
(* bridge client and the HTTP server run in threads of their own and hand  *)
(* messages to the reactor with CPollerEpoll::notify(): under a mutex, the *)
(* message is pushed to m_notify_deque and the eventfd is written.  The    *)
(* reactor reads the eventfd and drains the deque without the mutex.       *)
(*                                                                         *)
(* main() starts the threads before it opens the server; a signal that all *)
(* threads block ends the reactor loop, and main() stops and joins them.   *)
(* push_back() and pop_front() are taken as atomic; that they may overlap  *)
(* is a data race of its own.                                              *)
(***************************************************************************)
EXTENDS Integers, Sequences, FiniteSets, Functions

CONSTANTS
    Producer,  \* the threads of TCPClient and HttpServer
    NoThread,  \* the mutex is free
    MaxMsg     \* bound: messages each of them passes on

ASSUME ThreadAssumption == NoThread \notin Producer
ASSUME BoundAssumption == MaxMsg \in Nat

VARIABLES
    main,      \* where main() is
    masked,    \* the threads that block SIGTERM and SIGINT: "none", "main", "all"
    writer,    \* m_notify_writer is registered
    lock,      \* the owner of m_notify_mutex
    pc,        \* where each producer is
    no,        \* how many messages each producer has received
    answered,  \* how many of them it has acknowledged to the sender
    deque,     \* m_notify_deque; a message has its producer and ordinal
    counter,   \* the counter of the eventfd
    reactor,   \* "wait" in epoll_wait(), "drain" in CPollerNotifyFd::handle_input()
    handled,   \* history: the messages published to subscribers
    stop       \* m_running_flag of the threads is FALSE

main_vars == <<main, masked, writer, stop>>
deque_vars == <<deque, counter, reactor, handled>>
producer_vars == <<lock, pc, no, answered>>
notify_vars == <<main_vars, deque_vars, producer_vars>>

Alive == main \notin {"returned", "killed"}

(* A process inherits the mask of its parent.                              *)
NotifyInit ==
    /\ main = "starting" /\ masked \in {"none", "all"} /\ writer = FALSE /\ stop = FALSE
    /\ lock = NoThread /\ pc = [p \in Producer |-> "idle"]
    /\ no = [p \in Producer |-> 0] /\ answered = [p \in Producer |-> 0]
    /\ deque = <<>> /\ counter = 0 /\ reactor = "wait" /\ handled = <<>>

-----------------------------------------------------------------------------
(* A PUBLISH of the parent broker or an HTTP request has come in.  The     *)
(* flag is only looked at between two reads.                               *)
Receive(p) ==
    /\ Alive /\ pc[p] = "idle" /\ no[p] < MaxMsg
    /\ no' = [no EXCEPT ![p] = @ + 1]
    /\ pc' = [pc EXCEPT ![p] = "notify"]
    /\ UNCHANGED <<main_vars, deque_vars, lock, answered>>

Lock(p) ==
    /\ Alive /\ pc[p] = "notify" /\ lock = NoThread
    /\ lock' = p
    /\ pc' = [pc EXCEPT ![p] = "locked"]
    /\ UNCHANGED <<main_vars, deque_vars, no, answered>>

(* Mutant: the early return leaves the mutex locked.                       *)
Push_KeepsLock(p) ==
    /\ Alive /\ pc[p] = "locked"
    /\ IF writer
       THEN deque' = Append(deque, [from |-> p, no |-> no[p]]) /\ pc' = [pc EXCEPT ![p] = "pushed"]
       ELSE pc' = [pc EXCEPT ![p] = "answer"] /\ UNCHANGED deque
    /\ UNCHANGED <<main_vars, lock, counter, reactor, handled, no, answered>>

(* notify() returns -1 when nobody has registered, which no caller looks   *)
(* at.                                                                     *)
Push(p) ==
    /\ Alive /\ pc[p] = "locked"
    /\ IF writer
       THEN deque' = Append(deque, [from |-> p, no |-> no[p]]) /\ pc' = [pc EXCEPT ![p] = "pushed"] /\ UNCHANGED lock
       ELSE pc' = [pc EXCEPT ![p] = "answer"] /\ lock' = NoThread /\ UNCHANGED deque
    /\ UNCHANGED <<main_vars, counter, reactor, handled, no, answered>>

(* CPollerNotifyFd::notify() writes the eventfd, and the guard ends.       *)
Wake(p) ==
    /\ Alive /\ pc[p] = "pushed"
    /\ counter' = counter + 1
    /\ lock' = NoThread
    /\ pc' = [pc EXCEPT ![p] = "answer"]
    /\ UNCHANGED <<main_vars, deque, reactor, handled, no, answered>>

(* Mutant: the message after the one received is acknowledged.             *)
Answer_Ahead(p) ==
    /\ Alive /\ pc[p] = "answer"
    /\ answered' = [answered EXCEPT ![p] = no[p] + 1]
    /\ pc' = [pc EXCEPT ![p] = "idle"]
    /\ UNCHANGED <<main_vars, deque_vars, lock, no>>

(* PUBACK to the parent broker, or the answer to the HTTP request.         *)
Answer(p) ==
    /\ Alive /\ pc[p] = "answer"
    /\ answered' = [answered EXCEPT ![p] = no[p]]
    /\ pc' = [pc EXCEPT ![p] = "idle"]
    /\ UNCHANGED <<main_vars, deque_vars, lock, no>>

Exit(p) ==
    /\ Alive /\ pc[p] = "idle" /\ stop
    /\ pc' = [pc EXCEPT ![p] = "ended"]
    /\ UNCHANGED <<main_vars, deque_vars, lock, no, answered>>

-----------------------------------------------------------------------------
(* TCPServer::open(): the eventfd is registered, then main blocks the      *)
(* signals, for itself only.                                               *)
OpenServer ==
    /\ main = "starting" /\ main' = "running"
    /\ writer' = TRUE
    /\ masked' = IF masked = "none" THEN "main" ELSE masked
    /\ UNCHANGED <<stop, deque_vars, producer_vars>>

(* restore() or the acceptor fails: open() returns early, and main() goes  *)
(* on to the loop all the same.                                            *)
OpenFails ==
    /\ main = "starting" /\ main' = "unserved"
    /\ UNCHANGED <<masked, writer, stop, deque_vars, producer_vars>>

(* epoll reports the eventfd; handle_input() reads, and so resets, it.     *)
StartDrain ==
    /\ main = "running" /\ reactor = "wait" /\ counter > 0
    /\ counter' = 0 /\ reactor' = "drain"
    /\ UNCHANGED <<main_vars, producer_vars, deque, handled>>

(* Mutant: the message that came last is taken first.                      *)
Pop_Back ==
    /\ main = "running" /\ reactor = "drain" /\ deque # <<>>
    /\ handled' = Append(handled, deque[Len(deque)])
    /\ deque' = SubSeq(deque, 1, Len(deque) - 1)
    /\ UNCHANGED <<main_vars, producer_vars, counter, reactor>>

(* Mutant: one message per notification.                                   *)
Pop_One ==
    /\ main = "running" /\ reactor = "drain" /\ deque # <<>>
    /\ handled' = Append(handled, Head(deque))
    /\ deque' = Tail(deque)
    /\ reactor' = "wait"
    /\ UNCHANGED <<main_vars, producer_vars, counter>>

Pop ==
    /\ main = "running" /\ reactor = "drain" /\ deque # <<>>
    /\ handled' = Append(handled, Head(deque))
    /\ deque' = Tail(deque)
    /\ UNCHANGED <<main_vars, producer_vars, counter, reactor>>

EndDrain ==
    /\ main = "running" /\ reactor = "drain" /\ deque = <<>>
    /\ reactor' = "wait"
    /\ UNCHANGED <<main_vars, producer_vars, deque, counter, handled>>

(* SIGTERM or SIGINT.  The kernel gives it to any thread that does not     *)
(* block it, where it ends the process (the record threads of main() never *)
(* block or end); only when all threads block it the signalfd gets it and  *)
(* CSigHandler ends the loop.                                              *)
Signal ==
    /\ main \in {"starting", "running", "unserved"}
    /\ IF masked = "all"
       THEN main = "running" /\ reactor = "wait" /\ main' = "stopping"
       ELSE main' = "killed"
    /\ UNCHANGED <<masked, writer, stop, deque_vars, producer_vars>>

(* loop() has stored once more; main() stops the threads, joins them and   *)
(* returns.  (The destructors that then join the record threads wait for   *)
(* ever: nothing calls their stop().)                                      *)
StopThreads ==
    /\ main = "stopping" /\ main' = "joining" /\ stop' = TRUE
    /\ UNCHANGED <<masked, writer, deque_vars, producer_vars>>

Join ==
    /\ main = "joining" /\ \A p \in Producer : pc[p] = "ended"
    /\ main' = "returned"
    /\ UNCHANGED <<masked, writer, stop, deque_vars, producer_vars>>

Step(p) == Lock(p) \/ Push(p) \/ Wake(p) \/ Answer(p) \/ Exit(p)
Reactor == StartDrain \/ Pop \/ EndDrain
Main == OpenServer \/ OpenFails \/ StopThreads \/ Join
NotifyNext == (\E p \in Producer : Receive(p) \/ Step(p)) \/ Reactor \/ Main \/ Signal

NotifySpec == NotifyInit /\ [][NotifyNext]_notify_vars

(* The kernel runs every thread that can go on.                            *)
FairSpec ==
    /\ NotifySpec
    /\ WF_notify_vars(Reactor) /\ WF_notify_vars(Main)
    /\ \A p \in Producer : WF_notify_vars(Step(p))

-----------------------------------------------------------------------------
Message == [from : Producer, no : 1 .. MaxMsg]

TypeOK ==
    /\ main \in {"starting", "running", "unserved", "stopping", "joining", "returned", "killed"}
    /\ masked \in {"none", "main", "all"} /\ writer \in BOOLEAN /\ stop \in BOOLEAN
    /\ lock \in Producer \cup {NoThread}
    /\ pc \in [Producer -> {"idle", "notify", "locked", "pushed", "answer", "ended"}]
    /\ no \in [Producer -> 0 .. MaxMsg] /\ answered \in [Producer -> 0 .. MaxMsg]
    /\ deque \in Seq(Message) /\ handled \in Seq(Message)
    /\ counter \in Nat /\ reactor \in {"wait", "drain"}

(* A message in the deque never waits for the next one to come: the        *)
(* eventfd is readable, or the reactor has not finished draining, or the   *)
(* thread that pushed is about to write the eventfd.                       *)
NoLostWakeup ==
    deque # <<>> => counter > 0 \/ reactor = "drain" \/ \E p \in Producer : pc[p] = "pushed"

All == handled \o deque

(* The messages of a producer are published in the order it received them, *)
(* none twice.                                                             *)
InOrder ==
    \A i, j \in 1 .. Len(All) : i < j /\ All[i].from = All[j].from => All[i].no < All[j].no

(* Every message that got into the deque is published, unless the process  *)
(* is asked to end before.                                                 *)
EventuallyHandled ==
    \A m \in Message : (m \in Range(deque)) ~> (m \in Range(handled) \/ main # "running")

(* main() returns: its joins are not blocked by threads that wait for the  *)
(* mutex or for each other.                                                *)
Stops == (main = "stopping") ~> (main = "returned")
=============================================================================

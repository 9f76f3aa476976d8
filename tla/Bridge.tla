------------------------------- MODULE Bridge -------------------------------
(***************************************************************************)
(* The bridge client (TCPClient of mqtt_server) composed with its parent   *)
(* broker, which is Session: the thread connects, subscribes one topic,    *)
(* hands every message it is sent to the reactor of its own broker, and    *)
(* acknowledges it.  Connections break at any time on either side, and the *)
(* parent may hear of the new one before it hears of the end of the old.   *)
(*                                                                         *)
(* The parent serves this client; messages come in over HTTP.  What is on  *)
(* the way to the parent is in up (packets) and read (PUBACKs); what is on *)
(* the way to the bridge is the part of sent that was not read.            *)
(***************************************************************************)
EXTENDS Session

CONSTANTS
    MaxPing  \* the pings without an answer that are put up with, 5 in the code

ASSUME PingAssumption == MaxPing \in Nat

VARIABLES
    sock,    \* m_client_socket, Null while connect() tries
    up,      \* of each connection: the kinds of requests on the way to the parent
    read,    \* of each connection: messages read whose PUBACK is on the way
    greeted, \* CONNACK has been read on this connection
    pings,   \* send_ping_req_time
    server,  \* the reactor of the own broker takes messages (m_notify_writer)
    handed,  \* history: the messages passed to it
    refused, \* history: the messages it refused before it was open
    ended    \* the thread, or the whole process, is over

bridge_vars == <<sock, greeted, pings, handed, refused, ended>>
net_vars == <<up, read>>
bvars == <<vars, bridge_vars, net_vars, server>>

BridgeInit ==
    /\ Init
    /\ sock = Null /\ greeted = FALSE /\ pings = 0
    /\ up = [c \in Conn |-> {}] /\ read = [c \in Conn |-> 0]
    /\ server = FALSE /\ handed = {} /\ refused = {}
    /\ ended = FALSE

-----------------------------------------------------------------------------
Up == Running /\ ~ended
Live(c) == Up /\ sock = c

(* A request is written; on a closed connection it leads nowhere.          *)
Send(c, packet) == up' = [up EXCEPT ![c] = IF conn[c].open THEN @ \cup {packet} ELSE @]

(* connect(): the loop around ::connect() has succeeded, CONNECT is sent.  *)
(* Failed attempts, with their sleeps of 1 to 16 seconds, change nothing.  *)
Connect(c) ==
    /\ Up /\ sock = Null
    /\ Accept(c)
    /\ sock' = c /\ greeted' = FALSE
    /\ up' = [up EXCEPT ![c] = {"CONNECT"}]
    /\ UNCHANGED <<read, pings, server, handed, refused, ended>>

(* CONNACK, or every reply, has come.                                      *)
Accepted(c) == conn[c].open /\ "CONNECT" \notin up[c] /\ Ctl \notin Range(conn[c].outq)
Answered(c) == Accepted(c) /\ up[c] = {}

(* There is a message to read.                                             *)
Unread(c) == greeted /\ read[c] < Len(conn[c].sent)

(* Mutant: CONNACK is read and nothing is subscribed.                      *)
ReadConnack_NoSubscribe(c) ==
    /\ Live(c) /\ ~greeted /\ Accepted(c)
    /\ greeted' = TRUE /\ pings' = 0
    /\ UNCHANGED <<vars, sock, up, read, server, handed, refused, ended>>

(* CONNACK: subscribe the topic.                                           *)
ReadConnack(c) ==
    /\ Live(c) /\ ~greeted /\ Accepted(c)
    /\ Send(c, "SUBSCRIBE")
    /\ greeted' = TRUE /\ pings' = 0
    /\ UNCHANGED <<vars, sock, read, server, handed, refused, ended>>

(* Mutant: PUBACK is sent without the message being passed on.             *)
ReadPublish_AckOnly(c) ==
    /\ Live(c) /\ Unread(c)
    /\ read' = [read EXCEPT ![c] = @ + 1]
    /\ pings' = 0
    /\ UNCHANGED <<vars, sock, up, greeted, server, handed, refused, ended>>

(* PUBLISH: the message is passed to the reactor, whose result is not      *)
(* looked at, and acknowledged.                                            *)
ReadPublish(c) ==
    /\ Live(c) /\ Unread(c)
    /\ LET m == conn[c].sent[read[c] + 1] IN
        IF server THEN handed' = handed \cup {m} /\ UNCHANGED refused
                  ELSE refused' = refused \cup {m} /\ UNCHANGED handed
    /\ read' = [read EXCEPT ![c] = @ + 1]
    /\ pings' = 0
    /\ UNCHANGED <<vars, sock, up, greeted, server, ended>>

(* SUBACK or PINGRESP.                                                     *)
ReadReply(c) ==
    /\ Live(c) /\ greeted /\ pings > 0 /\ Answered(c) /\ ~Unread(c)
    /\ pings' = 0
    /\ UNCHANGED <<vars, sock, net_vars, greeted, server, handed, refused, ended>>

(* Nothing came for 10 seconds, or the end of the stream is taken for      *)
(* that, because errno is EAGAIN from an earlier call.                     *)
Silent(c) == Live(c) /\ ~Unread(c) /\ (~greeted => ~Accepted(c))

(* Mutant: the pings are not limited.                                      *)
Timeout_NoLimit(c) ==
    /\ Silent(c)
    /\ Send(c, "PINGREQ") /\ pings' = pings + 1
    /\ UNCHANGED <<vars, sock, read, greeted, server, handed, refused, ended>>

Timeout(c) ==
    /\ Silent(c) /\ pings < MaxPing
    /\ Send(c, "PINGREQ") /\ pings' = pings + 1
    /\ UNCHANGED <<vars, sock, read, greeted, server, handed, refused, ended>>

(* connect() begins: DISCONNECT, close.                                    *)
Leave(c) ==
    /\ Live(c)
    /\ sock' = Null /\ greeted' = FALSE
    /\ UNCHANGED <<vars, read, server, handed, refused, ended>>

(* Too many pings: PINGREQ is sent once more, and the connection is left.  *)
GiveUp(c) == Silent(c) /\ pings = MaxPing /\ Send(c, "PINGREQ") /\ Leave(c) /\ pings' = 0

(* read() fails.  The count of pings is carried over.                      *)
ReadError(c) == ~conn[c].open /\ Leave(c) /\ UNCHANGED <<up, pings>>

(* Five minutes without a message; or a packet is of another type or       *)
(* cannot be decoded.                                                      *)
StartOver(c) == Leave(c) /\ pings' = 0 /\ UNCHANGED up

(* svc() returns and nothing restarts it: socket() fails in connect(), or  *)
(* a packet does not fit into the buffer.  Or a write to a connection the  *)
(* parent has closed raises SIGPIPE, which TCPServer::open() ignores only  *)
(* later.  There the model ends, and nothing of its state is kept.         *)
ThreadEnds ==
    /\ Up /\ ended' = TRUE
    /\ Crash("none")
    /\ sock' = Null /\ greeted' = FALSE /\ pings' = 0
    /\ up' = [c \in Conn |-> {}] /\ read' = [c \in Conn |-> 0]
    /\ server' = FALSE /\ handed' = {} /\ refused' = {}

(* The server of the own broker opens.                                     *)
OpenServer ==
    /\ Up /\ ~server /\ server' = TRUE
    /\ UNCHANGED <<vars, bridge_vars, net_vars>>

-----------------------------------------------------------------------------
(* A step of the parent: what was on the way to a connection it has closed *)
(* is gone.                                                                *)
Parent(requests, acks) ==
    /\ up' = [c \in Conn |-> IF conn'[c].open THEN requests[c] ELSE {}]
    /\ read' = [c \in Conn |-> IF conn'[c].open THEN acks[c] ELSE 0]
    /\ UNCHANGED <<bridge_vars, server>>

Handled(c, packet) == Parent([up EXCEPT ![c] = @ \ {packet}], read)

(* CONNECT comes first, and a PINGREQ after the PUBACKs of the messages    *)
(* read before it; of SUBSCRIBE and PINGREQ either may be the first.       *)
First(c, packet) ==
    /\ ~ended /\ packet \in up[c]
    /\ packet # "CONNECT" => "CONNECT" \notin up[c]
    /\ packet = "PINGREQ" => read[c] = 0

ParentConnect(c, n) ==
    /\ First(c, "CONNECT")
    /\ \E i \in ClientId : ConnectNew(c, i, FALSE, n) \/ ConnectKnown(c, i, FALSE, n)
    /\ Handled(c, "CONNECT")

ParentSubscribe(c, n) ==
    /\ First(c, "SUBSCRIBE")
    /\ \E t \in Topic : Subscribe(c, <<t>>, n)
    /\ Handled(c, "SUBSCRIBE")

ParentPingreq(c, n) ==
    /\ First(c, "PINGREQ")
    /\ Pingreq(c, n)
    /\ Handled(c, "PINGREQ")

ParentPuback(c) ==
    /\ ~ended /\ read[c] > 0
    /\ Puback(c)
    /\ Parent(up, [read EXCEPT ![c] = @ - 1])

(* DISCONNECT of a connection the bridge has left, after all else.         *)
ParentDisconnect(c) ==
    /\ ~ended /\ sock # c /\ up[c] = {} /\ read[c] = 0
    /\ Disconnect(c)
    /\ Parent(up, read)

(* The connection breaks, or is reset, or the parent closes it as idle,    *)
(* which is the same for a connection with a session.                      *)
ParentClose(c) ==
    /\ ~ended
    /\ Close(c)
    /\ Parent(up, read)

ParentOutput(c) ==
    /\ ~ended
    /\ HandleOutput(c, FALSE)
    /\ Parent(up, read)

ParentCrash(c) ==
    /\ ~ended
    /\ WriteError(c)
    /\ Parent(up, read)

(* A message for the topic.                                                *)
NewMessage(n) ==
    /\ ~ended
    /\ \E t \in Topic : NotifyHttp(t, "none", n, {})
    /\ Parent(up, read)

Respond(c) ==
    \/ ParentPuback(c) \/ ParentDisconnect(c)
    \/ \E n \in 0 .. SndBuf : ParentSubscribe(c, n) \/ ParentPingreq(c, n)

Work(c) == Connect(c) \/ ReadConnack(c) \/ ReadPublish(c) \/ ReadReply(c) \/ ReadError(c)

BridgeNext ==
    \/ \E c \in Conn :
         \/ Work(c) \/ Timeout(c) \/ GiveUp(c) \/ StartOver(c)
         \/ \E n \in 0 .. SndBuf : ParentConnect(c, n)
         \/ Respond(c) \/ ParentClose(c) \/ ParentOutput(c) \/ ParentCrash(c)
    \/ \E n \in Taken : NewMessage(n)
    \/ OpenServer \/ ThreadEnds

BridgeSpec == BridgeInit /\ [][BridgeNext]_bvars

Over == ended \/ ~Running

(* Connections may break, and the bridge may give them up, any number of   *)
(* times, but in the end one of them lasts.                                *)
BridgeLasting ==
    <>[][sock # Null /\ conn[sock].open => sock' = sock /\ conn'[sock].open]_bvars

(* Both brokers are scheduled, and the kernel takes what the parent writes.*)
(* epoll reports a socket until all of its packets have been handled: the  *)
(* parent catches up with the requests, and sees that the bridge has left. *)
FairBridge ==
    /\ BridgeSpec /\ BridgeLasting
    /\ \A c \in Conn :
         /\ WF_bvars(Work(c)) /\ WF_bvars(ParentOutput(c)) /\ WF_bvars(ParentPuback(c))
         /\ []<>(Over \/ up[c] = {})
         /\ []<>(Over \/ sock = c \/ ~conn[c].open)

-----------------------------------------------------------------------------
BridgeTypeOK ==
    /\ TypeOK
    /\ sock \in Conn \cup {Null} /\ greeted \in BOOLEAN /\ pings \in 0 .. MaxPing
    /\ up \in [Conn -> SUBSET {"CONNECT", "SUBSCRIBE", "PINGREQ"}]
    /\ \A c \in Conn : read[c] \in 0 .. Len(conn[c].sent)
    /\ server \in BOOLEAN /\ ended \in BOOLEAN
    /\ handed \subseteq Own /\ refused \subseteq Own

(* The parent forgets a message only after the reactor behind the bridge   *)
(* has got it, or has refused it before its server was open: no takeover,  *)
(* late PUBACK or second delivery removes one that is not there yet.       *)
ForgottenWasHanded ==
    Running => \A x \in Ctx : ctx[x].owed \ Messages(ctx[x].queue) \subseteq handed \cup refused

(* A message queued for the bridge reaches the reactor behind it and is    *)
(* acknowledged, however often the connection is lost on either side.      *)
EventuallyForwarded ==
    \A m \in Own :
        (\E x \in Ctx : m \in ctx[x].owed) ~>
            (Over \/ (m \in handed \cup refused /\ \A x \in Ctx : m \notin Messages(ctx[x].queue)))

(* The topic is subscribed in the end: no loss of the connection between   *)
(* CONNECT, CONNACK and SUBSCRIBE leaves the bridge connected and deaf.    *)
EventuallySubscribed == <>(Over \/ \A t \in Topic : subs[t] # {})
=============================================================================
